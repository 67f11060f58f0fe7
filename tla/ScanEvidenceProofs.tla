------------------------- MODULE ScanEvidenceProofs -------------------------
(***************************************************************************)
(* Theorems about ScanEvidence for every set of workers and tools and      *)
(* every value of the bounds.  IInv types the tables and the executors and *)
(* keeps a cancelled record cancelled; it assumes nothing.  EInv says what *)
(* the lease holder's progress tells of the tables - the tools it keeps    *)
(* have findings, the tools it works on have none but its own and no       *)
(* completed record - and that nobody else writes.  It needs Reliable: no  *)
(* claim is lost before its token is read, and the statements that fail    *)
(* are reads and inserts of findings, whose errors end the run.            *)
(***************************************************************************)
EXTENDS ScanEvidence, FiniteSetTheorems, TLAPS

Recorded == {"none", "queued", "running", "completed", "failed", "cancelled"}
Record   == [status : Recorded, cancel : BOOLEAN, once : BOOLEAN]
Phases   == {"idle", "claimed", "loading", "resetting", "selecting",
             "scanning", "failing"}
Steps    == {"off", "waiting", "running", "reporting", "persisted", "done"}
Outcomes == {"none", "completed", "failed"}

\* A queued row has attempts left.
Queueable(r) == r.status = "pending" => r.attempt < MaxAttempts
Legal(r)     == r \in Row /\ Queueable(r)

TablesOK ==
    /\ record \in [Tools -> Record]
    /\ evidence \in [Tools -> SUBSET Tokens]
    /\ reported \subseteq Tools /\ asked \subseteq Cancellable
    /\ \A t \in Tools : record[t].cancel => record[t].status = "cancelled"
SlotsOK ==
    /\ phase \in [Workers -> Phases]
    /\ claim \in [Workers -> Tokens]
    /\ row \in [Workers -> Row] /\ \A w \in Workers : Queueable(row[w])
    /\ kept \in [Workers -> SUBSET Tools]
    /\ todo \in [Workers -> SUBSET Tools]
    /\ step \in [Workers -> [Tools -> Steps]]
    /\ outcome \in [Workers -> [Tools -> Outcomes]]
    /\ told \in [Workers -> SUBSET Tools]
    /\ live \in [Workers -> BOOLEAN]
    /\ broken \in [Workers -> BOOLEAN]
IInv == Legal(scan) /\ TablesOK /\ SlotsOK /\ errors \in 0 .. MaxErrors

-----------------------------------------------------------------------------
(* What the writes to the nested tables do. *)

LEMMA StepTo ==
    ASSUME SlotsOK, NEW w \in Workers, NEW t \in Tools, NEW s \in Steps,
           Step(w, t, s)
    PROVE  /\ step' \in [Workers -> [Tools -> Steps]]
           /\ step'[w][t] = s
           /\ \A u \in Tools \ {t} : step'[w][u] = step[w][u]
           /\ \A v \in Workers \ {w} : step'[v] = step[v]
<1> DEFINE g == [step[w] EXCEPT ![t] = s]
<1>1. /\ g \in [Tools -> Steps] /\ g[t] = s
      /\ \A u \in Tools \ {t} : g[u] = step[w][u]
  BY DEF SlotsOK
<1>2. step' = [step EXCEPT ![w] = g]
  BY DEF Step
<1> HIDE DEF g
<1>3. QED
  BY <1>1, <1>2 DEF SlotsOK

LEMMA OutcomeTo ==
    ASSUME SlotsOK, NEW w \in Workers, NEW t \in Tools, NEW r \in Outcomes,
           outcome' = [outcome EXCEPT ![w][t] = r]
    PROVE  /\ outcome' \in [Workers -> [Tools -> Outcomes]]
           /\ outcome'[w][t] = r
           /\ \A u \in Tools \ {t} : outcome'[w][u] = outcome[w][u]
           /\ \A v \in Workers \ {w} : outcome'[v] = outcome[v]
<1> DEFINE g == [outcome[w] EXCEPT ![t] = r]
<1>1. /\ g \in [Tools -> Outcomes] /\ g[t] = r
      /\ \A u \in Tools \ {t} : g[u] = outcome[w][u]
  BY DEF SlotsOK
<1>2. outcome' = [outcome EXCEPT ![w] = g]
  OBVIOUS
<1> HIDE DEF g
<1>3. QED
  BY <1>1, <1>2 DEF SlotsOK

\* One record changes: its cancellation is kept and keeps it cancelled.
RecordSet(t, status) ==
    /\ record' \in [Tools -> Record]
    /\ record'[t].status = status
    /\ record[t].cancel => record'[t].cancel
    /\ record'[t].cancel => record'[t].status = "cancelled"
    /\ \A u \in Tools \ {t} : record'[u] = record[u]

LEMMA UpsertTo ==
    ASSUME TablesOK, NEW t \in Tools, NEW s \in Recorded, Upsert(t, s)
    PROVE  RecordSet(t, Upserted(t, s))
<1> DEFINE st == Upserted(t, s)
           once == record[t].once \/ st = "completed"
           g == [record[t] EXCEPT !.status = st, !.once = once]
<1>1. record[t] \in Record /\ st \in Recorded
  BY DEF TablesOK, Upserted, Recorded
<1>2. once \in BOOLEAN
  BY <1>1 DEF Record
<1>3. record' = [record EXCEPT ![t] = g]
  BY DEF Upsert
<1>4. record[t].cancel => st = "cancelled"
  BY DEF Upserted
<1> HIDE DEF st, once
<1>5. /\ g \in Record /\ g.status = st /\ g.cancel = record[t].cancel
  BY <1>1, <1>2 DEF Record
<1> HIDE DEF g
<1>6. record' \in [Tools -> Record] /\ record'[t] = g
  BY <1>3, <1>5 DEF TablesOK
<1>7. \A u \in Tools \ {t} : record'[u] = record[u]
  BY <1>3 DEF TablesOK
<1>8. QED
  BY <1>4, <1>5, <1>6, <1>7 DEF RecordSet, st

CancelRecord(t) ==
    record' = [record EXCEPT ![t].status = "cancelled", ![t].cancel = TRUE]

LEMMA CancelTo ==
    ASSUME TablesOK, NEW t \in Tools, CancelRecord(t)
    PROVE  RecordSet(t, "cancelled")
<1> DEFINE g == [record[t] EXCEPT !.status = "cancelled", !.cancel = TRUE]
<1>1. record[t] \in Record /\ "cancelled" \in Recorded
  BY DEF TablesOK, Recorded
<1>2. record' = [record EXCEPT ![t] = g]
  BY DEF CancelRecord
<1>3. g \in Record /\ g.status = "cancelled" /\ g.cancel = TRUE
  BY <1>1 DEF Record
<1> HIDE DEF g
<1>4. record' \in [Tools -> Record] /\ record'[t] = g
  BY <1>2, <1>3 DEF TablesOK
<1>5. \A u \in Tools \ {t} : record'[u] = record[u]
  BY <1>2 DEF TablesOK
<1>6. QED
  BY <1>3, <1>4, <1>5 DEF RecordSet

LEMMA SetKeepsTables ==
    ASSUME TablesOK, NEW t \in Tools, NEW s, RecordSet(t, s),
           UNCHANGED <<evidence, reported>>, asked' \subseteq Cancellable
    PROVE  TablesOK'
  BY DEF TablesOK, RecordSet

\* A record write of an executor happens under its claim or not at all.
LEMMA WriteTo ==
    ASSUME IInv, NEW w \in Workers, NEW t \in Tools, NEW s \in Recorded,
           WriteRecord(w, t, s)
    PROVE  /\ errors' \in 0 .. MaxErrors
           /\ \/ Owned(w) /\ RecordSet(t, Upserted(t, s))
              \/ record' = record
<1>1. errors' \in 0 .. MaxErrors
  BY EvidenceAssumption DEF EvidenceAssumption, IInv, WriteRecord, Fails
<1>2. QED
  BY <1>1, UpsertTo DEF WriteRecord, IInv

-----------------------------------------------------------------------------
(* Types *)

LEMMA Extremes ==
    /\ NoToken \in Tokens /\ 0 \in Tokens /\ Tokens \subseteq Nat
    /\ Legal(Unread) /\ MaxAttempts \in Nat /\ MaxAttempts # 0
  BY EvidenceAssumption
     DEF EvidenceAssumption, NoToken, Tokens, Legal, Unread, Row, Queueable

LEMMA ReturnTyped ==
    ASSUME SlotsOK, NEW w \in Workers, Return(w) PROVE SlotsOK'
<1>1. [t \in Tools |-> "off"] \in [Tools -> Steps]
  BY DEF Steps
<1>2. [t \in Tools |-> "none"] \in [Tools -> Outcomes]
  BY DEF Outcomes
<1>3. {} \in SUBSET Tools /\ "idle" \in Phases
  BY DEF Phases
<1>4. QED
  BY <1>1, <1>2, <1>3, Extremes DEF SlotsOK, Return, Goto, Legal

LEMMA FinalizeLegal ==
    ASSUME Legal(scan), NEW s, Finalize(s),
           s \in {"completed", "failed"} \/ (s = "pending" /\ RetryLeft)
    PROVE  Legal(scan')
  BY Extremes DEF Legal, Finalize, Row, Queueable, RetryLeft

\* A progress write is the row itself under the writer's token.
LEMMA ProgressLegal ==
    ASSUME IInv, NEW w \in Workers, SaveProgress(w) PROVE Legal(scan')
<1>1. row[w].token \in Tokens
  BY DEF IInv, SlotsOK, Row
<1>2. Legal([scan EXCEPT !.token = Fence(w)])
  BY <1>1 DEF Legal, Queueable, Row, Fence, IInv
<1>3. QED
  BY <1>2 DEF SaveProgress, UpdateScan, IInv

LEMMA ClaimTyped ==
    ASSUME IInv, NEW w \in Workers, ClaimNextScan(w) PROVE IInv'
<1>1. scan.attempt + 1 \in Tokens /\ scan.attempt \in Nat
  BY Extremes DEF ClaimNextScan, IInv, Legal, Queueable, Row, Tokens
<1>2. Legal(scan')
  BY <1>1 DEF ClaimNextScan, IInv, Legal, Queueable, Row
<1>3. "claimed" \in Phases
  BY DEF Phases
<1>4. SlotsOK'
  BY <1>1, <1>3 DEF ClaimNextScan, IInv, SlotsOK, Goto
<1>5. QED
  BY <1>2, <1>4 DEF ClaimNextScan, IInv, TablesOK, tables

LEMMA BeginTyped ==
    ASSUME IInv, NEW w \in Workers, Begin(w) PROVE IInv'
<1>1. Legal(scan')
  <2>1. Legal(scan) /\ Legal([scan EXCEPT !.status = "running"])
    BY DEF IInv, Legal, Queueable, Row
  <2>2. scan' = scan \/ scan' = [scan EXCEPT !.status = "running"]
    BY DEF Begin
  <2>3. QED
    BY <2>1, <2>2
<1>2. SlotsOK'
  <2>1. CASE Return(w)
    BY <2>1, ReturnTyped DEF IInv
  <2>2. CASE /\ row' = [row EXCEPT ![w] = scan'] /\ Goto(w, "loading")
             /\ UNCHANGED <<claim, kept, todo, step, outcome, told, live,
                            broken>>
    BY <1>1, <2>2 DEF IInv, SlotsOK, Goto, Phases, Legal
  <2>3. QED
    BY <2>1, <2>2 DEF Begin
<1>3. QED
  BY <1>1, <1>2 DEF Begin, IInv, TablesOK, tables

LEMMA PrepareTyped ==
    ASSUME IInv, NEW w \in Workers,
           LoadEvidence(w) \/ PrepareFails(w) \/ LoseContext(w)
    PROVE  IInv'
<1>1. errors' \in 0 .. MaxErrors
  BY EvidenceAssumption
     DEF EvidenceAssumption, IInv, LoadEvidence, PrepareFails, LoseContext,
         Fails
<1>2. UNCHANGED <<scan, tables>>
  BY DEF LoadEvidence, PrepareFails, LoseContext
<1>3. CASE LoadEvidence(w)
  <2> DEFINE K == {t \in Tools : Keeps(t)}
             R == {t \in Tools : Resets(t)}
  <2>1. K \in SUBSET Tools /\ R \in SUBSET Tools
    OBVIOUS
  <2>2. \/ kept' = [kept EXCEPT ![w] = K] /\ todo' = [todo EXCEPT ![w] = R]
        \/ UNCHANGED <<kept, todo>>
    BY <1>3 DEF LoadEvidence
  <2> HIDE DEF K, R
  <2>3. /\ kept' \in [Workers -> SUBSET Tools]
        /\ todo' \in [Workers -> SUBSET Tools]
    BY <2>1, <2>2 DEF IInv, SlotsOK
  <2>4. QED
    BY <1>1, <1>2, <1>3, <2>3
       DEF LoadEvidence, IInv, SlotsOK, TablesOK, tables, Goto, Phases
<1>4. CASE PrepareFails(w) \/ LoseContext(w)
  BY <1>1, <1>2, <1>4
     DEF PrepareFails, LoseContext, IInv, SlotsOK, TablesOK, tables, Goto,
         Phases
<1>5. QED
  BY <1>3, <1>4

LEMMA EndTyped ==
    ASSUME IInv, NEW w \in Workers,
           FailPreparedScan(w) \/ FinishScan(w) \/ Crash(w)
    PROVE  IInv'
<1>1. SlotsOK'
  BY ReturnTyped DEF FailPreparedScan, FinishScan, Crash, IInv
<1>2. Legal(scan')
  <2>1. CASE FailPreparedScan(w)
    <3>1. Legal([row[w] EXCEPT !.status = "failed"])
      BY DEF IInv, SlotsOK, Legal, Queueable, Row
    <3>2. QED
      BY <2>1, <3>1, FinalizeLegal DEF FailPreparedScan, UpdateScan, IInv
  <2>2. CASE FinishScan(w)
    BY <2>2, FinalizeLegal DEF FinishScan, IInv
  <2>3. CASE Crash(w)
    BY <2>3 DEF Crash, IInv
  <2>4. QED
    BY <2>1, <2>2, <2>3
<1>3. TablesOK'
  <2>1. UNCHANGED <<record, evidence, asked>>
    BY DEF FailPreparedScan, FinishScan, Crash, tables
  <2>2. reported' \subseteq Tools
    BY DEF FailPreparedScan, FinishScan, Crash, tables, IInv, TablesOK,
           SlotsOK
  <2>3. QED
    BY <2>1, <2>2 DEF IInv, TablesOK
<1>4. errors' = errors
  BY DEF FailPreparedScan, FinishScan, Crash
<1>5. QED
  BY <1>1, <1>2, <1>3, <1>4 DEF IInv

LEMMA StartRunTyped ==
    ASSUME IInv, NEW w \in Workers, StartRun(w) PROVE IInv'
<1>1. Legal(scan')
  BY DEF StartRun, UpdateScan, IInv, SlotsOK, Legal
<1>2. SlotsOK'
  BY DEF StartRun, IInv, SlotsOK, Goto, Phases
<1>3. QED
  BY <1>1, <1>2 DEF StartRun, IInv, TablesOK, tables

\* The callbacks of one tool.
LEMMA ToolTyped ==
    ASSUME IInv, NEW w \in Workers, NEW t \in Tools, ToolStep(w, t)
    PROVE  IInv'
<1>1. IInv /\ SlotsOK /\ TablesOK
  BY DEF IInv
<1>2. CASE DeleteFindingsByScanTool(w, t)
  BY <1>1, <1>2 DEF DeleteFindingsByScanTool, IInv, SlotsOK, TablesOK
<1>3. CASE QueueTool(w, t)
  <2>1. Legal(scan')
    BY <1>3, ProgressLegal DEF QueueTool
  <2>2. errors' \in 0 .. MaxErrors /\ TablesOK'
    <3>1. UNCHANGED <<evidence, reported, asked>> /\ asked \subseteq Cancellable
      BY <1>1, <1>3 DEF QueueTool, TablesOK
    <3>2. "queued" \in Recorded /\ WriteRecord(w, t, "queued")
      BY <1>3 DEF QueueTool, Recorded
    <3>3. QED
      BY <1>1, <3>1, <3>2, WriteTo, SetKeepsTables DEF TablesOK
  <2>3. step' \in [Workers -> [Tools -> Steps]]
    BY <1>1, <1>3, StepTo DEF QueueTool, Steps
  <2>4. SlotsOK'
    BY <1>1, <1>3, <2>3 DEF QueueTool, SlotsOK, Goto, Phases
  <2>5. QED
    BY <2>1, <2>2, <2>4 DEF IInv
<1>4. CASE OnToolStart(w, t)
  <2>2. errors' \in 0 .. MaxErrors /\ TablesOK'
    <3>1. UNCHANGED <<evidence, reported, asked>> /\ asked \subseteq Cancellable
      BY <1>1, <1>4 DEF OnToolStart, TablesOK
    <3>2. "running" \in Recorded /\ WriteRecord(w, t, "running")
      BY <1>4 DEF OnToolStart, Recorded
    <3>3. QED
      BY <1>1, <3>1, <3>2, WriteTo, SetKeepsTables DEF TablesOK
  <2>3. step' \in [Workers -> [Tools -> Steps]]
    BY <1>1, <1>4, StepTo DEF OnToolStart, Steps
  <2>4. SlotsOK'
    BY <1>1, <1>4, <2>3 DEF OnToolStart, SlotsOK
  <2>5. QED
    BY <1>4, <2>2, <2>4 DEF OnToolStart, IInv
<1>5. CASE SkipTool(w, t)
  <2>1. step' \in [Workers -> [Tools -> Steps]]
    BY <1>1, <1>5, StepTo DEF SkipTool, Steps
  <2>2. outcome' \in [Workers -> [Tools -> Outcomes]]
    BY <1>1, <1>5, OutcomeTo DEF SkipTool, Outcomes
  <2>3. QED
    BY <1>5, <2>1, <2>2 DEF SkipTool, IInv, SlotsOK, TablesOK, tables
<1>6. CASE \E result \in {"completed", "failed"} : OnToolDone(w, t, result)
  <2>1. PICK result \in {"completed", "failed"} : OnToolDone(w, t, result)
    BY <1>6
  <2>2. step' \in [Workers -> [Tools -> Steps]]
    BY <1>1, <2>1, StepTo DEF OnToolDone, Steps
  <2>3. outcome' \in [Workers -> [Tools -> Outcomes]]
    BY <1>1, <2>1, OutcomeTo DEF OnToolDone, Outcomes
  <2>4. errors' \in 0 .. MaxErrors
    BY <2>1, EvidenceAssumption DEF EvidenceAssumption, OnToolDone, Fails, IInv
  <2>5. QED
    BY <2>1, <2>2, <2>3, <2>4
       DEF OnToolDone, IInv, SlotsOK, TablesOK, tables
<1>7. CASE CreateFindingsForScanLease(w, t)
  <2>1. step' \in [Workers -> [Tools -> Steps]]
    BY <1>1, <1>7, StepTo DEF CreateFindingsForScanLease, Steps
  <2> DEFINE e == evidence[t] \cup {claim[w]}
  <2>2. e \in SUBSET Tokens
    BY <1>1 DEF TablesOK, SlotsOK
  <2>3. evidence' = [evidence EXCEPT ![t] = e] \/ evidence' = evidence
    BY <1>7 DEF CreateFindingsForScanLease
  <2> HIDE DEF e
  <2>4. evidence' \in [Tools -> SUBSET Tokens]
    BY <1>1, <2>2, <2>3 DEF TablesOK
  <2>5. QED
    BY <1>7, <2>1, <2>4
       DEF CreateFindingsForScanLease, IInv, SlotsOK, TablesOK
<1>8. CASE CreateFindingsFails(w, t)
  <2>1. step' \in [Workers -> [Tools -> Steps]]
    BY <1>1, <1>8, StepTo DEF CreateFindingsFails, Steps
  <2>2. outcome' \in [Workers -> [Tools -> Outcomes]]
    BY <1>1, <1>8, OutcomeTo DEF CreateFindingsFails, Outcomes
  <2>3. errors' \in 0 .. MaxErrors
    BY <1>8, EvidenceAssumption
       DEF EvidenceAssumption, CreateFindingsFails, Fails, IInv
  <2>4. QED
    BY <1>8, <2>1, <2>2, <2>3
       DEF CreateFindingsFails, IInv, SlotsOK, TablesOK, tables
<1>9. CASE RecordTool(w, t)
  <2> DEFINE s == IF t \in told[w] THEN "cancelled" ELSE outcome[w][t]
  <2>1. Legal(scan')
    BY <1>9, ProgressLegal DEF RecordTool
  <2>2. s \in Recorded /\ WriteRecord(w, t, s)
    BY <1>1, <1>9 DEF RecordTool, Recorded, SlotsOK, Outcomes
  <2>3. UNCHANGED <<evidence, reported, asked>> /\ asked \subseteq Cancellable
    BY <1>1, <1>9 DEF RecordTool, TablesOK
  <2> HIDE DEF s
  <2>4. errors' \in 0 .. MaxErrors /\ TablesOK'
    BY <1>1, <2>2, <2>3, WriteTo, SetKeepsTables DEF TablesOK
  <2>5. step' \in [Workers -> [Tools -> Steps]]
    BY <1>1, <1>9, StepTo DEF RecordTool, Steps
  <2>6. SlotsOK'
    BY <1>1, <1>9, <2>5 DEF RecordTool, SlotsOK
  <2>7. QED
    BY <2>1, <2>4, <2>6 DEF IInv
<1>10. CASE WatchToolCancellation(w, t)
  BY <1>10 DEF WatchToolCancellation, IInv, SlotsOK, TablesOK, tables
<1>11. QED
  BY <1>2, <1>3, <1>4, <1>5, <1>6, <1>7, <1>8, <1>9, <1>10 DEF ToolStep

LEMMA UserTyped ==
    ASSUME IInv, NEW t \in Tools,
           \/ RequestScannerRunCancellation(t) \/ FindNoRecord(t)
           \/ InsertCancelledRecord(t)
    PROVE  IInv'
<1>1. UNCHANGED <<scan, slots, errors>>
  BY DEF RequestScannerRunCancellation, FindNoRecord, InsertCancelledRecord
<1>2. asked' \subseteq Cancellable /\ UNCHANGED <<evidence, reported>>
  BY DEF RequestScannerRunCancellation, FindNoRecord, InsertCancelledRecord,
         IInv, TablesOK
<1>3. record' = record \/ CancelRecord(t)
  BY DEF RequestScannerRunCancellation, FindNoRecord, InsertCancelledRecord,
         CancelRecord
<1>4. TablesOK'
  BY <1>2, <1>3, CancelTo, SetKeepsTables DEF IInv, TablesOK
<1>5. QED
  BY <1>1, <1>4 DEF IInv, SlotsOK, slots, Legal

LEMMA Inductive == ASSUME IInv, [Next]_vars PROVE IInv'
<1>1. CASE UNCHANGED vars
  BY <1>1 DEF vars, tables, slots, IInv, Legal, TablesOK, SlotsOK
<1>2. ASSUME NEW w \in Workers, ExecutorStep(w) PROVE IInv'
  BY <1>2, ClaimTyped, BeginTyped, PrepareTyped, EndTyped, StartRunTyped
     DEF ExecutorStep
<1>3. ASSUME NEW w \in Workers, NEW t \in Tools, ToolStep(w, t) PROVE IInv'
  BY <1>3, ToolTyped
<1>4. CASE ReclaimStaleScans
  <2>1. Legal(scan')
    BY <1>4, FinalizeLegal DEF ReclaimStaleScans, IInv
  <2>2. QED
    BY <1>4, <2>1
       DEF ReclaimStaleScans, tables, slots, IInv, TablesOK, SlotsOK
<1>5. CASE RequestScanCancellation
  <2>1. Legal(scan')
    BY <1>5 DEF RequestScanCancellation, IInv, Legal, Row, Queueable
  <2>2. QED
    BY <1>5, <2>1
       DEF RequestScanCancellation, tables, slots, IInv, TablesOK, SlotsOK
<1>6. ASSUME NEW t \in Tools,
             \/ RequestScannerRunCancellation(t) \/ FindNoRecord(t)
             \/ InsertCancelledRecord(t)
      PROVE  IInv'
  BY <1>6, UserTyped
<1>7. QED
  BY <1>1, <1>2, <1>3, <1>4, <1>5, <1>6 DEF Next

LEMMA Initially == ASSUME Init PROVE IInv
<1>1. Legal(scan)
  BY Extremes DEF Init
<1>2. TablesOK
  BY DEF Init, TablesOK, Record, Recorded
<1>3. SlotsOK
  BY Extremes DEF Init, SlotsOK, Phases, Steps, Outcomes, Legal
<1>4. QED
  BY <1>1, <1>2, <1>3, EvidenceAssumption DEF EvidenceAssumption, Init, IInv

LEMMA Invariance == Spec => []IInv
<1>1. Init => IInv
  BY Initially
<1>2. IInv /\ [Next]_vars => IInv'
  BY Inductive
<1>3. QED
  BY <1>1, <1>2, PTL DEF Spec

-----------------------------------------------------------------------------
(* Reliable scans: an executor reads its token before its claim is lost,   *)
(* and only reads and inserts of findings fail.                            *)

Reliable == ~LateToken /\ Fallible \subseteq {"evidence"}

RowOwned ==
    /\ scan.token \in {NoToken, scan.attempt}
    /\ scan.status = "running" => scan.token # NoToken
    /\ scan.status \in {"pending", "completed", "failed"} =>
          scan.token = NoToken

Preparing == {"idle", "claimed", "loading"}
Unqueued  == Preparing \cup {"resetting", "failing"}

\* The row an executor began under: its claim's, running.
BegunRow(tok) == [status |-> "running", token |-> tok, attempt |-> tok,
                  cancel |-> FALSE]

SlotMemory(w) ==
    /\ phase[w] # "idle" => claim[w] \in 1 .. scan.attempt
    /\ phase[w] = "claimed" => scan.token = claim[w]
    /\ phase[w] \notin {"idle", "claimed"} => row[w] = BegunRow(claim[w])
ToolMemory(w, t) ==
    /\ phase[w] \in Preparing => t \notin kept[w] /\ t \notin todo[w]
    /\ phase[w] \in Unqueued => step[w][t] = "off"
    /\ t \in kept[w] => step[w][t] = "off" /\ t \notin todo[w]
    /\ phase[w] = "selecting" /\ t \in todo[w] => step[w][t] = "off"
    /\ phase[w] = "scanning" => t \notin todo[w]
    /\ step[w][t] \in {"off", "waiting", "running"} <=> outcome[w][t] = "none"

OneTokenEach ==
    \A v, w \in Workers :
       v # w /\ phase[v] # "idle" /\ phase[w] # "idle" => claim[v] # claim[w]

Holder(w) == phase[w] # "idle" /\ Holds(claim[w])

Unwritten == {"off", "waiting", "running", "reporting"}
Unended   == {"waiting", "running", "reporting", "persisted"}

\* What the holder's progress says of the tables: kept tools have findings,
\* tools being worked on no earlier ones, and no record as completed.
Progress(w, t) ==
    /\ t \in kept[w] => evidence[t] # {}
    /\ phase[w] = "resetting" /\ t \in todo[w] =>
          record[t].status # "completed"
    /\ step[w][t] \in Unended => record[t].status \notin {"none", "completed"}
    /\ step[w][t] \in Unwritten => claim[w] \notin evidence[t]
    /\ \/ phase[w] \in {"claimed", "loading", "failing"}
       \/ t \in kept[w]
       \/ phase[w] = "resetting" /\ t \in todo[w]
       \/ IF step[w][t] \in Unwritten
             THEN evidence[t] = {} ELSE evidence[t] \subseteq {claim[w]}
    /\ outcome[w][t] = "completed" /\ step[w][t] # "reporting" =>
          claim[w] \in evidence[t]

ToolEvidence(t) ==
    /\ evidence[t] \subseteq 1 .. scan.attempt
    /\ record[t].status = "none" => evidence[t] = {}
    /\ record[t].status = "completed" => \E c \in Tokens : evidence[t] = {c}

EInv ==
    /\ IInv /\ RowOwned /\ OneTokenEach
    /\ \A w \in Workers :
          SlotMemory(w) /\ \A t \in Tools : ToolMemory(w, t)
    /\ \A w \in Workers, t \in Tools : Holder(w) => Progress(w, t)
    /\ \A t \in Tools : ToolEvidence(t)
    /\ CompletedHasEvidence

LEMMA ScanTypes ==
    ASSUME IInv
    PROVE  /\ scan \in Row /\ scan.token \in Nat /\ scan.attempt \in Nat
           /\ scan.cancel \in BOOLEAN /\ NoToken = 0
           /\ \A w \in Workers : claim[w] \in Nat
  BY Extremes DEF IInv, Legal, Row, SlotsOK, NoToken

-----------------------------------------------------------------------------
(* What a step may do to the row. *)

Begins ==
    /\ scan.status = "pending" /\ scan.token = NoToken
    /\ scan'.status = "running" /\ scan'.attempt = scan.attempt + 1
    /\ scan'.token = scan.attempt + 1
Closes ==
    /\ scan.status = "running"
    /\ scan'.status \in {"pending", "failed", "completed"}
    /\ scan'.attempt = scan.attempt /\ scan'.token = NoToken
IsCancelled ==
    /\ scan.status \in {"pending", "running"}
    /\ scan'.status = "cancelled" /\ scan'.cancel
    /\ scan'.attempt = scan.attempt /\ scan'.token = scan.token
RowStep == Begins \/ Closes \/ IsCancelled \/ scan' = scan

LEMMA RowOwnedStep ==
    ASSUME EInv, RowStep
    PROVE  /\ RowOwned' /\ scan'.attempt \in Nat
           /\ scan'.attempt >= scan.attempt
<1>1. RowOwned /\ scan.attempt \in Nat /\ NoToken = 0
  BY ScanTypes DEF EInv
<1>2. CASE Begins
  BY <1>1, <1>2 DEF Begins, RowOwned
<1>3. CASE Closes
  BY <1>1, <1>3 DEF Closes, RowOwned
<1>4. CASE IsCancelled
  BY <1>1, <1>4 DEF IsCancelled, RowOwned
<1>5. CASE scan' = scan
  BY <1>1, <1>5 DEF RowOwned
<1>6. QED
  BY <1>2, <1>3, <1>4, <1>5 DEF RowStep

\* Nobody comes to hold the scan but by a claim.
LEMMA HolderBefore ==
    ASSUME EInv, RowStep, NEW v \in Workers, claim'[v] = claim[v],
           phase[v] # "idle", Holder(v)'
    PROVE  Holder(v)
<1>1. claim[v] \in 1 .. scan.attempt /\ claim[v] # NoToken
  BY ScanTypes DEF EInv, SlotMemory
<1>2. scan'.status = "running" /\ scan'.token = claim[v] /\ ~scan'.cancel
  BY DEF Holder, Holds
<1>3. scan' = scan
  BY <1>1, <1>2, ScanTypes DEF EInv, RowStep, Begins, Closes, IsCancelled
<1>4. QED
  BY <1>2, <1>3 DEF Holder, Holds

\* Two executors are not both holders.
LEMMA HolderAlone ==
    ASSUME EInv, NEW v \in Workers, NEW w \in Workers, v # w, Holder(v),
           phase[w] # "idle"
    PROVE  ~Holds(claim[w])
  BY DEF EInv, OneTokenEach, Holder, Holds

\* A running executor's fence is its claim.
LEMMA FenceIsClaim ==
    ASSUME EInv, NEW w \in Workers, phase[w] \notin {"idle", "claimed"}
    PROVE  /\ Fence(w) = claim[w] /\ claim[w] \in 1 .. scan.attempt
           /\ Owned(w) <=> Holds(claim[w])
           /\ Holds(claim[w]) => scan = row[w] /\ scan.attempt = claim[w]
<1>1. row[w] = BegunRow(claim[w]) /\ claim[w] \in 1 .. scan.attempt
  BY DEF EInv, SlotMemory
<1>2. Fence(w) = claim[w]
  BY <1>1 DEF Fence, BegunRow
<1>3. claim[w] # NoToken
  BY <1>1, ScanTypes DEF EInv
<1>4. Owned(w) <=> Holds(claim[w])
  BY <1>2, <1>3 DEF Owned
<1>5. ASSUME Holds(claim[w])
      PROVE  scan = row[w] /\ scan.attempt = claim[w]
  <2>1. /\ scan.status = "running" /\ scan.token = claim[w] /\ ~scan.cancel
    BY <1>5 DEF Holds
  <2>2. scan.attempt = claim[w]
    BY <1>3, <2>1 DEF EInv, RowOwned
  <2>3. scan \in Row /\ scan.cancel = FALSE
    BY <2>1, ScanTypes DEF EInv
  <2>4. QED
    BY <1>1, <2>1, <2>2, <2>3 DEF Row, BegunRow
<1>6. QED
  BY <1>1, <1>2, <1>4, <1>5

\* Whole-row writes of a running executor change nothing.
LEMMA IdleWrites ==
    ASSUME EInv, NEW w \in Workers, phase[w] \notin {"idle", "claimed"},
           UpdateScan(row[w]) \/ SaveProgress(w)
    PROVE  scan' = scan
<1>1. /\ Fence(w) = claim[w] /\ claim[w] # NoToken
      /\ Holds(claim[w]) => scan = row[w]
  BY FenceIsClaim, ScanTypes DEF EInv
<1>2. CASE UpdateScan(row[w])
  BY <1>1, <1>2 DEF UpdateScan, Fence
<1>3. CASE SaveProgress(w)
  <2>1. scan \in Row
    BY ScanTypes DEF EInv
  <2>2. Holds(claim[w]) => [scan EXCEPT !.token = claim[w]] = scan
    BY <2>1 DEF Holds, Row
  <2>3. [scan EXCEPT !.token = claim[w]].token = claim[w]
    BY <2>1 DEF Row
  <2>4. QED
    BY <1>1, <1>3, <2>2, <2>3 DEF SaveProgress, UpdateScan
<1>4. QED
  BY <1>2, <1>3

LEMMA ReliableWrite ==
    ASSUME Reliable, EInv, NEW w \in Workers,
           phase[w] \notin {"idle", "claimed"}, NEW t \in Tools,
           NEW s \in Recorded, WriteRecord(w, t, s)
    PROVE  IF Holds(claim[w]) THEN RecordSet(t, Upserted(t, s))
                              ELSE record' = record
<1>1. ~Fails("record")
  BY DEF Reliable, Fails
<1>2. QED
  BY <1>1, FenceIsClaim, UpsertTo DEF WriteRecord, EInv, IInv

-----------------------------------------------------------------------------
(* Executors a step does not concern. *)

SlotKept(v) ==
    /\ phase'[v] = phase[v] /\ claim'[v] = claim[v] /\ row'[v] = row[v]
    /\ kept'[v] = kept[v] /\ todo'[v] = todo[v]
    /\ step'[v] = step[v] /\ outcome'[v] = outcome[v]

\* A record keeps its status or is cancelled.
RecordsStay ==
    \A t \in Tools : record'[t].status \in {record[t].status, "cancelled"}

LEMMA MemoryKept ==
    ASSUME EInv, NEW v \in Workers, SlotKept(v), RowStep,
           phase[v] = "claimed" => scan'.token = scan.token
    PROVE  SlotMemory(v)' /\ \A t \in Tools : ToolMemory(v, t)'
<1>1. scan'.attempt \in Nat /\ scan'.attempt >= scan.attempt
  BY RowOwnedStep
<1>2. SlotMemory(v)'
  BY <1>1, ScanTypes DEF EInv, SlotMemory, SlotKept
<1>3. QED
  BY <1>2 DEF EInv, ToolMemory, SlotKept

LEMMA ProgressKept ==
    ASSUME EInv, NEW v \in Workers, SlotKept(v), RowStep,
           Holder(v) => evidence' = evidence /\ RecordsStay
    PROVE  \A t \in Tools : Holder(v)' => Progress(v, t)'
<1> SUFFICES ASSUME NEW t \in Tools, Holder(v)' PROVE Progress(v, t)'
  OBVIOUS
<1>1. phase[v] # "idle" /\ claim'[v] = claim[v]
  BY DEF Holder, SlotKept
<1>2. Holder(v)
  BY <1>1, HolderBefore
<1>3. Progress(v, t) /\ evidence' = evidence
  BY <1>2 DEF EInv
<1>4. record'[t].status \in {record[t].status, "cancelled"}
  BY <1>2 DEF RecordsStay
<1>5. QED
  BY <1>3, <1>4 DEF Progress, SlotKept

LEMMA EvidenceKept ==
    ASSUME EInv, RowStep, NEW t \in Tools, evidence'[t] = evidence[t],
           record'[t].status \in {record[t].status, "cancelled"}
    PROVE  ToolEvidence(t)'
<1>1. scan'.attempt \in Nat /\ scan'.attempt >= scan.attempt
  BY RowOwnedStep
<1>2. ToolEvidence(t) /\ scan.attempt \in Nat
  BY ScanTypes DEF EInv
<1>3. 1 .. scan.attempt \subseteq 1 .. scan'.attempt
  BY <1>1, <1>2
<1>4. QED
  BY <1>2, <1>3 DEF ToolEvidence

\* A step of one executor that leaves the row alone.  Only a holder writes.
LEMMA OwnStep ==
    ASSUME EInv, IInv', NEW w \in Workers, phase[w] # "idle",
           scan' = scan, claim'[w] = claim[w], reported' = reported,
           \A v \in Workers \ {w} : SlotKept(v),
           ~Holds(claim[w]) => evidence' = evidence /\ record' = record,
           SlotMemory(w)', \A t \in Tools : ToolMemory(w, t)',
           Holds(claim[w]) => \A t \in Tools : Progress(w, t)',
           \A t \in Tools : ToolEvidence(t)'
    PROVE  EInv'
<1>1. RowStep
  BY DEF RowStep
<1>2. RowOwned'
  BY DEF EInv, RowOwned
<1>3. OneTokenEach'
  BY DEF EInv, OneTokenEach, SlotKept
<1>4. ASSUME NEW v \in Workers, v # w
      PROVE  /\ SlotMemory(v)' /\ \A t \in Tools : ToolMemory(v, t)'
             /\ \A t \in Tools : Holder(v)' => Progress(v, t)'
  <2>1. SlotKept(v)
    BY <1>4
  <2>2. Holder(v) => evidence' = evidence /\ RecordsStay
    BY <1>4, HolderAlone DEF RecordsStay
  <2>3. QED
    BY <1>1, <2>1, <2>2, MemoryKept, ProgressKept
<1>5. Holder(w)' => Holds(claim[w])
  BY DEF Holder, Holds
<1>6. CompletedHasEvidence'
  <2>1. scan.status = "completed" => ~Holds(claim[w])
    BY DEF Holds
  <2>2. QED
    BY <2>1 DEF EInv, CompletedHasEvidence
<1>7. \A v \in Workers, t \in Tools : Holder(v)' => Progress(v, t)'
  BY <1>4, <1>5
<1>8. \A v \in Workers : SlotMemory(v)' /\ \A t \in Tools : ToolMemory(v, t)'
  BY <1>4
<1>9. QED
  BY <1>2, <1>3, <1>6, <1>7, <1>8 DEF EInv
-----------------------------------------------------------------------------
(* The executor's own steps. *)

LEMMA BeginKeeps ==
    ASSUME EInv, IInv', NEW w \in Workers, Begin(w), ~Return(w) PROVE EInv'
<1>1. /\ phase[w] = "claimed" /\ live[w] /\ ~scan.cancel
      /\ scan' = [scan EXCEPT !.status = "running"]
      /\ row' = [row EXCEPT ![w] = scan'] /\ Goto(w, "loading")
      /\ UNCHANGED <<claim, kept, todo, step, outcome, record, evidence,
                     reported>>
      /\ scan.status = IF scan.token = NoToken THEN "pending" ELSE "running"
  BY DEF Begin, tables
<1>2. /\ claim[w] \in 1 .. scan.attempt /\ scan.token = claim[w]
      /\ claim[w] # NoToken
  BY <1>1, ScanTypes DEF EInv, SlotMemory
<1>3. scan.attempt = claim[w] /\ scan.status = "running"
  BY <1>1, <1>2 DEF EInv, RowOwned
<1>4. scan' = scan /\ scan = BegunRow(claim[w])
  <2>1. scan \in Row /\ scan.cancel = FALSE
    BY <1>1, ScanTypes DEF EInv
  <2>2. QED
    BY <1>1, <1>2, <1>3, <2>1 DEF Row, BegunRow
<1>5. /\ phase'[w] = "loading" /\ row'[w] = BegunRow(claim[w])
      /\ \A v \in Workers \ {w} : SlotKept(v)
  BY <1>1, <1>4 DEF EInv, IInv, SlotsOK, Goto, SlotKept
<1>6. SlotMemory(w)'
  BY <1>1, <1>2, <1>4, <1>5 DEF SlotMemory
<1>7. \A t \in Tools : ToolMemory(w, t)'
  BY <1>1, <1>5 DEF EInv, ToolMemory, Preparing, Unqueued
<1>8. Holds(claim[w]) => \A t \in Tools : Progress(w, t)'
  BY <1>1, <1>5 DEF EInv, Holder, Progress
<1>9. \A t \in Tools : ToolEvidence(t)'
  BY <1>1, <1>4 DEF EInv, ToolEvidence
<1>10. /\ evidence' = evidence /\ record' = record /\ reported' = reported
       /\ claim'[w] = claim[w] /\ phase[w] # "idle"
  BY <1>1
<1>11. QED
  BY <1>4, <1>5, <1>6, <1>7, <1>8, <1>9, <1>10, OwnStep

LEMMA LoadKeeps ==
    ASSUME EInv, IInv', NEW w \in Workers, LoadEvidence(w) PROVE EInv'
<1>1. /\ phase[w] = "loading" /\ Goto(w, "resetting") /\ scan' = scan
      /\ UNCHANGED <<row, claim, step, outcome, record, evidence, reported>>
  BY DEF LoadEvidence, tables
<1>2. /\ row[w] = BegunRow(claim[w]) /\ row[w].attempt = claim[w]
      /\ claim[w] \in 1 .. scan.attempt /\ claim[w] \in Nat
  BY <1>1, ScanTypes DEF EInv, SlotMemory, BegunRow
<1> DEFINE K == {t \in Tools : Keeps(t)}
           R == {t \in Tools : Resets(t)}
<1>3. IF claim[w] > 1
      THEN kept' = [kept EXCEPT ![w] = K] /\ todo' = [todo EXCEPT ![w] = R]
      ELSE UNCHANGED <<kept, todo>>
  BY <1>2 DEF LoadEvidence
<1>4. /\ \A t \in Tools : t \in K <=> record[t].status = "completed"
      /\ \A t \in Tools : t \in R <=>
            record[t].status # "none" /\ record[t].status # "completed"
  BY DEF Keeps, Resets
<1> HIDE DEF K, R
<1>5. \A t \in Tools : t \notin kept[w] /\ t \notin todo[w] /\ step[w][t] = "off"
  BY <1>1 DEF EInv, ToolMemory, Preparing, Unqueued
<1>6. \A t \in Tools :
         IF claim[w] > 1
         THEN /\ t \in kept'[w] <=> record[t].status = "completed"
              /\ t \in todo'[w] <=>
                    record[t].status # "none" /\ record[t].status # "completed"
         ELSE t \notin kept'[w] /\ t \notin todo'[w]
  BY <1>3, <1>4, <1>5 DEF EInv, IInv, SlotsOK
<1>7. phase'[w] = "resetting" /\ \A v \in Workers \ {w} : SlotKept(v)
  BY <1>1, <1>3 DEF EInv, IInv, SlotsOK, Goto, SlotKept
<1>8. SlotMemory(w)'
  BY <1>1, <1>2, <1>7 DEF SlotMemory
<1>9. \A t \in Tools : ToolMemory(w, t)'
  BY <1>1, <1>5, <1>6, <1>7 DEF EInv, ToolMemory, Preparing, Unqueued
<1>10. ASSUME Holds(claim[w]), NEW t \in Tools PROVE Progress(w, t)'
  <2>1. Progress(w, t) /\ ToolEvidence(t)
    BY <1>1, <1>10 DEF EInv, Holder
  <2>2. claim[w] \notin evidence[t] /\ scan.attempt = claim[w]
    BY <1>1, <1>5, <1>10, <2>1, FenceIsClaim DEF Progress, Unwritten
  <2>3. outcome[w][t] = "none"
    BY <1>5 DEF EInv, ToolMemory
  <2>4. ~(claim[w] > 1) => evidence[t] = {}
    BY <1>2, <2>1, <2>2 DEF ToolEvidence
  <2>5. /\ record[t].status = "none" => evidence[t] = {}
        /\ record[t].status = "completed" => evidence[t] # {}
    BY <2>1 DEF ToolEvidence
  <2>6. /\ t \in kept'[w] => evidence[t] # {}
        /\ t \in todo'[w] => record[t].status # "completed"
        /\ t \notin kept'[w] /\ t \notin todo'[w] => evidence[t] = {}
    BY <1>6, <2>4, <2>5
  <2>7. QED
    BY <1>1, <1>5, <1>7, <2>2, <2>3, <2>6 DEF Progress, Unended, Unwritten
<1>11. \A t \in Tools : ToolEvidence(t)'
  BY <1>1 DEF EInv, ToolEvidence
<1>12. /\ evidence' = evidence /\ record' = record /\ reported' = reported
       /\ claim'[w] = claim[w] /\ phase[w] # "idle" /\ scan' = scan
  BY <1>1
<1>13. QED
  BY <1>7, <1>8, <1>9, <1>10, <1>11, <1>12, OwnStep

LEMMA PrepareFailsKeeps ==
    ASSUME EInv, IInv', NEW w \in Workers, PrepareFails(w) PROVE EInv'
<1>1. /\ phase[w] \in {"loading", "resetting"} /\ Goto(w, "failing")
      /\ scan' = scan
      /\ UNCHANGED <<row, claim, kept, todo, step, outcome, record, evidence,
                     reported>>
  BY DEF PrepareFails, tables
<1>2. phase'[w] = "failing" /\ \A v \in Workers \ {w} : SlotKept(v)
  BY <1>1 DEF EInv, IInv, SlotsOK, Goto, SlotKept
<1>3. SlotMemory(w)'
  BY <1>1, <1>2 DEF EInv, SlotMemory
<1>4. \A t \in Tools : ToolMemory(w, t)'
  BY <1>1, <1>2 DEF EInv, ToolMemory, Preparing, Unqueued
<1>5. Holds(claim[w]) => \A t \in Tools : Progress(w, t)'
  BY <1>1, <1>2 DEF EInv, Holder, Progress
<1>6. \A t \in Tools : ToolEvidence(t)'
  BY <1>1 DEF EInv, ToolEvidence
<1>7. /\ evidence' = evidence /\ record' = record /\ reported' = reported
      /\ claim'[w] = claim[w] /\ phase[w] # "idle" /\ scan' = scan
  BY <1>1
<1>8. QED
  BY <1>2, <1>3, <1>4, <1>5, <1>6, <1>7, OwnStep

LEMMA StartRunKeeps ==
    ASSUME EInv, IInv', NEW w \in Workers, StartRun(w) PROVE EInv'
<1>1. /\ phase[w] = "resetting" /\ todo[w] = {} /\ UpdateScan(row[w])
      /\ todo' = [todo EXCEPT ![w] = Tools \ kept[w]]
      /\ Goto(w, IF kept[w] = Tools THEN "scanning" ELSE "selecting")
      /\ UNCHANGED <<row, claim, kept, step, outcome, record, evidence,
                     reported>>
  BY DEF StartRun, tables
<1>2. scan' = scan
  BY <1>1, IdleWrites
<1>3. /\ todo'[w] = Tools \ kept[w]
      /\ phase'[w] = IF kept[w] = Tools THEN "scanning" ELSE "selecting"
      /\ \A v \in Workers \ {w} : SlotKept(v)
  BY <1>1 DEF EInv, IInv, SlotsOK, Goto, SlotKept
<1>4. SlotMemory(w)'
  BY <1>1, <1>2, <1>3 DEF EInv, SlotMemory
<1>5. \A t \in Tools : step[w][t] = "off"
  BY <1>1 DEF EInv, ToolMemory, Unqueued
<1>6. \A t \in Tools : ToolMemory(w, t)'
  BY <1>1, <1>3, <1>5 DEF EInv, ToolMemory, Preparing, Unqueued
<1>7. Holds(claim[w]) => \A t \in Tools : Progress(w, t)'
  BY <1>1, <1>3, <1>5 DEF EInv, Holder, Progress, Unwritten, Unended
<1>8. \A t \in Tools : ToolEvidence(t)'
  BY <1>1, <1>2 DEF EInv, ToolEvidence
<1>9. /\ evidence' = evidence /\ record' = record /\ reported' = reported
      /\ claim'[w] = claim[w] /\ phase[w] # "idle"
  BY <1>1
<1>10. QED
  BY <1>2, <1>3, <1>4, <1>6, <1>7, <1>8, <1>9, OwnStep

-----------------------------------------------------------------------------
(* A callback of one tool leaves the others alone. *)

ToolKept(w, u) ==
    /\ u \in todo'[w] <=> u \in todo[w]
    /\ step'[w][u] = step[w][u] /\ outcome'[w][u] = outcome[w][u]
    /\ record'[u] = record[u] /\ evidence'[u] = evidence[u]
Proceeds(w) ==
    \/ phase'[w] = phase[w]
    \/ phase[w] = "selecting" /\ phase'[w] = "scanning" /\ todo'[w] = {}

LEMMA OneToolStep ==
    ASSUME EInv, IInv', NEW w \in Workers, NEW t \in Tools,
           phase[w] \notin {"idle", "claimed"}, Proceeds(w),
           scan' = scan, UNCHANGED <<claim, row, kept, reported>>,
           \A v \in Workers \ {w} : SlotKept(v),
           \A u \in Tools \ {t} : ToolKept(w, u),
           ~Holds(claim[w]) => evidence' = evidence /\ record' = record,
           ToolMemory(w, t)', Holds(claim[w]) => Progress(w, t)',
           ToolEvidence(t)'
    PROVE  EInv'
<1>1. SlotMemory(w)'
  BY DEF EInv, SlotMemory, Proceeds
<1>2. ASSUME NEW u \in Tools, u # t
      PROVE  /\ ToolMemory(w, u)' /\ ToolEvidence(u)'
             /\ Holds(claim[w]) => Progress(w, u)'
  <2>1. ToolKept(w, u) /\ ToolMemory(w, u) /\ ToolEvidence(u)
    BY <1>2 DEF EInv
  <2>2. ToolMemory(w, u)'
    BY <2>1 DEF ToolKept, ToolMemory, Proceeds, Preparing, Unqueued
  <2>3. ToolEvidence(u)'
    BY <2>1 DEF ToolKept, ToolEvidence
  <2>4. ASSUME Holds(claim[w]) PROVE Progress(w, u)'
    <3>1. Progress(w, u)
      BY <2>4 DEF EInv, Holder
    <3>2. QED
      BY <2>1, <3>1 DEF ToolKept, Progress, Proceeds
  <2>5. QED
    BY <2>2, <2>3, <2>4
<1>3. /\ \A u \in Tools : ToolMemory(w, u)' /\ ToolEvidence(u)'
      /\ Holds(claim[w]) => \A u \in Tools : Progress(w, u)'
  BY <1>2
<1>4. phase[w] # "idle" /\ claim'[w] = claim[w] /\ reported' = reported
  OBVIOUS
<1>5. QED
  BY <1>1, <1>3, <1>4, OwnStep

\* A callback that is due is an executor's past its preparation.
LEMMA CallbackDue ==
    ASSUME EInv, NEW w \in Workers, NEW t \in Tools, step[w][t] # "off"
    PROVE  /\ phase[w] \in {"selecting", "scanning"} /\ t \notin kept[w]
           /\ phase[w] \notin {"idle", "claimed"}
           /\ t \notin todo[w]
  BY DEF EInv, IInv, SlotsOK, Phases, ToolMemory, Unqueued, Preparing
LEMMA DeleteKeeps ==
    ASSUME EInv, IInv', NEW w \in Workers, NEW t \in Tools,
           DeleteFindingsByScanTool(w, t)
    PROVE  EInv'
<1>1. /\ phase[w] = "resetting" /\ t \in todo[w] /\ Holds(Fence(w))
      /\ evidence' = [evidence EXCEPT ![t] = {}]
      /\ todo' = [todo EXCEPT ![w] = @ \ {t}]
      /\ UNCHANGED <<scan, record, reported, phase, claim, row, kept, step,
                     outcome>>
  BY DEF DeleteFindingsByScanTool
<1>2. Holds(claim[w])
  BY <1>1, FenceIsClaim
<1>3. /\ step[w][t] = "off" /\ outcome[w][t] = "none" /\ t \notin kept[w]
      /\ record[t].status # "completed"
  BY <1>1, <1>2 DEF EInv, ToolMemory, Unqueued, Holder, Progress
<1>4. /\ evidence'[t] = {} /\ todo'[w] = todo[w] \ {t}
      /\ \A v \in Workers \ {w} : SlotKept(v)
      /\ \A u \in Tools \ {t} : ToolKept(w, u)
  BY <1>1 DEF EInv, IInv, SlotsOK, TablesOK, SlotKept, ToolKept
<1>5. ToolMemory(w, t)'
  BY <1>1, <1>3, <1>4 DEF ToolMemory, Preparing, Unqueued
<1>6. Progress(w, t)'
  BY <1>1, <1>3, <1>4 DEF Progress, Unended, Unwritten
<1>7. ToolEvidence(t)'
  BY <1>1, <1>3, <1>4 DEF ToolEvidence
<1>8. Proceeds(w) /\ phase[w] \notin {"idle", "claimed"}
  BY <1>1 DEF Proceeds
<1>9. UNCHANGED <<claim, row, kept, reported>> /\ scan' = scan
  BY <1>1
<1>10. QED
  BY <1>2, <1>4, <1>5, <1>6, <1>7, <1>8, <1>9, OneToolStep

\* What a holder's record write leaves, in the tables and for the others.
LEMMA WriteKeeps ==
    ASSUME Reliable, EInv, NEW w \in Workers,
           phase[w] \notin {"idle", "claimed"}, NEW t \in Tools,
           NEW s \in Recorded, WriteRecord(w, t, s)
    PROVE  /\ ~Holds(claim[w]) => record' = record
           /\ \A u \in Tools \ {t} : record'[u] = record[u]
           /\ Holds(claim[w]) => record'[t].status \in {s, "cancelled"}
  BY ReliableWrite DEF RecordSet, Upserted

LEMMA QueueKeeps ==
    ASSUME Reliable, EInv, IInv', NEW w \in Workers, NEW t \in Tools,
           QueueTool(w, t)
    PROVE  EInv'
<1>1. /\ phase[w] = "selecting" /\ t \in todo[w] /\ SaveProgress(w)
      /\ WriteRecord(w, t, "queued") /\ Step(w, t, "waiting")
      /\ todo' = [todo EXCEPT ![w] = @ \ {t}]
      /\ Goto(w, IF todo[w] = {t} THEN "scanning" ELSE "selecting")
      /\ UNCHANGED <<evidence, reported, claim, row, kept, outcome>>
  BY DEF QueueTool
<1>2. scan' = scan
  BY <1>1, IdleWrites
<1>3. /\ step[w][t] = "off" /\ outcome[w][t] = "none" /\ t \notin kept[w]
      /\ outcome'[w][t] = "none"
  BY <1>1 DEF EInv, ToolMemory
<1>4. /\ ~Holds(claim[w]) => record' = record
      /\ \A u \in Tools \ {t} : record'[u] = record[u]
      /\ Holds(claim[w]) => record'[t].status \in {"queued", "cancelled"}
  BY <1>1, WriteKeeps DEF Recorded
<1>5. /\ step'[w][t] = "waiting"
      /\ \A u \in Tools \ {t} : step'[w][u] = step[w][u]
      /\ \A v \in Workers \ {w} : step'[v] = step[v]
  BY <1>1, StepTo DEF EInv, IInv, Steps
<1>6. /\ todo'[w] = todo[w] \ {t}
      /\ phase'[w] = IF todo[w] = {t} THEN "scanning" ELSE "selecting"
      /\ \A v \in Workers \ {w} : SlotKept(v)
      /\ \A u \in Tools \ {t} : ToolKept(w, u)
  BY <1>1, <1>4, <1>5
     DEF EInv, IInv, SlotsOK, TablesOK, SlotKept, ToolKept, Goto
<1>7. Proceeds(w) /\ phase[w] \notin {"idle", "claimed"}
  BY <1>1, <1>6 DEF Proceeds
<1>8. ToolMemory(w, t)'
  BY <1>1, <1>3, <1>5, <1>6 DEF ToolMemory, Preparing, Unqueued
<1>9. ASSUME Holds(claim[w]) PROVE Progress(w, t)'
  <2>1. Progress(w, t)
    BY <1>1, <1>9 DEF EInv, Holder
  <2>2. claim[w] \notin evidence[t] /\ evidence[t] = {}
    BY <1>1, <1>3, <2>1 DEF Progress, Unwritten
  <2>3. evidence'[t] = {} /\ t \notin kept'[w] /\ phase'[w] # "resetting"
    BY <1>1, <1>3, <1>6, <2>2
  <2>4. record'[t].status \notin {"none", "completed"}
    BY <1>4, <1>9
  <2>5. QED
    BY <1>3, <1>5, <2>3, <2>4 DEF Progress, Unended, Unwritten
<1>10. ToolEvidence(t)'
  <2>1. CASE Holds(claim[w])
    BY <1>1, <1>2, <1>4, <2>1 DEF EInv, ToolEvidence
  <2>2. CASE ~Holds(claim[w])
    BY <1>1, <1>2, <1>4, <2>2 DEF EInv, ToolEvidence
  <2>3. QED
    BY <2>1, <2>2
<1>11. UNCHANGED <<claim, row, kept, reported>> /\ evidence' = evidence
  BY <1>1
<1>12. QED
  BY <1>2, <1>4, <1>6, <1>7, <1>8, <1>9, <1>10, <1>11, OneToolStep

LEMMA StartKeeps ==
    ASSUME Reliable, EInv, IInv', NEW w \in Workers, NEW t \in Tools,
           OnToolStart(w, t)
    PROVE  EInv'
<1>1. /\ phase[w] = "scanning" /\ step[w][t] = "waiting"
      /\ WriteRecord(w, t, "running") /\ Step(w, t, "running")
      /\ UNCHANGED <<scan, evidence, reported, phase, claim, row, kept, todo,
                     outcome>>
  BY DEF OnToolStart
<1>2. t \notin kept[w] /\ t \notin todo[w] /\ outcome[w][t] = "none"
  BY <1>1, CallbackDue DEF EInv, ToolMemory
<1>3. /\ ~Holds(claim[w]) => record' = record
      /\ \A u \in Tools \ {t} : record'[u] = record[u]
      /\ Holds(claim[w]) => record'[t].status \in {"running", "cancelled"}
  BY <1>1, WriteKeeps DEF Recorded
<1>4. /\ step'[w][t] = "running"
      /\ \A u \in Tools \ {t} : step'[w][u] = step[w][u]
      /\ \A v \in Workers \ {w} : step'[v] = step[v]
  BY <1>1, StepTo DEF EInv, IInv, Steps
<1>5. /\ \A v \in Workers \ {w} : SlotKept(v)
      /\ \A u \in Tools \ {t} : ToolKept(w, u)
  BY <1>1, <1>3, <1>4 DEF SlotKept, ToolKept
<1>6. Proceeds(w) /\ phase[w] \notin {"idle", "claimed"}
  BY <1>1 DEF Proceeds
<1>7. ToolMemory(w, t)'
  BY <1>1, <1>2, <1>4 DEF ToolMemory, Preparing, Unqueued
<1>8. ASSUME Holds(claim[w]) PROVE Progress(w, t)'
  <2>1. Progress(w, t)
    BY <1>1, <1>8 DEF EInv, Holder
  <2>2. evidence[t] = {}
    BY <1>1, <1>2, <2>1 DEF Progress, Unwritten
  <2>3. record'[t].status \notin {"none", "completed"}
    BY <1>3, <1>8
  <2>4. evidence'[t] = {} /\ t \notin kept'[w] /\ outcome'[w][t] = "none"
    BY <1>1, <1>2, <2>2
  <2>5. QED
    BY <1>1, <1>4, <2>3, <2>4 DEF Progress, Unended, Unwritten
<1>9. ToolEvidence(t)'
  <2>1. CASE Holds(claim[w])
    BY <1>1, <1>3, <2>1 DEF EInv, ToolEvidence
  <2>2. CASE ~Holds(claim[w])
    BY <1>1, <1>3, <2>2 DEF EInv, ToolEvidence
  <2>3. QED
    BY <2>1, <2>2
<1>10. /\ UNCHANGED <<claim, row, kept, reported>> /\ evidence' = evidence
       /\ scan' = scan
  BY <1>1
<1>11. QED
  BY <1>3, <1>5, <1>6, <1>7, <1>8, <1>9, <1>10, OneToolStep

\* A tool run ends: nothing is written, the outcome is known.
LEMMA EndOfRunKeeps ==
    ASSUME EInv, IInv', NEW w \in Workers, NEW t \in Tools,
           step[w][t] \in {"waiting", "running", "reporting"},
           NEW r \in {"completed", "failed"}, NEW s \in Steps, Step(w, t, s),
           outcome' = [outcome EXCEPT ![w][t] = r],
           s \in {"reporting", "persisted", "done"},
           s = "done" => ~Holds(claim[w]),
           s = "persisted" => r = "failed",
           UNCHANGED <<scan, tables, phase, claim, row, kept, todo>>
    PROVE  EInv'
<1>1. UNCHANGED <<evidence, record, reported>>
  BY DEF tables
<1>2. /\ t \notin kept[w] /\ t \notin todo[w]
      /\ phase[w] \in {"selecting", "scanning"}
  BY CallbackDue
<1>3. /\ step'[w][t] = s
      /\ \A u \in Tools \ {t} : step'[w][u] = step[w][u]
      /\ \A v \in Workers \ {w} : step'[v] = step[v]
  BY StepTo DEF EInv, IInv
<1>4. /\ outcome'[w][t] = r
      /\ \A u \in Tools \ {t} : outcome'[w][u] = outcome[w][u]
      /\ \A v \in Workers \ {w} : outcome'[v] = outcome[v]
  BY OutcomeTo DEF EInv, IInv, Outcomes
<1>5. /\ \A v \in Workers \ {w} : SlotKept(v)
      /\ \A u \in Tools \ {t} : ToolKept(w, u)
  BY <1>1, <1>3, <1>4 DEF SlotKept, ToolKept
<1>6. Proceeds(w) /\ phase[w] \notin {"idle", "claimed"}
  BY <1>2 DEF Proceeds
<1>7. ToolMemory(w, t)'
  BY <1>2, <1>3, <1>4 DEF ToolMemory, Preparing, Unqueued
<1>8. ASSUME Holds(claim[w]) PROVE Progress(w, t)'
  <2>1. Progress(w, t)
    BY <1>2, <1>8 DEF EInv, Holder
  <2>2. evidence[t] = {} /\ record[t].status \notin {"none", "completed"}
    BY <1>2, <2>1 DEF Progress, Unwritten, Unended
  <2>3. s # "done"
    BY <1>8
  <2>4. QED
    BY <1>1, <1>2, <1>3, <1>4, <2>2, <2>3 DEF Progress, Unended, Unwritten
<1>9. ToolEvidence(t)'
  BY <1>1 DEF EInv, ToolEvidence
<1>10. UNCHANGED <<claim, row, kept, reported>> /\ scan' = scan
  BY <1>1
<1>11. QED
  BY <1>1, <1>5, <1>6, <1>7, <1>8, <1>9, <1>10, OneToolStep

LEMMA ResultKeeps ==
    ASSUME Reliable, EInv, IInv', NEW w \in Workers, NEW t \in Tools,
           \/ SkipTool(w, t) \/ CreateFindingsFails(w, t)
           \/ \E result \in {"completed", "failed"} : OnToolDone(w, t, result)
    PROVE  EInv'
<1>1. CASE SkipTool(w, t)
  <2> DEFINE s == IF Owned(w) THEN "persisted" ELSE "done"
  <2>1. step[w][t] = "waiting"
    BY <1>1 DEF SkipTool
  <2>2. /\ s \in Steps /\ s \in {"reporting", "persisted", "done"}
        /\ s = "done" => ~Holds(claim[w])
    BY <2>1, FenceIsClaim, CallbackDue DEF Steps
  <2>3. /\ Step(w, t, s) /\ outcome' = [outcome EXCEPT ![w][t] = "failed"]
        /\ UNCHANGED <<scan, tables, phase, claim, row, kept, todo>>
    BY <1>1 DEF SkipTool
  <2> HIDE DEF s
  <2>4. QED
    BY <2>1, <2>2, <2>3, EndOfRunKeeps
<1>2. CASE CreateFindingsFails(w, t)
  <2>1. /\ step[w][t] = "reporting" /\ Step(w, t, "persisted")
        /\ outcome' = [outcome EXCEPT ![w][t] = "failed"]
        /\ UNCHANGED <<scan, tables, phase, claim, row, kept, todo>>
    BY <1>2 DEF CreateFindingsFails
  <2>2. "persisted" \in Steps
    BY DEF Steps
  <2>3. QED
    BY <2>1, <2>2, EndOfRunKeeps
<1>3. ASSUME NEW result \in {"completed", "failed"}, OnToolDone(w, t, result)
      PROVE  EInv'
  <2> DEFINE s == IF Owned(w) THEN "reporting" ELSE "done"
  <2>1. /\ step[w][t] = "running"
        /\ outcome' = [outcome EXCEPT ![w][t] = result]
        /\ UNCHANGED <<scan, tables, phase, claim, row, kept, todo>>
    BY <1>3 DEF OnToolDone
  <2>2. /\ s \in Steps /\ s \in {"reporting", "persisted", "done"}
        /\ s = "done" => ~Holds(claim[w])
    BY <2>1, FenceIsClaim, CallbackDue DEF Steps
  <2>3. Step(w, t, s)
    <3>1. ~Fails("owned")
      BY DEF Reliable, Fails
    <3>2. QED
      BY <1>3, <3>1 DEF OnToolDone
  <2>4. s # "persisted"
    OBVIOUS
  <2> HIDE DEF s
  <2>5. QED
    BY <2>1, <2>2, <2>3, <2>4, EndOfRunKeeps
<1>4. QED
  BY <1>1, <1>2, <1>3

LEMMA CreateKeeps ==
    ASSUME EInv, IInv', NEW w \in Workers, NEW t \in Tools,
           CreateFindingsForScanLease(w, t)
    PROVE  EInv'
<1>1. /\ step[w][t] = "reporting"
      /\ UNCHANGED <<scan, record, reported, phase, claim, row, kept, todo,
                     outcome>>
  BY DEF CreateFindingsForScanLease
<1>2. /\ t \notin kept[w] /\ t \notin todo[w]
      /\ phase[w] \in {"selecting", "scanning"}
      /\ phase[w] \notin {"idle", "claimed"}
  BY <1>1, CallbackDue
<1>3. /\ Owned(w) <=> Holds(claim[w])
      /\ claim[w] \in 1 .. scan.attempt
  BY <1>2, FenceIsClaim
<1> DEFINE e == evidence[t] \cup {claim[w]}
           s == IF Owned(w) THEN "persisted" ELSE "done"
<1>4. Step(w, t, s) /\ s \in Steps
  BY DEF CreateFindingsForScanLease, Steps
<1>5. evidence' = IF Owned(w) THEN [evidence EXCEPT ![t] = e] ELSE evidence
  BY DEF CreateFindingsForScanLease
<1> HIDE DEF e
<1>6. /\ \A u \in Tools \ {t} : evidence'[u] = evidence[u]
      /\ Holds(claim[w]) => evidence'[t] = e
      /\ ~Holds(claim[w]) => evidence' = evidence
  BY <1>3, <1>5 DEF EInv, IInv, TablesOK
<1>7. s = IF Holds(claim[w]) THEN "persisted" ELSE "done"
  BY <1>3
<1> HIDE DEF s
<1>8. /\ step'[w][t] = s
      /\ \A u \in Tools \ {t} : step'[w][u] = step[w][u]
      /\ \A v \in Workers \ {w} : step'[v] = step[v]
  BY <1>4, StepTo DEF EInv, IInv
<1>9. /\ \A v \in Workers \ {w} : SlotKept(v)
      /\ \A u \in Tools \ {t} : ToolKept(w, u)
  BY <1>1, <1>6, <1>8 DEF SlotKept, ToolKept
<1>10. outcome[w][t] # "none"
  BY <1>1 DEF EInv, ToolMemory
<1>11. ToolMemory(w, t)'
  BY <1>1, <1>2, <1>7, <1>8, <1>10 DEF ToolMemory, Preparing, Unqueued
<1>12. ASSUME Holds(claim[w])
       PROVE  Progress(w, t)' /\ ToolEvidence(t)'
  <2>1. Progress(w, t)
    BY <1>2, <1>12 DEF EInv, Holder
  <2>2. evidence[t] = {} /\ record[t].status \notin {"none", "completed"}
    BY <1>1, <1>2, <2>1 DEF Progress, Unwritten, Unended
  <2>3. evidence'[t] = {claim[w]} /\ step'[w][t] = "persisted"
    BY <1>6, <1>7, <1>8, <1>12, <2>2 DEF e
  <2>4. Progress(w, t)'
    BY <1>1, <1>2, <2>2, <2>3 DEF Progress, Unended, Unwritten
  <2>5. ToolEvidence(t)'
    BY <1>1, <1>3, <2>2, <2>3 DEF ToolEvidence
  <2>6. QED
    BY <2>4, <2>5
<1>13. ~Holds(claim[w]) => ToolEvidence(t)'
  BY <1>1, <1>6 DEF EInv, ToolEvidence
<1>14. /\ UNCHANGED <<claim, row, kept, reported>> /\ scan' = scan
       /\ record' = record /\ Proceeds(w)
  BY <1>1 DEF Proceeds
<1>15. QED
  BY <1>2, <1>6, <1>9, <1>11, <1>12, <1>13, <1>14, OneToolStep

LEMMA RecordKeeps ==
    ASSUME Reliable, EInv, IInv', NEW w \in Workers, NEW t \in Tools,
           RecordTool(w, t)
    PROVE  EInv'
<1> DEFINE s == IF t \in told[w] THEN "cancelled" ELSE outcome[w][t]
<1>1. /\ step[w][t] = "persisted" /\ SaveProgress(w)
      /\ WriteRecord(w, t, s) /\ Step(w, t, "done")
      /\ UNCHANGED <<evidence, reported, phase, claim, row, kept, todo,
                     outcome>>
  BY DEF RecordTool
<1>2. /\ t \notin kept[w] /\ t \notin todo[w]
      /\ phase[w] \in {"selecting", "scanning"}
      /\ phase[w] \notin {"idle", "claimed"}
  BY <1>1, CallbackDue
<1>3. scan' = scan
  BY <1>1, <1>2, IdleWrites
<1>4. outcome[w][t] \in {"completed", "failed"}
  <2>1. outcome[w][t] \in Outcomes
    BY DEF EInv, IInv, SlotsOK
  <2>2. ToolMemory(w, t)
    BY DEF EInv
  <2>3. QED
    BY <1>1, <2>1, <2>2 DEF Outcomes, ToolMemory
<1>5. /\ s \in Recorded /\ s # "none"
      /\ s = "completed" => outcome[w][t] = "completed"
  BY <1>4 DEF Recorded
<1> HIDE DEF s
<1>6. /\ ~Holds(claim[w]) => record' = record
      /\ \A u \in Tools \ {t} : record'[u] = record[u]
      /\ Holds(claim[w]) => record'[t].status \in {s, "cancelled"}
  BY <1>1, <1>2, <1>5, WriteKeeps
<1>7. /\ step'[w][t] = "done"
      /\ \A u \in Tools \ {t} : step'[w][u] = step[w][u]
      /\ \A v \in Workers \ {w} : step'[v] = step[v]
  BY <1>1, StepTo DEF EInv, IInv, Steps
<1>8. /\ \A v \in Workers \ {w} : SlotKept(v)
      /\ \A u \in Tools \ {t} : ToolKept(w, u)
  BY <1>1, <1>6, <1>7 DEF SlotKept, ToolKept
<1>9. ToolMemory(w, t)'
  BY <1>1, <1>2, <1>4, <1>7 DEF ToolMemory, Preparing, Unqueued
<1>10. ASSUME Holds(claim[w])
       PROVE  Progress(w, t)' /\ ToolEvidence(t)'
  <2>1. Progress(w, t) /\ ToolEvidence(t)
    BY <1>2, <1>10 DEF EInv, Holder
  <2>2. /\ evidence[t] \subseteq {claim[w]}
        /\ outcome[w][t] = "completed" => claim[w] \in evidence[t]
    BY <1>1, <1>2, <2>1 DEF Progress, Unwritten
  <2>3. Progress(w, t)'
    BY <1>1, <1>2, <1>7, <2>2 DEF Progress, Unended, Unwritten
  <2>4. claim[w] \in Tokens
    BY DEF EInv, IInv, SlotsOK
  <2>5. record'[t].status = "completed" => evidence'[t] = {claim[w]}
    BY <1>1, <1>5, <1>6, <1>10, <2>2
  <2>6. record'[t].status # "none"
    BY <1>5, <1>6, <1>10
  <2>7. ToolEvidence(t)'
    BY <1>1, <1>3, <2>1, <2>4, <2>5, <2>6 DEF ToolEvidence
  <2>8. QED
    BY <2>3, <2>7
<1>11. ~Holds(claim[w]) => ToolEvidence(t)'
  BY <1>1, <1>3, <1>6 DEF EInv, ToolEvidence
<1>12. /\ UNCHANGED <<claim, row, kept, reported>> /\ evidence' = evidence
       /\ Proceeds(w)
  BY <1>1 DEF Proceeds
<1>13. QED
  BY <1>2, <1>3, <1>6, <1>8, <1>9, <1>10, <1>11, <1>12, OneToolStep
-----------------------------------------------------------------------------
(* Claims, ends and users. *)

\* A step that moves nobody and writes no findings.
LEMMA QuietStep ==
    ASSUME EInv, IInv', RowStep, \A v \in Workers : SlotKept(v),
           \A v \in Workers : phase[v] = "claimed" => scan'.token = scan.token,
           evidence' = evidence, RecordsStay, CompletedHasEvidence'
    PROVE  EInv'
<1>1. RowOwned'
  BY RowOwnedStep
<1>2. OneTokenEach'
  BY DEF EInv, OneTokenEach, SlotKept
<1>3. \A v \in Workers : SlotMemory(v)' /\ \A t \in Tools : ToolMemory(v, t)'
  BY MemoryKept
<1>4. \A v \in Workers, t \in Tools : Holder(v)' => Progress(v, t)'
  BY ProgressKept
<1>5. \A t \in Tools : ToolEvidence(t)'
  BY EvidenceKept DEF RecordsStay
<1>6. QED
  BY <1>1, <1>2, <1>3, <1>4, <1>5 DEF EInv

\* Contexts and watchers move no executor along.
LEMMA StillKeeps ==
    ASSUME EInv, IInv',
           UNCHANGED <<scan, tables, phase, claim, row, kept, todo, step,
                       outcome>>
    PROVE  EInv'
<1>1. CompletedHasEvidence'
  BY DEF EInv, CompletedHasEvidence, tables
<1>2. /\ \A v \in Workers : SlotKept(v)
      /\ evidence' = evidence /\ RowStep /\ RecordsStay /\ scan' = scan
  BY DEF SlotKept, RowStep, RecordsStay, tables
<1>3. QED
  BY <1>1, <1>2, QuietStep

LEMMA UserKeeps ==
    ASSUME EInv, IInv', NEW t \in Tools,
           \/ RequestScannerRunCancellation(t) \/ FindNoRecord(t)
           \/ InsertCancelledRecord(t)
    PROVE  EInv'
<1>1. UNCHANGED <<scan, evidence, reported, slots>>
  BY DEF RequestScannerRunCancellation, FindNoRecord, InsertCancelledRecord
<1>2. record' = record \/ CancelRecord(t)
  BY DEF RequestScannerRunCancellation, FindNoRecord, InsertCancelledRecord,
         CancelRecord
<1>3. RecordsStay
  BY <1>2, CancelTo DEF EInv, IInv, RecordsStay, RecordSet
<1>4. CompletedHasEvidence'
  BY <1>1 DEF EInv, CompletedHasEvidence
<1>5. /\ \A v \in Workers : SlotKept(v)
      /\ evidence' = evidence /\ RowStep /\ scan' = scan
  BY <1>1 DEF SlotKept, RowStep, slots
<1>6. QED
  BY <1>3, <1>4, <1>5, QuietStep

\* Recovery finds no scan whose executor has yet to read its token.
LEMMA ReclaimKeeps ==
    ASSUME Reliable, EInv, IInv', ReclaimStaleScans PROVE EInv'
<1>1. /\ scan.status = "running" /\ scan.token # NoToken
      /\ \A v \in Workers : phase[v] = "claimed" => claim[v] # scan.token
      /\ UNCHANGED <<tables, slots>>
  BY DEF ReclaimStaleScans, Reliable
<1>2. Closes
  BY ScanTypes DEF EInv, ReclaimStaleScans, Finalize, Closes, Row
<1>3. \A v \in Workers : phase[v] # "claimed"
  BY <1>1 DEF EInv, SlotMemory
<1>4. CompletedHasEvidence'
  <2>1. scan'.status # "completed"
    BY ScanTypes DEF EInv, ReclaimStaleScans, Finalize, Row
  <2>2. QED
    BY <2>1 DEF CompletedHasEvidence
<1>5. /\ \A v \in Workers : SlotKept(v)
      /\ evidence' = evidence /\ RowStep /\ RecordsStay
  BY <1>1, <1>2 DEF SlotKept, RowStep, RecordsStay, tables, slots
<1>6. QED
  BY <1>3, <1>4, <1>5, QuietStep

LEMMA CancelKeeps ==
    ASSUME EInv, IInv', RequestScanCancellation PROVE EInv'
<1>1. UNCHANGED <<tables, slots>>
  BY DEF RequestScanCancellation
<1>2. IsCancelled
  BY ScanTypes DEF EInv, RequestScanCancellation, IsCancelled, Row
<1>3. CompletedHasEvidence' /\ scan'.token = scan.token
  BY <1>2 DEF IsCancelled, CompletedHasEvidence
<1>4. /\ \A v \in Workers : SlotKept(v)
      /\ evidence' = evidence /\ RowStep /\ RecordsStay
  BY <1>1, <1>2 DEF SlotKept, RowStep, RecordsStay, tables, slots
<1>5. QED
  BY <1>3, <1>4, QuietStep

\* A queued scan has no token, hence no executor still to read one.
LEMMA ClaimKeeps ==
    ASSUME EInv, IInv', NEW w \in Workers, ClaimNextScan(w) PROVE EInv'
<1>1. /\ phase[w] = "idle" /\ scan.status = "pending" /\ Goto(w, "claimed")
      /\ claim' = [claim EXCEPT ![w] = scan.attempt + 1]
      /\ UNCHANGED <<tables, row, kept, todo, step, outcome>>
  BY DEF ClaimNextScan
<1>2. scan.token = NoToken /\ scan.attempt \in Nat /\ NoToken = 0
  BY <1>1, ScanTypes DEF EInv, RowOwned
<1>3. Begins /\ RowStep
  BY <1>1, <1>2, ScanTypes DEF EInv, ClaimNextScan, Begins, RowStep, Row
<1>4. RowOwned' /\ scan'.attempt = scan.attempt + 1
  BY <1>3, RowOwnedStep DEF Begins
<1>5. /\ phase'[w] = "claimed" /\ claim'[w] = scan.attempt + 1
      /\ \A v \in Workers \ {w} : SlotKept(v)
  BY <1>1 DEF EInv, IInv, SlotsOK, Goto, SlotKept
<1>6. OneTokenEach'
  <2>1. \A v \in Workers \ {w} :
           phase'[v] # "idle" => claim'[v] # claim'[w]
    BY <1>2, <1>5, ScanTypes DEF EInv, SlotMemory, SlotKept
  <2>2. QED
    BY <1>5, <2>1 DEF EInv, OneTokenEach, SlotKept
<1>7. \A t \in Tools :
         t \notin kept[w] /\ t \notin todo[w] /\ step[w][t] = "off"
         /\ outcome[w][t] = "none"
  BY <1>1 DEF EInv, ToolMemory, Preparing, Unqueued
<1>8. SlotMemory(w)' /\ \A t \in Tools : ToolMemory(w, t)'
  <2>1. SlotMemory(w)'
    BY <1>2, <1>3, <1>4, <1>5 DEF SlotMemory, Begins
  <2>2. QED
    BY <1>1, <1>5, <1>7, <2>1 DEF ToolMemory, Preparing, Unqueued
<1>9. \A t \in Tools : Progress(w, t)'
  <2>1. \A t \in Tools : scan.attempt + 1 \notin evidence[t]
    BY <1>2 DEF EInv, ToolEvidence
  <2>2. QED
    BY <1>1, <1>5, <1>7, <2>1 DEF tables, Progress, Unended
<1>10. ASSUME NEW v \in Workers, v # w
       PROVE  /\ SlotMemory(v)' /\ \A t \in Tools : ToolMemory(v, t)'
              /\ \A t \in Tools : Holder(v)' => Progress(v, t)'
  <2>1. phase[v] # "claimed"
    BY <1>2, ScanTypes DEF EInv, SlotMemory
  <2>2. SlotKept(v) /\ evidence' = evidence /\ RecordsStay
    BY <1>1, <1>5, <1>10 DEF tables, RecordsStay
  <2>3. QED
    BY <1>3, <2>1, <2>2, MemoryKept, ProgressKept
<1>11. \A t \in Tools : ToolEvidence(t)'
  BY <1>1, <1>3, EvidenceKept DEF tables
<1>12. CompletedHasEvidence'
  BY <1>3 DEF Begins, CompletedHasEvidence
<1>13. /\ \A v \in Workers :
            SlotMemory(v)' /\ \A t \in Tools : ToolMemory(v, t)'
       /\ \A v \in Workers, t \in Tools : Holder(v)' => Progress(v, t)'
  BY <1>8, <1>9, <1>10
<1>14. QED
  BY <1>4, <1>6, <1>11, <1>12, <1>13 DEF EInv

\* An executor returns; its claim may close the scan with it.
LEMMA ReturnStep ==
    ASSUME EInv, IInv', NEW w \in Workers, phase[w] # "idle", Return(w),
           RowStep, UNCHANGED <<record, evidence>>,
           scan'.token # scan.token => scan.token = claim[w],
           CompletedHasEvidence'
    PROVE  EInv'
<1>1. RowOwned'
  BY RowOwnedStep
<1>2. /\ phase'[w] = "idle" /\ kept'[w] = {} /\ todo'[w] = {}
      /\ \A t \in Tools : step'[w][t] = "off" /\ outcome'[w][t] = "none"
      /\ \A v \in Workers \ {w} : SlotKept(v)
  BY DEF Return, Goto, EInv, IInv, SlotsOK, SlotKept
<1>3. OneTokenEach'
  BY <1>2 DEF EInv, OneTokenEach, SlotKept
<1>4. SlotMemory(w)' /\ \A t \in Tools : ToolMemory(w, t)'
  BY <1>2 DEF SlotMemory, ToolMemory, Preparing, Unqueued
<1>5. ~Holder(w)'
  BY <1>2 DEF Holder
<1>6. ASSUME NEW v \in Workers, v # w
      PROVE  /\ SlotMemory(v)' /\ \A t \in Tools : ToolMemory(v, t)'
             /\ \A t \in Tools : Holder(v)' => Progress(v, t)'
  <2>1. SlotKept(v) /\ evidence' = evidence /\ RecordsStay
    BY <1>2, <1>6 DEF RecordsStay
  <2>2. phase[v] = "claimed" => scan'.token = scan.token
    BY <1>6 DEF EInv, SlotMemory, OneTokenEach
  <2>3. QED
    BY <2>1, <2>2, MemoryKept, ProgressKept
<1>7. \A t \in Tools : ToolEvidence(t)'
  BY EvidenceKept
<1>8. /\ \A v \in Workers :
            SlotMemory(v)' /\ \A t \in Tools : ToolMemory(v, t)'
      /\ \A v \in Workers, t \in Tools : Holder(v)' => Progress(v, t)'
  BY <1>4, <1>5, <1>6
<1>9. QED
  BY <1>1, <1>3, <1>7, <1>8 DEF EInv

LEMMA CloseIs ==
    ASSUME EInv, NEW c, Holds(c), NEW s, s \in {"completed", "failed"},
           Finalize(s)
    PROVE  RowStep /\ scan.token = c /\ scan'.status = s
  BY ScanTypes DEF EInv, Holds, Finalize, RowStep, Closes, Row

LEMMA FailKeeps ==
    ASSUME EInv, IInv', NEW w \in Workers, FailPreparedScan(w) PROVE EInv'
<1>1. /\ phase[w] = "failing" /\ Return(w)
      /\ UNCHANGED <<record, evidence, reported>>
  BY DEF FailPreparedScan, tables
<1>2. Fence(w) = claim[w] /\ Fence(w) # NoToken
  BY <1>1, FenceIsClaim, ScanTypes DEF EInv
<1>3. \/ Holds(claim[w]) /\ Finalize("failed")
      \/ scan' = scan
  BY <1>2 DEF FailPreparedScan
<1>4. RowStep /\ (scan'.token # scan.token => scan.token = claim[w])
  BY <1>3, CloseIs DEF RowStep
<1>5. CompletedHasEvidence'
  BY <1>1, <1>3, CloseIs DEF EInv, CompletedHasEvidence
<1>6. QED
  BY <1>1, <1>4, <1>5, ReturnStep

LEMMA FinishKeeps ==
    ASSUME EInv, IInv', NEW w \in Workers, FinishScan(w) PROVE EInv'
<1>1. /\ phase[w] = "scanning" /\ Return(w)
      /\ UNCHANGED <<record, evidence>>
      /\ \A t \in Tools \ kept[w] : step[w][t] = "done"
  BY DEF FinishScan
<1>2. Fence(w) = claim[w]
  BY <1>1, FenceIsClaim
<1> DEFINE T == kept[w] \cup {t \in Tools : outcome[w][t] = "completed"}
<1>3. \/ Holds(claim[w]) /\ Finalize("completed") /\ reported' = T
      \/ Holds(claim[w]) /\ Finalize("failed") /\ reported' = reported
      \/ scan' = scan /\ reported' = reported
  BY <1>2 DEF FinishScan
<1>4. RowStep /\ (scan'.token # scan.token => scan.token = claim[w])
  BY <1>3, CloseIs DEF RowStep
<1>5. ASSUME Holds(claim[w]), NEW t \in T PROVE evidence[t] # {}
  <2>1. t \in Tools
    BY DEF EInv, IInv, SlotsOK
  <2>2. Progress(w, t) /\ ToolMemory(w, t)
    BY <1>1, <1>5, <2>1 DEF EInv, Holder
  <2>3. CASE t \in kept[w]
    BY <2>2, <2>3 DEF Progress
  <2>4. CASE outcome[w][t] = "completed" /\ t \notin kept[w]
    BY <1>1, <2>1, <2>2, <2>4 DEF Progress
  <2>5. QED
    BY <2>3, <2>4
<1> HIDE DEF T
<1>6. CompletedHasEvidence'
  <2>1. CASE Holds(claim[w]) /\ reported' = T
    BY <1>1, <1>5, <2>1 DEF CompletedHasEvidence
  <2>2. CASE Holds(claim[w]) /\ Finalize("failed")
    BY <2>2, CloseIs DEF CompletedHasEvidence
  <2>3. CASE scan' = scan /\ reported' = reported
    BY <1>1, <2>3 DEF EInv, CompletedHasEvidence
  <2>4. QED
    BY <1>3, <2>1, <2>2, <2>3
<1>7. QED
  BY <1>1, <1>4, <1>6, ReturnStep

\* A claim that finds its scan cancelled, and a process that dies.
LEMMA LeaveKeeps ==
    ASSUME EInv, IInv', NEW w \in Workers,
           (Begin(w) /\ Return(w)) \/ Crash(w)
    PROVE  EInv'
<1>1. phase[w] # "idle" /\ UNCHANGED tables /\ Return(w)
  BY DEF Begin, Crash
<1>2. scan' = scan
  <2>1. CASE Crash(w)
    BY <2>1 DEF Crash
  <2>2. CASE Begin(w)
    <3>1. Goto(w, "loading") \/ scan' = scan
      BY <2>2 DEF Begin
    <3>2. Goto(w, "loading") => FALSE
      BY <1>1 DEF Goto, Return, EInv, IInv, SlotsOK
    <3>3. QED
      BY <3>1, <3>2
  <2>3. QED
    BY <2>1, <2>2
<1>3. CompletedHasEvidence'
  BY <1>1, <1>2 DEF EInv, CompletedHasEvidence, tables
<1>4. UNCHANGED <<record, evidence>> /\ RowStep
  BY <1>1, <1>2 DEF tables, RowStep
<1>5. QED
  BY <1>1, <1>2, <1>3, <1>4, ReturnStep

LEMMA EvidenceInductive ==
    ASSUME Reliable, EInv, [Next]_vars PROVE EInv'
<1>1. IInv'
  BY Inductive DEF EInv
<1>2. CASE UNCHANGED vars
  BY <1>1, <1>2, StillKeeps DEF vars, slots
<1>3. ASSUME NEW w \in Workers, ExecutorStep(w) PROVE EInv'
  <2>1. CASE Begin(w)
    BY <1>1, <2>1, BeginKeeps, LeaveKeeps
  <2>2. CASE LoseContext(w)
    BY <1>1, <2>2, StillKeeps DEF LoseContext
  <2>3. CASE ClaimNextScan(w)
    BY <1>1, <2>3, ClaimKeeps
  <2>4. CASE LoadEvidence(w)
    BY <1>1, <2>4, LoadKeeps
  <2>5. CASE PrepareFails(w)
    BY <1>1, <2>5, PrepareFailsKeeps
  <2>6. CASE FailPreparedScan(w)
    BY <1>1, <2>6, FailKeeps
  <2>7. CASE StartRun(w)
    BY <1>1, <2>7, StartRunKeeps
  <2>8. CASE FinishScan(w)
    BY <1>1, <2>8, FinishKeeps
  <2>9. CASE Crash(w)
    BY <1>1, <2>9, LeaveKeeps
  <2>10. QED
    BY <1>3, <2>1, <2>2, <2>3, <2>4, <2>5, <2>6, <2>7, <2>8, <2>9
       DEF ExecutorStep
<1>4. ASSUME NEW w \in Workers, NEW t \in Tools, ToolStep(w, t) PROVE EInv'
  <2>1. CASE \/ SkipTool(w, t) \/ CreateFindingsFails(w, t)
             \/ \E result \in {"completed", "failed"} :
                   OnToolDone(w, t, result)
    BY <1>1, <2>1, ResultKeeps
  <2>2. CASE DeleteFindingsByScanTool(w, t)
    BY <1>1, <2>2, DeleteKeeps
  <2>3. CASE QueueTool(w, t)
    BY <1>1, <2>3, QueueKeeps
  <2>4. CASE OnToolStart(w, t)
    BY <1>1, <2>4, StartKeeps
  <2>5. CASE CreateFindingsForScanLease(w, t)
    BY <1>1, <2>5, CreateKeeps
  <2>6. CASE RecordTool(w, t)
    BY <1>1, <2>6, RecordKeeps
  <2>7. CASE WatchToolCancellation(w, t)
    BY <1>1, <2>7, StillKeeps DEF WatchToolCancellation
  <2>8. QED
    BY <1>4, <2>1, <2>2, <2>3, <2>4, <2>5, <2>6, <2>7 DEF ToolStep
<1>5. CASE ReclaimStaleScans
  BY <1>1, <1>5, ReclaimKeeps
<1>6. CASE RequestScanCancellation
  BY <1>1, <1>6, CancelKeeps
<1>7. ASSUME NEW t \in Tools,
             \/ RequestScannerRunCancellation(t) \/ FindNoRecord(t)
             \/ InsertCancelledRecord(t)
      PROVE  EInv'
  BY <1>1, <1>7, UserKeeps
<1>8. QED
  BY <1>2, <1>3, <1>4, <1>5, <1>6, <1>7 DEF Next

LEMMA EvidenceInitially == ASSUME Init PROVE EInv
<1>1. /\ IInv /\ scan = Unread
      /\ \A w \in Workers : phase[w] = "idle" /\ kept[w] = {} /\ todo[w] = {}
      /\ \A w \in Workers, t \in Tools :
            step[w][t] = "off" /\ outcome[w][t] = "none"
      /\ \A t \in Tools : evidence[t] = {} /\ record[t].status = "none"
  BY Initially DEF Init
<1>2. RowOwned /\ CompletedHasEvidence
  BY <1>1 DEF RowOwned, CompletedHasEvidence, Unread
<1>3. /\ OneTokenEach /\ \A w \in Workers : SlotMemory(w) /\ ~Holder(w)
  BY <1>1 DEF OneTokenEach, SlotMemory, Holder
<1>4. \A w \in Workers, t \in Tools : ToolMemory(w, t)
  BY <1>1 DEF ToolMemory, Preparing, Unqueued
<1>5. \A t \in Tools : ToolEvidence(t)
  BY <1>1 DEF ToolEvidence
<1>6. QED
  BY <1>1, <1>2, <1>3, <1>4, <1>5 DEF EInv

LEMMA EvidenceInvariance ==
    ASSUME Reliable PROVE Spec => []EInv
<1>1. Init => EInv
  BY EvidenceInitially
<1>2. EInv /\ [Next]_vars => EInv'
  BY EvidenceInductive
<1>3. QED
  BY <1>1, <1>2, PTL DEF Spec
-----------------------------------------------------------------------------
(* Theorems *)

\* Types: in particular no row, cached or stored, is queued without attempts
\* left, so that a claim never exceeds scans.max_attempts.
THEOREM TypeCorrect == Spec => []TypeOK
<1>1. IInv => TypeOK
  BY DEF IInv, TypeOK, Legal, TablesOK, SlotsOK, Record, Recorded, Phases,
         Steps, Outcomes
<1>2. QED
  BY <1>1, Invariance, PTL

\* Every write of the records is an upsert that keeps a cancellation.
LEMMA RecordWrites ==
    ASSUME IInv, [Next]_vars
    PROVE  record' = record \/ \E t \in Tools : \E s : RecordSet(t, s)
<1>1. ASSUME NEW w \in Workers, NEW t \in Tools, ToolStep(w, t)
      PROVE  record' = record \/ \E s : RecordSet(t, s)
  <2>1. ASSUME NEW s \in Recorded, WriteRecord(w, t, s)
        PROVE  record' = record \/ \E r : RecordSet(t, r)
    BY <2>1, WriteTo
  <2>2. CASE QueueTool(w, t)
    <3>1. WriteRecord(w, t, "queued") /\ "queued" \in Recorded
      BY <2>2 DEF QueueTool, Recorded
    <3>2. QED
      BY <2>1, <3>1
  <2>3. CASE OnToolStart(w, t)
    <3>1. WriteRecord(w, t, "running") /\ "running" \in Recorded
      BY <2>3 DEF OnToolStart, Recorded
    <3>2. QED
      BY <2>1, <3>1
  <2>4. CASE RecordTool(w, t)
    <3> DEFINE s == IF t \in told[w] THEN "cancelled" ELSE outcome[w][t]
    <3>1. WriteRecord(w, t, s) /\ s \in Recorded
      BY <2>4 DEF RecordTool, IInv, SlotsOK, Outcomes, Recorded
    <3> HIDE DEF s
    <3>2. QED
      BY <2>1, <3>1
  <2>5. CASE \/ DeleteFindingsByScanTool(w, t) \/ SkipTool(w, t)
             \/ CreateFindingsForScanLease(w, t) \/ CreateFindingsFails(w, t)
             \/ WatchToolCancellation(w, t)
             \/ \E result \in {"completed", "failed"} :
                   OnToolDone(w, t, result)
    BY <2>5 DEF DeleteFindingsByScanTool, SkipTool, CreateFindingsForScanLease,
                CreateFindingsFails, WatchToolCancellation, OnToolDone, tables
  <2>6. QED
    BY <1>1, <2>2, <2>3, <2>4, <2>5 DEF ToolStep
<1>2. ASSUME NEW w \in Workers, ExecutorStep(w) PROVE record' = record
  BY <1>2 DEF ExecutorStep, ClaimNextScan, Begin, LoadEvidence, PrepareFails,
              FailPreparedScan, StartRun, FinishScan, LoseContext, Crash, tables
<1>3. ASSUME NEW t \in Tools,
             \/ RequestScannerRunCancellation(t) \/ FindNoRecord(t)
             \/ InsertCancelledRecord(t)
      PROVE  record' = record \/ \E s : RecordSet(t, s)
  <2>1. record' = record \/ CancelRecord(t)
    BY <1>3 DEF RequestScannerRunCancellation, FindNoRecord,
                InsertCancelledRecord, CancelRecord
  <2>2. QED
    BY <2>1, CancelTo DEF IInv
<1>4. CASE ReclaimStaleScans \/ RequestScanCancellation \/ UNCHANGED vars
  BY <1>4 DEF ReclaimStaleScans, RequestScanCancellation, vars, tables
<1>5. QED
  BY <1>1, <1>2, <1>3, <1>4 DEF Next

\* A user's cancellation of a tool survives every record write of every
\* executor, stale ones included, whatever fails (ToolCancelSticky).
THEOREM ToolCancelStickyHolds == Spec => ToolCancelSticky
<1>1. ASSUME IInv, [Next]_vars, NEW t \in Tools, record[t].cancel
      PROVE  record'[t].cancel /\ record'[t].status = "cancelled"
  <2>1. record'[t].cancel
    <3>1. CASE record' = record
      BY <1>1, <3>1
    <3>2. ASSUME NEW u \in Tools, NEW s, RecordSet(u, s)
          PROVE  record'[t].cancel
      BY <1>1, <3>2 DEF RecordSet
    <3>3. QED
      BY <1>1, <3>1, <3>2, RecordWrites
  <2>2. TablesOK'
    BY <1>1, Inductive DEF IInv
  <2>3. QED
    BY <2>1, <2>2 DEF TablesOK
<1>2. IInv /\ [Next]_vars =>
         [\A t \in Tools : record[t].cancel =>
            record'[t].cancel /\ record'[t].status = "cancelled"]_vars
  BY <1>1
<1>3. QED
  BY <1>2, Invariance, PTL DEF Spec, ToolCancelSticky

\* Findings change in two places: a reset, and a holder's insert.
LEMMA EvidenceWrites ==
    ASSUME EInv, [Next]_vars
    PROVE  \/ evidence' = evidence
           \/ \E w \in Workers, t \in Tools :
                 /\ Holder(w) /\ Holds(claim[w]) /\ t \notin kept[w]
                 /\ \A u \in Tools \ {t} : evidence'[u] = evidence[u]
                 /\ record[t].status # "completed"
                 /\ \/ claim[w] \notin evidence[t]
                    \/ evidence[t] \subseteq evidence'[t]
<1>1. ASSUME NEW w \in Workers, NEW t \in Tools,
             DeleteFindingsByScanTool(w, t)
      PROVE  /\ Holder(w) /\ Holds(claim[w]) /\ t \notin kept[w]
             /\ \A u \in Tools \ {t} : evidence'[u] = evidence[u]
             /\ record[t].status # "completed"
             /\ claim[w] \notin evidence[t]
  <2>1. /\ phase[w] = "resetting" /\ t \in todo[w] /\ Holds(Fence(w))
        /\ evidence' = [evidence EXCEPT ![t] = {}]
    BY <1>1 DEF DeleteFindingsByScanTool
  <2>2. Holder(w) /\ Holds(claim[w])
    BY <2>1, FenceIsClaim DEF Holder
  <2>3. Progress(w, t) /\ ToolMemory(w, t)
    BY <2>2 DEF EInv
  <2>4. QED
    BY <2>1, <2>2, <2>3
       DEF Progress, ToolMemory, Unqueued, Unwritten, EInv, IInv, TablesOK
<1>2. ASSUME NEW w \in Workers, NEW t \in Tools,
             CreateFindingsForScanLease(w, t), Owned(w)
      PROVE  /\ Holder(w) /\ Holds(claim[w]) /\ t \notin kept[w]
             /\ \A u \in Tools \ {t} : evidence'[u] = evidence[u]
             /\ record[t].status # "completed"
             /\ evidence[t] \subseteq evidence'[t]
  <2> DEFINE e == evidence[t] \cup {claim[w]}
  <2>1. step[w][t] = "reporting" /\ evidence' = [evidence EXCEPT ![t] = e]
    BY <1>2 DEF CreateFindingsForScanLease
  <2>2. Holder(w) /\ Holds(claim[w]) /\ t \notin kept[w]
    BY <1>2, <2>1, CallbackDue, FenceIsClaim DEF Holder
  <2>3. record[t].status # "completed"
    BY <2>1, <2>2 DEF EInv, Progress, Unended
  <2>4. evidence[t] \subseteq e
    OBVIOUS
  <2> HIDE DEF e
  <2>5. QED
    BY <2>1, <2>2, <2>3, <2>4 DEF EInv, IInv, TablesOK
<1>3. ASSUME NEW w \in Workers, NEW t \in Tools, ToolStep(w, t),
             ~DeleteFindingsByScanTool(w, t),
             ~(CreateFindingsForScanLease(w, t) /\ Owned(w))
      PROVE  evidence' = evidence
  BY <1>3 DEF ToolStep, QueueTool, OnToolStart, SkipTool, OnToolDone,
              CreateFindingsForScanLease, CreateFindingsFails, RecordTool,
              WatchToolCancellation, tables
<1>4. ASSUME NEW w \in Workers, ExecutorStep(w) PROVE evidence' = evidence
  BY <1>4 DEF ExecutorStep, ClaimNextScan, Begin, LoadEvidence, PrepareFails,
              FailPreparedScan, StartRun, FinishScan, LoseContext, Crash, tables
<1>5. ASSUME NEW t \in Tools,
             \/ RequestScannerRunCancellation(t) \/ FindNoRecord(t)
             \/ InsertCancelledRecord(t)
      PROVE  evidence' = evidence
  BY <1>5 DEF RequestScannerRunCancellation, FindNoRecord,
              InsertCancelledRecord
<1>6. CASE ReclaimStaleScans \/ RequestScanCancellation \/ UNCHANGED vars
  BY <1>6 DEF ReclaimStaleScans, RequestScanCancellation, vars, tables
<1>7. QED
  BY <1>1, <1>2, <1>3, <1>4, <1>5, <1>6 DEF Next

\* A tool recorded as completed has the findings of exactly one run: resets
\* precede the reruns, and only the holder inserts and records (OneRunPerTool).
THEOREM OneRunPerToolHolds ==
    ASSUME Reliable PROVE Spec => []OneRunPerTool
<1>1. ASSUME EInv, NEW t \in Tools, record[t].status = "completed"
      PROVE  Cardinality(evidence[t]) = 1
  <2>1. PICK c \in Tokens : evidence[t] = {c}
    BY <1>1 DEF EInv, ToolEvidence
  <2>2. QED
    BY <2>1, FS_Singleton
<1>2. EInv => OneRunPerTool
  BY <1>1 DEF OneRunPerTool
<1>3. QED
  BY <1>2, EvidenceInvariance, PTL

\* A completed scan has the findings of every tool it reports as completed:
\* the ones it ran, and the ones it kept from earlier attempts.
THEOREM CompletedHasEvidenceHolds ==
    ASSUME Reliable PROVE Spec => []CompletedHasEvidence
<1>1. EInv => CompletedHasEvidence
  BY DEF EInv
<1>2. QED
  BY <1>1, EvidenceInvariance, PTL

\* What a completed run recorded is neither reset nor added to, however old
\* the reading of the records a reset goes by (CompletedKept).
THEOREM CompletedKeptHolds ==
    ASSUME Reliable PROVE Spec => CompletedKept
<1>1. ASSUME EInv, [Next]_vars, NEW t \in Tools,
             record[t].status = "completed"
      PROVE  evidence'[t] = evidence[t]
  BY <1>1, EvidenceWrites
<1>2. EInv /\ [Next]_vars =>
         [\A t \in Tools : record[t].status = "completed" =>
                             evidence'[t] = evidence[t]]_vars
  BY <1>1
<1>3. QED
  BY <1>2, EvidenceInvariance, PTL DEF Spec, CompletedKept

\* No superseded or cancelled executor erases the findings of the current
\* lease holder (HolderEvidenceSafe).
THEOREM HolderEvidenceSafeHolds ==
    ASSUME Reliable PROVE Spec => HolderEvidenceSafe
<1>1. ASSUME EInv, [Next]_vars, NEW t \in Tools,
             scan.status = "running", scan.token \in evidence[t]
      PROVE  scan.token \in evidence'[t]
  BY <1>1, EvidenceWrites DEF Holds
<1>2. EInv /\ [Next]_vars =>
         [\A t \in Tools :
             scan.status = "running" /\ scan.token \in evidence[t] =>
                scan.token \in evidence'[t]]_vars
  BY <1>1
<1>3. QED
  BY <1>2, EvidenceInvariance, PTL DEF Spec, HolderEvidenceSafe
=============================================================================
