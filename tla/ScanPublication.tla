-------------------------- MODULE ScanPublication --------------------------
(***************************************************************************)
(* How the findings of a scan become a published result, while users       *)
(* triage them, change suppression rules and read the gate.                *)
(*                                                                         *)
(* One scan is followed, a native one with its attempts or a SARIF import, *)
(* and of its findings one cluster, each member from a tool of its own.    *)
(* Other scans of the repository only meet this one in the transaction of  *)
(* a suppression rule, which lists the scans it will project.  A lease can *)
(* be lost at any moment (ScanLease says when), and the executor that lost *)
(* it goes on.  A transaction is an action.                                *)
(***************************************************************************)
EXTENDS Naturals, FiniteSets

CONSTANTS
  Members,         \* the findings of the cluster
  Severity,        \* their severity ranks
  Covered,         \* those the suppression rule matches
  Ignored,         \* those the ignore policy of the checkout matches
  MaxAttempts,     \* max_attempts of the scan
  MaxChanges,      \* bound on triages and rule changes
  MaxFaults,       \* bound on statements that fail
  None

(* Equal severities are ordered by the row's position; no two are equal    *)
(* here.                                                                   *)
ASSUME PublicationAssumption ==
  /\ Members # {} /\ IsFiniteSet(Members) /\ None \notin Members
  /\ Severity \in [Members -> Nat]
  /\ \A a, b \in Members : a # b => Severity[a] # Severity[b]
  /\ Covered \subseteq Members /\ Ignored \subseteq Members
  /\ MaxAttempts \in Nat \ {0} /\ MaxChanges \in Nat /\ MaxFaults \in Nat

VARIABLES
  kind,     \* a native scan or a SARIF import
  row,      \* the scan's row
  cluster,  \* its findings
  gate,     \* the stored gate result
  rule,     \* whether the suppression rule is in force
  ruleTx,   \* the transaction changing it: whether it listed the scan
  missed,   \* the last change of the rule did not list the scan (history)
  reopened, \* a member was reopened since the primary was chosen (history)
  exec,     \* what the executor of each attempt has in memory
  reader,   \* a gate request between its snapshot and its write
  changes, faults

vars == <<kind, row, cluster, gate, rule, ruleTx, missed, reopened, exec, reader, changes, faults>>

Attempts == 1..MaxAttempts
PublishTries == 3
Ended == {"completed", "failed", "cancelled"}
(* The stations of an executor whose writes are conditional on the lease.  *)
Working == {"reset", "insert", "collect", "capture", "cluster", "baseline",
            "publish", "commit", "finalize"}

Kinds == {"import", "scan"}
Import == kind = "import"

NoScan == [status |-> "absent", token |-> 0, attempt |-> 0, cancel |-> FALSE, rev |-> 0,
           policy |-> FALSE, pinned |-> FALSE, count |-> 0, why |-> "none"]
NoFindings == [stored |-> {}, open |-> {}, hidden |-> {}, root |-> None,
               key |-> [m \in Members |-> None]]
NoSnapshot == [rev |-> 0, status |-> "absent", view |-> {}]
Off == [pc |-> "off", redo |-> {}, todo |-> {}, primary |-> None, ok |-> TRUE, tries |-> 0,
        count |-> 0, why |-> "none", snap |-> NoSnapshot]

Init ==
  /\ kind \in Kinds
  /\ row = NoScan /\ cluster = NoFindings /\ gate = NoSnapshot
  /\ rule = FALSE /\ ruleTx = "none" /\ missed = FALSE /\ reopened = FALSE
  /\ exec = [n \in Attempts |-> Off]
  /\ reader = NoSnapshot
  /\ changes = 0 /\ faults = 0

-----------------------------------------------------------------------------
(* Findings                                                                *)

(* Members are read through their primary once they are clustered.         *)
Primaries(c) == IF c.root = None THEN c.stored ELSE {c.root}
(* What a gate is evaluated on: the primaries that are not suppressed,     *)
(* each with the observation it was classified as against the baseline.    *)
View(c) == {<<m, c.key[m]>> : m \in Primaries(c) \ c.hidden}
Snapshot == [rev |-> row.rev, status |-> row.status, view |-> View(cluster)]

Visible(c, m) == m \in c.open \ c.hidden
(* identity.PreferPrimary                                                  *)
PreferPrimary(c, a, b) ==
  \/ Visible(c, a) /\ ~Visible(c, b)
  \/ Visible(c, a) = Visible(c, b) /\ Severity[a] > Severity[b]
Preferred(c) ==
  IF c.stored = {} THEN None
  ELSE CHOOSE a \in c.stored : \A b \in c.stored \ {a} : PreferPrimary(c, a, b)

(* The projection of the rule, and of the policy once it is captured.      *)
Hides(active, policy, m) == (active /\ m \in Covered) \/ (policy /\ m \in Ignored)

(* deriveFindingBaseline: all members carry their primary's identity.      *)
Classified(c) ==
  [c EXCEPT !.key = [m \in Members |-> IF m \notin c.stored THEN None
                                       ELSE IF c.root = None THEN m ELSE c.root]]

Insert(c, new) ==
  [c EXCEPT !.stored = @ \cup new, !.open = @ \cup new,
            !.hidden = @ \cup {m \in new : Hides(rule, row.policy, m)}]

(* DeleteFindingsByScanTool also dissolves the scan's clusters.            *)
Delete(c, m) ==
  [c EXCEPT !.stored = @ \ {m}, !.open = @ \ {m}, !.hidden = @ \ {m},
            !.key[m] = None, !.root = None]

-----------------------------------------------------------------------------
(* The row                                                                 *)

Token(n) == IF Import THEN 0 ELSE n
Owned(n) == row.status = "running" /\ row.token = Token(n) /\ ~row.cancel
At(n, pc) == exec[n].pc = pc
Go(n, pc) == exec' = [exec EXCEPT ![n].pc = pc]

(* CreateScan: a request queues a scan, an import runs at once.            *)
Create ==
  /\ row.status = "absent"
  /\ row' = [row EXCEPT !.status = IF Import THEN "running" ELSE "pending",
                        !.count = IF Import THEN Cardinality(Members) ELSE 0]
  /\ exec' = IF Import
             THEN [exec EXCEPT ![1] = [Off EXCEPT !.pc = "insert", !.todo = Members,
                                                  !.count = Cardinality(Members)]]
             ELSE exec
  /\ UNCHANGED <<kind, cluster, gate, rule, ruleTx, missed, reopened, reader, changes, faults>>

(* A worker claims the scan; recovery keeps the tools whose records are    *)
(* complete and repeats the others (ScanEvidence).                         *)
Claim ==
  /\ row.status = "pending" /\ row.attempt < MaxAttempts
  /\ LET n == row.attempt + 1 IN
     \E redo \in SUBSET Members :
       /\ Members \ redo \subseteq cluster.stored
       /\ row' = [row EXCEPT !.status = "running", !.token = n, !.attempt = n]
       /\ exec' = [exec EXCEPT ![n] =
                     [Off EXCEPT !.pc = IF n = 1 THEN "insert" ELSE "reset",
                                 !.redo = IF n = 1 THEN {} ELSE redo, !.todo = redo]]
  /\ UNCHANGED <<kind, cluster, gate, rule, ruleTx, missed, reopened, reader, changes, faults>>

(* ReclaimStaleScans; the executor of the expired lease goes on.           *)
Reclaim ==
  /\ row.status = "running" /\ ~Import /\ ~row.cancel
  /\ row' = [row EXCEPT !.status = IF row.attempt < MaxAttempts THEN "pending" ELSE "failed",
                        !.token = 0]
  /\ UNCHANGED <<kind, cluster, gate, rule, ruleTx, missed, reopened, exec, reader, changes, faults>>

RequestScanCancellation ==
  /\ row.status \in {"pending", "running"}
  /\ row' = [row EXCEPT !.status = "cancelled", !.cancel = TRUE]
  /\ UNCHANGED <<kind, cluster, gate, rule, ruleTx, missed, reopened, exec, reader, changes, faults>>

-----------------------------------------------------------------------------
(* Users                                                                   *)

Change == changes < MaxChanges /\ changes' = changes + 1

(* updateFindingClusterStatus: a member's triage is its cluster's.         *)
Triage ==
  /\ Change
  /\ \E m \in cluster.stored :
       LET target == IF cluster.root = None THEN {m} ELSE cluster.stored IN
       \E reopen \in BOOLEAN :
         /\ cluster' = [cluster EXCEPT !.open = IF reopen THEN @ \cup target ELSE @ \ target]
         /\ reopened' = (reopened \/ reopen)
  /\ row' = [row EXCEPT !.rev = @ + 1]
  /\ UNCHANGED <<kind, gate, rule, ruleTx, missed, exec, reader, faults>>

(* A suppression is created, revoked or expires.  The transaction locks    *)
(* the repository, lists its scans, then locks and projects each.          *)
BeginRule ==
  /\ Change
  /\ ruleTx = "none"
  /\ ruleTx' = IF row.status = "absent" THEN "unlisted" ELSE "listed"
  /\ UNCHANGED <<kind, row, cluster, gate, rule, missed, reopened, exec, reader, faults>>

(* reselectSuppressedClusterPrimariesTx and what follows a promotion.      *)
Reselected(c) ==
  LET moved == [c EXCEPT !.root = IF @ = None THEN None ELSE Preferred(c)] IN
  IF moved.root = c.root THEN c
  ELSE IF row.pinned THEN Classified(moved)
  ELSE [moved EXCEPT !.key = [m \in Members |-> None]]

Projected(active) ==
  Reselected([cluster EXCEPT !.hidden = {m \in @ \cup cluster.stored :
                                           Hides(active, row.policy, m)}])

(* A change of any flag or primary counts, also when as many findings show *)
(* as before.                                                              *)
RowAfterRule_ByCount(c) ==   \* mutant: looks at the number of findings
  IF Cardinality(View(c)) = row.count THEN row
  ELSE [row EXCEPT !.rev = @ + 1, !.count = Cardinality(View(c))]
RowAfterRule(c) ==
  IF c = cluster THEN row
  ELSE [row EXCEPT !.rev = @ + 1, !.count = Cardinality(View(c))]

(* reconcileFindingSuppressionsTx: an executor's writes come before the    *)
(* lock on the scan, and are projected, or after the commit.               *)
CommitRule ==
  /\ ruleTx # "none"
  /\ rule' = ~rule
  /\ ruleTx' = "none"
  /\ missed' = (ruleTx = "unlisted" /\ row.status # "absent")
  /\ reopened' = (ruleTx # "listed" /\ reopened)
  /\ cluster' = IF ruleTx = "listed" THEN Projected(~rule) ELSE cluster
  /\ row' = RowAfterRule(cluster')
  /\ UNCHANGED <<kind, gate, exec, reader, changes, faults>>

-----------------------------------------------------------------------------
(* The executor: up to the classification                                  *)

(* resetting a tool that is to be repeated                                 *)
ResetTool(n) ==
  /\ At(n, "reset") /\ Owned(n)
  /\ IF exec[n].todo = {}
     THEN exec' = [exec EXCEPT ![n].pc = "insert", ![n].todo = exec[n].redo, ![n].redo = {}]
          /\ UNCHANGED <<row, cluster>>
     ELSE \E m \in exec[n].todo :
            /\ cluster' = Delete(cluster, m)
            /\ row' = [row EXCEPT !.rev = @ + 1]
            /\ exec' = [exec EXCEPT ![n].todo = @ \ {m}]
  /\ UNCHANGED <<kind, gate, rule, ruleTx, missed, reopened, reader, changes, faults>>

(* CreateFindingsForScanLease, one tool after another                      *)
InsertFindings(n) ==
  /\ At(n, "insert") /\ ~Import /\ Owned(n)
  /\ IF exec[n].todo = {}
     THEN Go(n, "collect") /\ UNCHANGED <<row, cluster>>
     ELSE \E m \in exec[n].todo :
            /\ cluster' = Insert(cluster, {m})
            /\ row' = [row EXCEPT !.rev = @ + 1]
            /\ exec' = [exec EXCEPT ![n].todo = @ \ {m}]
  /\ UNCHANGED <<kind, gate, rule, ruleTx, missed, reopened, reader, changes, faults>>

(* CreateFindings of an import asks for no lease; the clusters are made of *)
(* the rows as they were inserted.                                         *)
ImportFindings(n) ==
  /\ At(n, "insert") /\ Import
  /\ cluster' = Insert(cluster, Members)
  /\ row' = [row EXCEPT !.rev = @ + 1]
  /\ exec' = [exec EXCEPT ![n].pc = "capture", ![n].primary = Preferred(cluster')]
  /\ UNCHANGED <<kind, gate, rule, ruleTx, missed, reopened, reader, changes, faults>>

(* The aggregate is built from the evidence of all attempts.               *)
CollectEvidence(n) ==
  /\ At(n, "collect") /\ Owned(n)
  /\ exec' = [exec EXCEPT ![n].pc = "capture", ![n].primary = Preferred(cluster)]
  /\ UNCHANGED <<kind, row, cluster, gate, rule, ruleTx, missed, reopened, reader, changes, faults>>

(* CaptureScanIgnorePolicy: the first capture stays.                       *)
CaptureIgnorePolicy(n) ==
  /\ At(n, "capture") /\ Owned(n)
  /\ IF row.policy THEN UNCHANGED <<row, cluster>>
     ELSE /\ row' = [row EXCEPT !.policy = TRUE, !.rev = @ + 1]
          /\ cluster' = [cluster EXCEPT !.hidden = @ \cup (cluster.stored \cap Ignored)]
  /\ Go(n, "cluster")
  /\ UNCHANGED <<kind, gate, rule, ruleTx, missed, reopened, reader, changes, faults>>

AfterClustering(e) == IF e.ok THEN "baseline" ELSE "publish"
(* A statement failed: a worker goes on towards a failed scan with its     *)
(* evidence, an import gives up at once.                                   *)
Spoiled(e, next) ==
  [e EXCEPT !.ok = FALSE, !.why = "error", !.snap = NoSnapshot,
            !.pc = IF Import THEN "finalize" ELSE next]

(* FinalizeFindingClusters keeps the triage made since the evidence was    *)
(* read.  With a captured policy it selects the primary again; without one *)
(* it refuses a primary that no longer represents open evidence.           *)
FinalRoot_AsRead(primary) == primary   \* mutant: the primary is not chosen again
FinalRoot(primary) == IF row.policy THEN Preferred(cluster) ELSE primary

Unrepresented(primary) ==
  \E m \in cluster.stored : Visible(cluster, m) /\ ~Visible(cluster, primary)

FinalizeClusters(n) ==
  LET e == exec[n]
      final == [cluster EXCEPT !.root = FinalRoot(e.primary)]
  IN
  /\ At(n, "cluster") /\ Owned(n)
  /\ IF ~row.policy /\ Unrepresented(e.primary)
     THEN exec' = [exec EXCEPT ![n] = Spoiled(e, "publish")]
          /\ UNCHANGED <<row, cluster, reopened>>
     ELSE /\ cluster' = final
          /\ reopened' = FALSE
          /\ row' = [row EXCEPT !.rev = @ + 1]
          /\ exec' = [exec EXCEPT ![n].pc = AfterClustering(e), ![n].primary = None,
                                  ![n].count = Cardinality(View(final))]
  /\ UNCHANGED <<kind, gate, rule, ruleTx, missed, reader, changes, faults>>

(* PersistFindingBaseline waits for the repository's lock; the time of the *)
(* first attempt to get here stays.                                        *)
PersistBaseline(n) ==
  /\ At(n, "baseline") /\ Owned(n) /\ ruleTx = "none"
  /\ cluster' = Classified(cluster)
  /\ row' = IF row.pinned /\ cluster' = cluster THEN row
            ELSE [row EXCEPT !.pinned = TRUE, !.rev = @ + 1]
  /\ Go(n, "publish")
  /\ UNCHANGED <<kind, gate, rule, ruleTx, missed, reopened, reader, changes, faults>>

-----------------------------------------------------------------------------
(* The executor: publication                                               *)

(* publishScanResults: one snapshot for the report, the bundle and the     *)
(* gate.  A scan that has failed by now only gets its reports.             *)
PublishSnapshot(n) ==
  /\ At(n, "publish") /\ Owned(n)
  /\ exec' = [exec EXCEPT ![n].snap = Snapshot,
                          ![n].count = Cardinality(View(cluster)),
                          ![n].tries = @ + 1,
                          ![n].pc = IF exec[n].ok THEN "commit" ELSE "finalize"]
  /\ UNCHANGED <<kind, row, cluster, gate, rule, ruleTx, missed, reopened, reader, changes, faults>>

(* The findings are those of the snapshot.                                 *)
Unmoved_Trusted(n) == TRUE   \* mutant: the revision is not compared
Unmoved(n) == row.rev = exec[n].snap.rev

TriesLeft_OffByOne(n) == exec[n].tries + 1 < PublishTries   \* mutant: one try too few
TriesLeft(n) == exec[n].tries < PublishTries

(* completeScan: status, count and gate become visible together.  An AI    *)
(* assessment may follow a native scan.                                    *)
Completes(n) ==
  /\ At(n, "commit") /\ ruleTx = "none"
  /\ Owned(n) /\ Unmoved(n)
  /\ row' = [row EXCEPT !.status = "completed", !.token = 0, !.count = exec[n].count]
  /\ gate' = [exec[n].snap EXCEPT !.status = "completed"]

CompleteScan(n) ==
  /\ Completes(n)
  /\ \/ exec' = [exec EXCEPT ![n] = Off]
     \/ ~Import /\ exec' = [exec EXCEPT ![n].pc = "assess", ![n].primary = cluster.root]
  /\ UNCHANGED <<kind, cluster, rule, ruleTx, missed, reopened, reader, changes, faults>>

(* The commit succeeds and its answer is lost.                             *)
CompleteUnheard(n) ==
  /\ faults < MaxFaults /\ faults' = faults + 1
  /\ Completes(n)
  /\ exec' = [exec EXCEPT ![n] = Spoiled(exec[n], "finalize")]
  /\ UNCHANGED <<kind, cluster, rule, ruleTx, missed, reopened, reader, changes>>

(* ErrStaleFindings: another snapshot, or the scan fails of contention.    *)
RetryPublication(n) ==
  /\ At(n, "commit") /\ ruleTx = "none"
  /\ Owned(n) /\ ~Unmoved(n)
  /\ exec' = IF TriesLeft(n) THEN [exec EXCEPT ![n].pc = "publish", ![n].snap = NoSnapshot]
             ELSE [exec EXCEPT ![n].pc = "finalize", ![n].ok = FALSE, ![n].why = "contention"]
  /\ UNCHANGED <<kind, row, cluster, gate, rule, ruleTx, missed, reopened, reader, changes, faults>>

(* FinalizeScan of a failed scan; a worker then stores its gate.           *)
FinalizeScan(n) ==
  /\ At(n, "finalize") /\ Owned(n)
  /\ row' = [row EXCEPT !.status = "failed", !.token = 0, !.count = exec[n].count,
                        !.why = exec[n].why]
  /\ Go(n, IF Import THEN "off" ELSE "regate")
  /\ UNCHANGED <<kind, cluster, gate, rule, ruleTx, missed, reopened, reader, changes, faults>>

(* Every fenced write of an executor without the lease is refused, and it  *)
(* changes nothing more.                                                   *)
Superseded(n) ==
  /\ exec[n].pc \in Working /\ ~Owned(n)
  /\ ~(Import /\ At(n, "insert"))
  /\ exec' = [exec EXCEPT ![n] = Off]
  /\ UNCHANGED <<kind, row, cluster, gate, rule, ruleTx, missed, reopened, reader, changes, faults>>

(* A statement of the tail fails, or a tool's insert: that tool's findings *)
(* are lost to this attempt.                                               *)
StatementFails(n) ==
  /\ faults < MaxFaults /\ faults' = faults + 1
  /\ \/ /\ At(n, "insert")
        /\ \E m \in exec[n].todo :
             exec' = [exec EXCEPT ![n] = [Spoiled(exec[n], "insert") EXCEPT !.todo = @ \ {m}]]
     \/ At(n, "capture") /\ exec' = [exec EXCEPT ![n] = Spoiled(@, "cluster")]
     \/ At(n, "cluster") /\ exec' = [exec EXCEPT ![n] = Spoiled(@, "publish")]
     \/ At(n, "baseline") /\ exec' = [exec EXCEPT ![n] = Spoiled(@, "publish")]
     \/ exec[n].pc \in {"publish", "commit"}
        /\ exec' = [exec EXCEPT ![n] = Spoiled(@, "finalize")]
  /\ UNCHANGED <<kind, row, cluster, gate, rule, ruleTx, missed, reopened, reader, changes>>

-----------------------------------------------------------------------------
(* Gates and assessments after the end                                     *)

(* upsertQualityGateResult refuses an evaluation of another revision or    *)
(* status.                                                                 *)
UpsertGate(snap) ==
  gate' = IF snap.rev = row.rev /\ snap.status = row.status THEN snap ELSE gate

EvaluateFailed(n) ==
  /\ At(n, "regate")
  /\ exec' = [exec EXCEPT ![n].pc = "upsert", ![n].snap = Snapshot]
  /\ UNCHANGED <<kind, row, cluster, gate, rule, ruleTx, missed, reopened, reader, changes, faults>>

StoreFailedGate(n) ==
  /\ At(n, "upsert") /\ UpsertGate(exec[n].snap)
  /\ exec' = [exec EXCEPT ![n] = Off]
  /\ UNCHANGED <<kind, row, cluster, rule, ruleTx, missed, reopened, reader, changes, faults>>

(* GetScanGate, the two transactions of a request at any time; a request   *)
(* may end between them.                                                   *)
EvaluateGate ==
  /\ row.status # "absent"
  /\ reader' = Snapshot
  /\ UNCHANGED <<kind, row, cluster, gate, rule, ruleTx, missed, reopened, exec, changes, faults>>

StoreGate ==
  /\ reader # NoSnapshot /\ UpsertGate(reader)
  /\ reader' = NoSnapshot
  /\ UNCHANGED <<kind, row, cluster, rule, ruleTx, missed, reopened, exec, changes, faults>>

(* runAIAssessment: UpdateFinding projects the rule of the moment onto the *)
(* primary, UpdateScan writes the row as the executor remembers it.        *)
UpdateFinding(n) ==
  /\ At(n, "assess")
  /\ LET m == exec[n].primary IN
     cluster' = [cluster EXCEPT !.hidden = IF Hides(rule, row.policy, m) THEN @ \cup {m} ELSE @ \ {m}]
  /\ row' = [row EXCEPT !.rev = @ + 1]
  /\ Go(n, "record")
  /\ UNCHANGED <<kind, gate, rule, ruleTx, missed, reopened, reader, changes, faults>>

RecordAssessment(n) ==
  /\ At(n, "record")
  /\ row' = [row EXCEPT !.count = exec[n].count]
  /\ exec' = [exec EXCEPT ![n] = Off]
  /\ UNCHANGED <<kind, cluster, gate, rule, ruleTx, missed, reopened, reader, changes, faults>>

-----------------------------------------------------------------------------
Executor(n) ==
  \/ ResetTool(n) \/ InsertFindings(n) \/ ImportFindings(n) \/ CollectEvidence(n)
  \/ CaptureIgnorePolicy(n) \/ FinalizeClusters(n) \/ PersistBaseline(n)
  \/ PublishSnapshot(n) \/ CompleteScan(n) \/ CompleteUnheard(n) \/ RetryPublication(n)
  \/ FinalizeScan(n) \/ Superseded(n) \/ StatementFails(n)
  \/ EvaluateFailed(n) \/ StoreFailedGate(n) \/ UpdateFinding(n) \/ RecordAssessment(n)

Next ==
  \/ Create \/ Claim \/ Reclaim \/ RequestScanCancellation
  \/ Triage \/ BeginRule \/ CommitRule
  \/ EvaluateGate \/ StoreGate
  \/ \E n \in Attempts : Executor(n)

Spec == Init /\ [][Next]_vars

-----------------------------------------------------------------------------
(* Properties                                                              *)

(* Types: a revision and a count are unbounded, and a snapshot is of any    *)
(* moment.                                                                 *)
Identities == Members \cup {None}
Statuses == {"absent", "pending", "running"} \cup Ended
Reasons == {"none", "error", "contention"}
ScanRow == [status : Statuses, token : {0} \cup Attempts, attempt : {0} \cup Attempts,
            cancel : BOOLEAN, rev : Nat, policy : BOOLEAN, pinned : BOOLEAN,
            count : Nat, why : Reasons]
Findings == [stored : SUBSET Members, open : SUBSET Members, hidden : SUBSET Members,
             root : Identities, key : [Members -> Identities]]
Snapshots == [rev : Nat, status : Statuses, view : SUBSET (Members \X Identities)]
Memory == [pc : Working \cup {"off", "assess", "regate", "upsert", "record"},
           redo : SUBSET Members, todo : SUBSET Members, primary : Identities,
           ok : BOOLEAN, tries : 0..PublishTries, count : Nat, why : Reasons, snap : Snapshots]

(* Every variable is within its type, and an executor takes at most        *)
(* PublishTries snapshots (models.Scan, Finding, QualityGateResult).        *)
TypeOK ==
  /\ kind \in Kinds
  /\ row \in ScanRow /\ cluster \in Findings
  /\ gate \in Snapshots /\ reader \in Snapshots
  /\ exec \in [Attempts -> Memory]
  /\ {rule, missed, reopened} \subseteq BOOLEAN /\ ruleTx \in {"none", "listed", "unlisted"}
  /\ changes \in 0..MaxChanges /\ faults \in 0..MaxFaults

(* Everything a gate is evaluated on moves the findings revision: a stored *)
(* gate of the row's revision and status, the only one GetQualityGateResult*)
(* and ListQualityGateResults return, is the evaluation of the findings as *)
(* they are now.                                                           *)
GateCurrent ==
  gate.rev = row.rev /\ gate.status = row.status => gate.view = View(cluster)

(* A rule holds for every stored finding of the scans its transaction      *)
(* listed, and what is hidden has a reason.                                *)
RuleApplied ==
  ~missed => \A m \in cluster.stored :
               /\ rule /\ m \in Covered => m \in cluster.hidden
               /\ m \in cluster.hidden => Hides(rule, row.policy, m)

(* A completed scan hides no open evidence behind a primary that is        *)
(* suppressed or triaged, unless that evidence was reopened later, and its *)
(* members are classified as the primary they have now.                    *)
Represented ==
  row.status = "completed" =>
    \A m \in cluster.stored :
      /\ Visible(cluster, m) => Visible(cluster, cluster.root) \/ reopened
      /\ cluster.key[m] = cluster.root

(* Whoever inserts, captures, assesses or recovers while a rule changes,   *)
(* suppression, primaries and classification of the stored findings stay   *)
(* what the rule makes of them (finding_suppressions.go,                   *)
(* finding_clusters.go).                                                   *)
ProjectionCurrent == RuleApplied /\ (~missed => Represented)

(* The step that completes a scan publishes the whole result of one        *)
(* revision: every tool's findings, clustered, classified, under a policy, *)
(* their count, and a gate that is their evaluation (completeScan).        *)
CompletesWhole ==
  [][row.status # "completed" /\ row'.status = "completed" =>
       /\ gate'.rev = row'.rev /\ gate'.status = "completed"
       /\ gate'.view = View(cluster')
       /\ row'.count = Cardinality(View(cluster'))
       /\ row'.policy /\ cluster'.stored = Members /\ cluster'.root # None]_vars

(* A scan only fails of contention when its users changed its findings at  *)
(* least three times: the executor's own transactions, superseded          *)
(* executors, gate requests and assessments never cost it a try            *)
(* (publishScanResults, gates.go).                                         *)
OnlyContention == row.why = "contention" => changes >= PublishTries

=============================================================================
