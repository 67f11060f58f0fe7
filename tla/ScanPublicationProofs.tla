----------------------- MODULE ScanPublicationProofs -----------------------
(* What is proved of ScanPublication, for any findings, attempts, users    *)
(* and faults: the findings revision moves with everything a gate is       *)
(* evaluated on; a stored gate of the present revision is the gate of the  *)
(* present findings; only a whole import or scan is completed; a           *)
(* publication that gives up was overtaken each time; and suppression,     *)
(* primaries and classification stay what the rule makes of them (FlagInv, *)
(* ShownInv); and types.                                                   *)
EXTENDS ScanPublication, FiniteSetTheorems, WellFoundedInduction, TLAPS

-----------------------------------------------------------------------------
(* Records                                                                 *)

IsRow(r) == {"status", "token", "attempt", "cancel", "rev", "policy", "pinned", "count", "why"}
              \subseteq DOMAIN r
IsSnap(s) == {"rev", "status", "view"} \subseteq DOMAIN s
IsExec(e) == {"pc", "redo", "todo", "primary", "ok", "tries", "count", "why", "snap"}
               \subseteq DOMAIN e

Shape ==
  /\ IsRow(row) /\ row.rev \in Nat
  /\ IsSnap(gate) /\ IsSnap(reader)
  /\ DOMAIN exec = Attempts
  /\ \A n \in Attempts : IsExec(exec[n]) /\ IsSnap(exec[n].snap)

-----------------------------------------------------------------------------
(* The revision                                                            *)

(* A snapshot of the present revision is one of the present findings.      *)
Faith(s, rev, view) ==
  /\ s.rev \in Nat /\ s.rev <= rev
  /\ s.rev = rev => s.view = view
Faithful(s) == Faith(s, row.rev, View(cluster))
Sound(s) == IsSnap(s) /\ Faithful(s)

GateInv ==
  /\ Shape
  /\ row.rev = 0 => View(cluster) = {}
  /\ Faithful(gate) /\ Faithful(reader)
  /\ \A n \in Attempts : Faithful(exec[n].snap)

-----------------------------------------------------------------------------
(* What a step does to the row                                             *)
KeepsRev == IsRow(row') /\ row'.rev = row.rev /\ cluster' = cluster
MovesRev == IsRow(row') /\ row'.rev = row.rev + 1

LEMMA RowSteps ==
  ASSUME Shape, Next
  PROVE  KeepsRev \/ MovesRev
<1> USE DEF Shape, IsRow, KeepsRev, MovesRev
<1>1. CASE Create
  BY <1>1 DEF Create
<1>2. CASE Claim
  BY <1>2 DEF Claim
<1>3. CASE Reclaim
  BY <1>3 DEF Reclaim
<1>4. CASE RequestScanCancellation
  BY <1>4 DEF RequestScanCancellation
<1>5. CASE Triage
  BY <1>5 DEF Triage
<1>6. CASE BeginRule
  BY <1>6 DEF BeginRule
<1>7. CASE CommitRule
  <2>1. row' = RowAfterRule(cluster')
    BY <1>7 DEF CommitRule
  <2>2. CASE cluster' = cluster
    BY <2>1, <2>2 DEF RowAfterRule
  <2>3. CASE cluster' # cluster
    BY <2>1, <2>3 DEF RowAfterRule
  <2> QED BY <2>2, <2>3
<1>8. CASE EvaluateGate \/ StoreGate
  BY <1>8 DEF EvaluateGate, StoreGate
<1>9. ASSUME NEW n \in Attempts, Executor(n)
      PROVE  KeepsRev \/ MovesRev
  <2>1. CASE ResetTool(n)
    BY <2>1 DEF ResetTool
  <2>2. CASE InsertFindings(n)
    BY <2>2 DEF InsertFindings
  <2>3. CASE ImportFindings(n)
    BY <2>3 DEF ImportFindings
  <2>4. CASE CollectEvidence(n)
    BY <2>4 DEF CollectEvidence
  <2>5. CASE CaptureIgnorePolicy(n)
    BY <2>5 DEF CaptureIgnorePolicy
  <2>6. CASE FinalizeClusters(n)
    BY <2>6 DEF FinalizeClusters
  <2>7. CASE PersistBaseline(n)
    BY <2>7 DEF PersistBaseline
  <2>8. CASE PublishSnapshot(n) \/ RetryPublication(n) \/ Superseded(n) \/ StatementFails(n)
    BY <2>8 DEF PublishSnapshot, RetryPublication, Superseded, StatementFails
  <2>9. CASE CompleteScan(n) \/ CompleteUnheard(n)
    BY <2>9 DEF CompleteScan, CompleteUnheard, Completes
  <2>10. CASE FinalizeScan(n)
    BY <2>10 DEF FinalizeScan
  <2>11. CASE EvaluateFailed(n) \/ StoreFailedGate(n)
    BY <2>11 DEF EvaluateFailed, StoreFailedGate
  <2>12. CASE UpdateFinding(n)
    BY <2>12 DEF UpdateFinding
  <2>13. CASE RecordAssessment(n)
    BY <2>13 DEF RecordAssessment
  <2> QED
    BY <1>9, <2>1, <2>2, <2>3, <2>4, <2>5, <2>6, <2>7, <2>8, <2>9, <2>10, <2>11, <2>12, <2>13
       DEF Executor
<1> QED
  BY <1>1, <1>2, <1>3, <1>4, <1>5, <1>6, <1>7, <1>8, <1>9 DEF Next

-----------------------------------------------------------------------------
(* What a step leaves in a snapshot's place is sound when the step is      *)
(* taken: an older one, the present one, or none.                          *)
LEMMA NoSnapshotSound ==
  ASSUME GateInv
  PROVE  Sound(NoSnapshot)
BY DEF GateInv, Shape, Sound, IsSnap, Faithful, Faith, NoSnapshot

LEMMA SnapshotSound ==
  ASSUME GateInv
  PROVE  Sound(Snapshot)
BY DEF GateInv, Shape, Sound, IsSnap, Faithful, Faith, Snapshot

LEMMA Restatused ==
  ASSUME GateInv, NEW s, Sound(s), NEW status
  PROVE  Sound([s EXCEPT !.status = status])
BY DEF Sound, IsSnap, Faithful, Faith

(* The memory of one executor changes, and its snapshot is sound.          *)
Memories(f) == DOMAIN f = Attempts /\ \A n \in Attempts : IsExec(f[n]) /\ Sound(f[n].snap)

LEMMA OneMemory ==
  ASSUME GateInv, NEW n \in Attempts, NEW e, IsExec(e), Sound(e.snap)
  PROVE  Memories([exec EXCEPT ![n] = e])
BY DEF GateInv, Shape, Memories, Sound

LEMMA OldMemories ==
  ASSUME GateInv
  PROVE  Memories(exec)
BY DEF GateInv, Shape, Memories, Sound

LEMMA OffSound ==
  ASSUME GateInv
  PROVE  IsExec(Off) /\ Sound(Off.snap)
BY NoSnapshotSound DEF Off, IsExec

LEMMA SpoiledSound ==
  ASSUME GateInv, NEW n \in Attempts, NEW next
  PROVE  IsExec(Spoiled(exec[n], next)) /\ Sound(Spoiled(exec[n], next).snap)
<1>1. IsExec(exec[n])
  BY DEF GateInv, Shape
<1> QED BY <1>1, NoSnapshotSound DEF Spoiled, IsExec

LEMMA KeptMemory ==
  ASSUME GateInv, NEW n \in Attempts, NEW f,
         DOMAIN f = Attempts, \A m \in Attempts \ {n} : f[m] = exec[m],
         IsExec(f[n]), f[n].snap = exec[n].snap \/ f[n].snap = NoSnapshot
  PROVE  Memories(f)
<1>1. IsExec(exec[n]) /\ Sound(exec[n].snap) /\ Sound(NoSnapshot)
  BY NoSnapshotSound DEF GateInv, Shape, Sound
<1>2. Sound(f[n].snap)
  BY <1>1
<1> QED BY <1>2, OldMemories DEF Memories

(* Steps that leave the gate and the reader alone and bring no snapshot.   *)
Plain == gate' = gate /\ reader' = reader /\ Memories(exec')

LEMMA PlainUser ==
  ASSUME GateInv,
         Create \/ Claim \/ Reclaim \/ RequestScanCancellation \/ Triage \/ BeginRule \/ CommitRule
  PROVE  Plain
<1>1. CASE Create
  <2>1. 1 \in Attempts
    BY PublicationAssumption DEF PublicationAssumption, Attempts
  <2>2. DOMAIN exec' = Attempts /\ \A m \in Attempts \ {1} : exec'[m] = exec[m]
    BY <1>1 DEF Create, GateInv, Shape
  <2>3. IsExec(exec'[1]) /\ (exec'[1].snap = exec[1].snap \/ exec'[1].snap = NoSnapshot)
    BY <1>1, <2>1 DEF Create, GateInv, Shape, IsExec, Off
  <2> QED BY <1>1, <2>1, <2>2, <2>3, KeptMemory DEF Create, Plain
<1>2. CASE Claim
  <2> DEFINE n == row.attempt + 1
  <2>1. PICK redo \in SUBSET Members :
          exec' = [exec EXCEPT ![n] =
                     [Off EXCEPT !.pc = IF n = 1 THEN "insert" ELSE "reset",
                                 !.redo = IF n = 1 THEN {} ELSE redo, !.todo = redo]]
    BY <1>2 DEF Claim
  <2> HIDE DEF n
  <2>2. CASE n \in Attempts
    <3>1. DOMAIN exec' = Attempts /\ \A m \in Attempts \ {n} : exec'[m] = exec[m]
      BY <2>1 DEF GateInv, Shape
    <3>2. IsExec(exec'[n]) /\ exec'[n].snap = NoSnapshot
      BY <2>1, <2>2 DEF GateInv, Shape, IsExec, Off
    <3> QED BY <1>2, <2>2, <3>1, <3>2, KeptMemory DEF Claim, Plain
  <2>3. CASE n \notin Attempts
    <3>1. DOMAIN exec' = Attempts /\ \A m \in Attempts : exec'[m] = exec[m]
      BY <2>1, <2>3 DEF GateInv, Shape
    <3> QED BY <1>2, <3>1, OldMemories DEF Claim, Plain, Memories
  <2> QED BY <2>2, <2>3
<1>3. CASE Reclaim
  BY <1>3, OldMemories DEF Reclaim, Plain
<1>4. CASE RequestScanCancellation
  BY <1>4, OldMemories DEF RequestScanCancellation, Plain
<1>5. CASE Triage
  BY <1>5, OldMemories DEF Triage, Plain
<1>6. CASE BeginRule
  BY <1>6, OldMemories DEF BeginRule, Plain
<1>7. CASE CommitRule
  BY <1>7, OldMemories DEF CommitRule, Plain
<1> QED BY <1>1, <1>2, <1>3, <1>4, <1>5, <1>6, <1>7

(* An executor's step changes its own memory only.                         *)
LEMMA OwnMemory ==
  ASSUME GateInv, NEW n \in Attempts, Executor(n)
  PROVE  DOMAIN exec' = Attempts /\ \A m \in Attempts \ {n} : exec'[m] = exec[m]
<1> USE DEF GateInv, Shape
<1>1. CASE ResetTool(n)
  BY <1>1 DEF ResetTool
<1>2. CASE InsertFindings(n)
  BY <1>2 DEF InsertFindings, Go
<1>3. CASE ImportFindings(n)
  BY <1>3 DEF ImportFindings
<1>4. CASE CollectEvidence(n)
  BY <1>4 DEF CollectEvidence
<1>5. CASE CaptureIgnorePolicy(n)
  BY <1>5 DEF CaptureIgnorePolicy, Go
<1>6. CASE FinalizeClusters(n)
  BY <1>6 DEF FinalizeClusters
<1>7. CASE PersistBaseline(n)
  BY <1>7 DEF PersistBaseline, Go
<1>8. CASE PublishSnapshot(n)
  BY <1>8 DEF PublishSnapshot
<1>9. CASE CompleteScan(n) \/ CompleteUnheard(n)
  BY <1>9 DEF CompleteScan, CompleteUnheard
<1>10. CASE RetryPublication(n)
  BY <1>10 DEF RetryPublication
<1>11. CASE FinalizeScan(n)
  BY <1>11 DEF FinalizeScan, Go
<1>12. CASE Superseded(n)
  BY <1>12 DEF Superseded
<1>13. CASE StatementFails(n)
  BY <1>13 DEF StatementFails
<1>14. CASE EvaluateFailed(n) \/ StoreFailedGate(n)
  BY <1>14 DEF EvaluateFailed, StoreFailedGate
<1>15. CASE UpdateFinding(n) \/ RecordAssessment(n)
  BY <1>15 DEF UpdateFinding, RecordAssessment, Go
<1> QED
  BY <1>1, <1>2, <1>3, <1>4, <1>5, <1>6, <1>7, <1>8, <1>9, <1>10, <1>11, <1>12, <1>13, <1>14, <1>15
     DEF Executor

LEMMA PlainExecutor ==
  ASSUME GateInv, NEW n \in Attempts,
         \/ ResetTool(n) \/ InsertFindings(n) \/ ImportFindings(n) \/ CollectEvidence(n)
         \/ CaptureIgnorePolicy(n) \/ FinalizeClusters(n) \/ PersistBaseline(n)
         \/ RetryPublication(n) \/ FinalizeScan(n) \/ Superseded(n) \/ StatementFails(n)
         \/ UpdateFinding(n) \/ RecordAssessment(n)
  PROVE  Plain
<1> DEFINE Own == IsExec(exec'[n]) /\ (exec'[n].snap = exec[n].snap \/ exec'[n].snap = NoSnapshot)
<1>0. DOMAIN exec' = Attempts /\ \A m \in Attempts \ {n} : exec'[m] = exec[m]
  BY OwnMemory DEF Executor
<1>1. gate' = gate /\ reader' = reader
  BY DEF ResetTool, InsertFindings, ImportFindings, CollectEvidence, CaptureIgnorePolicy,
         FinalizeClusters, PersistBaseline, RetryPublication, FinalizeScan, Superseded,
         StatementFails, UpdateFinding, RecordAssessment
<1>2. Own
  <2> USE DEF GateInv, Shape, IsExec
  <2>1. CASE ResetTool(n)
    BY <2>1 DEF ResetTool
  <2>2. CASE InsertFindings(n)
    BY <2>2 DEF InsertFindings, Go
  <2>3. CASE ImportFindings(n)
    BY <2>3 DEF ImportFindings
  <2>4. CASE CollectEvidence(n)
    BY <2>4 DEF CollectEvidence
  <2>5. CASE CaptureIgnorePolicy(n)
    BY <2>5 DEF CaptureIgnorePolicy, Go
  <2>6. CASE FinalizeClusters(n)
    <3> DEFINE many == Cardinality(View([cluster EXCEPT !.root = FinalRoot(exec[n].primary)]))
    <3>1. \/ exec' = [exec EXCEPT ![n] = Spoiled(exec[n], "publish")]
          \/ exec' = [exec EXCEPT ![n].pc = AfterClustering(exec[n]), ![n].primary = None,
                                  ![n].count = many]
      BY <2>6 DEF FinalizeClusters
    <3> HIDE DEF many
    <3>2. CASE exec' = [exec EXCEPT ![n] = Spoiled(exec[n], "publish")]
      BY <3>2 DEF Spoiled
    <3>3. CASE exec' = [exec EXCEPT ![n].pc = AfterClustering(exec[n]), ![n].primary = None,
                                    ![n].count = many]
      BY <3>3
    <3> QED BY <3>1, <3>2, <3>3
  <2>7. CASE PersistBaseline(n)
    BY <2>7 DEF PersistBaseline, Go
  <2>8. CASE RetryPublication(n)
    BY <2>8 DEF RetryPublication
  <2>9. CASE FinalizeScan(n)
    BY <2>9 DEF FinalizeScan, Go
  <2>10. CASE Superseded(n)
    BY <2>10 DEF Superseded, Off
  <2>11. CASE StatementFails(n)
    BY ZenonT(30), <2>11 DEF StatementFails, Spoiled
  <2>12. CASE UpdateFinding(n) \/ RecordAssessment(n)
    BY <2>12 DEF UpdateFinding, RecordAssessment, Go, Off
  <2> QED
    BY <2>1, <2>2, <2>3, <2>4, <2>5, <2>6, <2>7, <2>8, <2>9, <2>10, <2>11, <2>12
<1>3. Memories(exec')
  BY <1>0, <1>2, KeptMemory
<1> QED BY <1>1, <1>3 DEF Plain

-----------------------------------------------------------------------------
(* The steps that take, store or drop a snapshot                           *)

Loaded == Sound(gate') /\ Sound(reader') /\ Memories(exec')

LEMMA SnapSteps ==
  ASSUME GateInv, Next
  PROVE  Loaded
<1>0. Sound(gate) /\ Sound(reader) /\ \A n \in Attempts : IsExec(exec[n]) /\ Sound(exec[n].snap)
  BY DEF GateInv, Shape, Sound
<1>1. CASE Plain
  BY <1>0, <1>1 DEF Plain, Loaded
<1>2. CASE EvaluateGate
  BY <1>0, <1>2, SnapshotSound, OldMemories DEF EvaluateGate, Loaded
<1>3. CASE StoreGate
  BY <1>0, <1>3, NoSnapshotSound, OldMemories DEF StoreGate, UpsertGate, Loaded
<1>4. ASSUME NEW n \in Attempts, PublishSnapshot(n)
      PROVE  Loaded
  <2>1. IsExec(exec'[n]) /\ exec'[n].snap = Snapshot
    BY <1>0, <1>4 DEF PublishSnapshot, IsExec, GateInv, Shape
  <2>2. Memories(exec')
    BY <1>4, <2>1, OwnMemory, SnapshotSound, OldMemories DEF Executor, Memories
  <2> QED BY <1>0, <1>4, <2>2 DEF PublishSnapshot, Loaded
<1>5. ASSUME NEW n \in Attempts, CompleteScan(n) \/ CompleteUnheard(n)
      PROVE  Loaded
  <2>1. Sound(gate')
    BY <1>0, <1>5, Restatused DEF CompleteScan, CompleteUnheard, Completes
  <2>2. IsExec(exec'[n]) /\ (exec'[n].snap = exec[n].snap \/ exec'[n].snap = NoSnapshot)
    <3>1. CASE CompleteScan(n)
      BY <1>0, <3>1 DEF CompleteScan, IsExec, Off, GateInv, Shape
    <3>2. CASE CompleteUnheard(n)
      BY <1>0, <3>2 DEF CompleteUnheard, IsExec, Spoiled, GateInv, Shape
    <3> QED BY <1>5, <3>1, <3>2
  <2>3. Memories(exec')
    BY <1>5, <2>2, OwnMemory, KeptMemory DEF Executor
  <2> QED BY <1>0, <1>5, <2>1, <2>3 DEF CompleteScan, CompleteUnheard, Loaded
<1>6. ASSUME NEW n \in Attempts, EvaluateFailed(n)
      PROVE  Loaded
  <2>1. IsExec(exec'[n]) /\ exec'[n].snap = Snapshot
    BY <1>0, <1>6 DEF EvaluateFailed, IsExec, GateInv, Shape
  <2>2. Memories(exec')
    BY <1>6, <2>1, OwnMemory, SnapshotSound, OldMemories DEF Executor, Memories
  <2> QED BY <1>0, <1>6, <2>2 DEF EvaluateFailed, Loaded
<1>7. ASSUME NEW n \in Attempts, StoreFailedGate(n)
      PROVE  Loaded
  <2>1. IsExec(exec'[n]) /\ exec'[n].snap = NoSnapshot
    BY <1>0, <1>7 DEF StoreFailedGate, IsExec, Off, GateInv, Shape
  <2>2. Memories(exec')
    BY <1>7, <2>1, OwnMemory, KeptMemory DEF Executor
  <2> QED BY <1>0, <1>7, <2>2 DEF StoreFailedGate, UpsertGate, Loaded
<1>8. CASE Create \/ Claim \/ Reclaim \/ RequestScanCancellation \/ Triage \/ BeginRule \/ CommitRule
  BY <1>1, <1>8, PlainUser
<1>9. ASSUME NEW n \in Attempts, Executor(n)
      PROVE  Loaded
  BY <1>1, <1>4, <1>5, <1>6, <1>7, <1>9, PlainExecutor DEF Executor
<1> QED
  BY <1>2, <1>3, <1>8, <1>9 DEF Next

(* A snapshot stays sound.                                                 *)
LEMMA Carried ==
  ASSUME Shape, KeepsRev \/ MovesRev, NEW s, Sound(s)
  PROVE  Faith(s, row.rev', View(cluster)')
BY DEF Shape, KeepsRev, MovesRev, Sound, Faithful, Faith, View

LEMMA Inductive ==
  ASSUME GateInv, [Next]_vars
  PROVE  GateInv'
<1>1. CASE Next
  <2>1. Loaded /\ (KeepsRev \/ MovesRev)
    BY <1>1, SnapSteps, RowSteps DEF GateInv
  <2>2. Shape'
    BY <2>1 DEF GateInv, Shape, Loaded, KeepsRev, MovesRev, Memories, Sound
  <2>3. (row.rev = 0 => View(cluster) = {})'
    BY <2>1 DEF GateInv, Shape, KeepsRev, MovesRev, View
  <2>4. Faithful(gate)' /\ Faithful(reader)'
    BY <2>1, Carried DEF GateInv, Loaded, Faithful
  <2>5. (\A n \in Attempts : Faithful(exec[n].snap))'
    BY <2>1, Carried DEF GateInv, Loaded, Memories, Faithful
  <2> QED BY <2>2, <2>3, <2>4, <2>5 DEF GateInv
<1>2. CASE UNCHANGED vars
  BY <1>2 DEF vars, GateInv, Shape, Faithful, View
<1> QED BY <1>1, <1>2

LEMMA Initially ==
  ASSUME Init
  PROVE  GateInv
BY DEF Init, GateInv, Shape, IsRow, IsSnap, IsExec, Faithful, Faith, View, Primaries,
       NoScan, NoFindings, NoSnapshot, Off

LEMMA Invariance == Spec => []GateInv
<1>1. Init => GateInv
  BY Initially
<1>2. GateInv /\ [Next]_vars => GateInv'
  BY Inductive
<1> QED BY <1>1, <1>2, PTL DEF Spec

(* The gate that readers are given is the evaluation of the findings as    *)
(* they are, whoever triages, suppresses, reclaims or completes meanwhile  *)
(* (upsertQualityGateResult, completeScan, GetQualityGateResult).          *)
THEOREM GateCurrentHolds == Spec => []GateCurrent
<1>1. GateInv => GateCurrent
  BY DEF GateInv, Faithful, Faith, GateCurrent
<1> QED BY <1>1, Invariance, PTL

(* The revision only grows, and findings change with it only.              *)
RevisionMoves ==
  [][(row'.rev = row.rev /\ cluster' = cluster) \/ row'.rev = row.rev + 1]_vars

(* No transaction of an executor, a user or a reader changes the findings, *)
(* their suppression, primaries or classification without moving the       *)
(* revision (advanceFindingsRevision), nor takes it back.                  *)
THEOREM RevisionMovesHolds == Spec => RevisionMoves
<1>1. GateInv /\ [Next]_vars => [(row'.rev = row.rev /\ cluster' = cluster) \/ row'.rev = row.rev + 1]_vars
  BY RowSteps DEF GateInv, KeepsRev, MovesRev
<1> QED BY <1>1, Invariance, PTL DEF Spec, RevisionMoves

-----------------------------------------------------------------------------
(* What the operators do to the findings                                   *)

IsCluster(c) ==
  /\ {"stored", "open", "hidden", "root", "key"} \subseteq DOMAIN c
  /\ c.stored \subseteq Members

(* Of finitely many members one is the most severe: without the first one  *)
(* looked at, a least set with none would have one, which that one beats.  *)
LEMMA SeverestExists ==
  ASSUME NEW S \in SUBSET Members, S # {}
  PROVE  \E a \in S : \A b \in S : Severity[b] <= Severity[a]
<1> DEFINE Beaten(T) == \A a \in T : \E b \in T : ~(Severity[b] <= Severity[a])
           Bad == {T \in SUBSET Members : T # {} /\ Beaten(T)}
           Sizes == {Cardinality(T) : T \in Bad}
<1>1. \A T \in SUBSET Members : IsFiniteSet(T) /\ Cardinality(T) \in Nat
  BY PublicationAssumption, FS_Subset, FS_CardinalityType DEF PublicationAssumption
<1>2. SUFFICES ASSUME Bad # {} PROVE FALSE
  OBVIOUS
<1>3. Sizes \in SUBSET Nat /\ Sizes # {}
  BY <1>1, <1>2
<1>4. PICK n \in Sizes : \A m \in Sizes : ~(<<m, n>> \in OpToRel(<, Nat))
  BY <1>3, NatLessThanWellFounded, WFMin
<1>5. PICK T \in Bad : n = Cardinality(T)
  OBVIOUS
<1>6. \A R \in Bad : ~(Cardinality(R) < Cardinality(T))
  BY <1>1, <1>4, <1>5 DEF OpToRel
<1>7. PICK x \in T : TRUE
  OBVIOUS
<1> DEFINE R == T \ {x}
<1>8. R \in SUBSET Members /\ Cardinality(R) < Cardinality(T)
  <2>1. Cardinality(R) = Cardinality(T) - 1 /\ R \in SUBSET Members
    BY <1>1, FS_RemoveElement
  <2>2. QED
    BY <1>1, <2>1
<1>9. R \notin Bad
  BY <1>6, <1>8
<1>10. \A m \in T : Severity[m] \in Nat
  BY PublicationAssumption DEF PublicationAssumption
<1>11. CASE R = {}
  BY <1>10, <1>11 DEF Beaten
<1>12. CASE R # {}
  <2>1. PICK a \in R : \A b \in R : Severity[b] <= Severity[a]
    BY <1>8, <1>9, <1>12
  <2>2. CASE Severity[x] <= Severity[a]
    <3>1. \A b \in T : Severity[b] <= Severity[a]
      BY <2>1, <2>2
    <3>2. QED
      BY <3>1
  <2>3. CASE ~(Severity[x] <= Severity[a])
    <3>1. Severity[a] <= Severity[x] /\ Severity[x] <= Severity[x]
      BY <1>10, <2>3
    <3>2. \A b \in T : Severity[b] <= Severity[x]
      BY <1>10, <2>1, <3>1
    <3>3. QED
      BY <3>2
  <2>4. QED
    BY <2>2, <2>3
<1>13. QED
  BY <1>11, <1>12

LEMMA MostPreferred ==
  ASSUME NEW c, IsCluster(c), c.stored # {}
  PROVE  \E a \in c.stored : \A b \in c.stored \ {a} : PreferPrimary(c, a, b)
<1> DEFINE seen == {m \in c.stored : Visible(c, m)}
           best == IF seen # {} THEN seen ELSE c.stored
<1>1. best # {} /\ best \in SUBSET Members /\ best \subseteq c.stored
  BY DEF IsCluster
<1>2. PICK a \in best : \A b \in best : Severity[b] <= Severity[a]
  BY <1>1, SeverestExists
<1>3. ASSUME NEW b \in c.stored \ {a}
      PROVE  PreferPrimary(c, a, b)
  <2>1. a \in Members /\ b \in Members /\ a # b
    BY <1>1, <1>2 DEF IsCluster
  <2>2. Severity[a] \in Nat /\ Severity[b] \in Nat /\ Severity[a] # Severity[b]
    BY <2>1, PublicationAssumption DEF PublicationAssumption
  <2>3. CASE b \in best
    <3>1. Severity[a] > Severity[b]
      BY <1>2, <2>2, <2>3
    <3>2. Visible(c, a) = Visible(c, b)
      BY <1>2, <2>3 DEF Visible
    <3> QED BY <3>1, <3>2 DEF PreferPrimary
  <2>4. CASE b \notin best
    <3>1. Visible(c, a) /\ ~Visible(c, b)
      BY <1>2, <2>4
    <3> QED BY <3>1 DEF PreferPrimary
  <2> QED BY <2>3, <2>4
<1>4. a \in c.stored /\ \A b \in c.stored \ {a} : PreferPrimary(c, a, b)
  BY <1>1, <1>2, <1>3
<1> QED BY <1>4

LEMMA PreferredExists ==
  ASSUME NEW c, IsCluster(c), c.stored # {}
  PROVE  Preferred(c) \in c.stored
BY MostPreferred DEF Preferred

LEMMA InsertShape ==
  ASSUME NEW c, IsCluster(c), NEW new \in SUBSET Members
  PROVE  /\ IsCluster(Insert(c, new))
         /\ Insert(c, new).stored = c.stored \cup new /\ Insert(c, new).root = c.root
BY DEF IsCluster, Insert

LEMMA DeleteShape ==
  ASSUME NEW c, IsCluster(c), NEW m
  PROVE  IsCluster(Delete(c, m)) /\ Delete(c, m).stored = c.stored \ {m}
BY DEF IsCluster, Delete

LEMMA ClassifiedShape ==
  ASSUME NEW c, IsCluster(c)
  PROVE  /\ IsCluster(Classified(c))
         /\ Classified(c).stored = c.stored /\ Classified(c).root = c.root
BY DEF IsCluster, Classified

LEMMA ReselectedShape ==
  ASSUME NEW c, IsCluster(c)
  PROVE  /\ IsCluster(Reselected(c)) /\ Reselected(c).stored = c.stored
         /\ c.root # None /\ c.stored # {} => Reselected(c).root # None
<1> DEFINE moved == [c EXCEPT !.root = IF @ = None THEN None ELSE Preferred(c)]
<1>1. IsCluster(moved) /\ moved.stored = c.stored
  BY DEF IsCluster
<1>2. c.root # None /\ c.stored # {} => moved.root # None
  <2>1. c.root # None => moved.root = Preferred(c)
    BY DEF IsCluster
  <2>2. None \notin Members
    BY PublicationAssumption DEF PublicationAssumption
  <2> QED BY <2>1, <2>2, PreferredExists DEF IsCluster
<1> HIDE DEF moved
<1>3. Reselected(c) = IF moved.root = c.root THEN c
                      ELSE IF row.pinned THEN Classified(moved)
                      ELSE [moved EXCEPT !.key = [m \in Members |-> None]]
  BY DEF Reselected, moved
<1>4. CASE moved.root = c.root
  BY <1>3, <1>4
<1>5. CASE moved.root # c.root /\ row.pinned
  BY <1>1, <1>2, <1>3, <1>5, ClassifiedShape
<1>6. CASE moved.root # c.root /\ ~row.pinned
  BY <1>1, <1>2, <1>3, <1>6 DEF IsCluster
<1> QED BY <1>4, <1>5, <1>6

LEMMA ProjectedShape ==
  ASSUME IsCluster(cluster), NEW active
  PROVE  /\ IsCluster(Projected(active)) /\ Projected(active).stored = cluster.stored
         /\ cluster.root # None /\ cluster.stored # {} => Projected(active).root # None
<1> DEFINE c == [cluster EXCEPT !.hidden = {m \in @ \cup cluster.stored : Hides(active, row.policy, m)}]
<1>1. IsCluster(c) /\ c.stored = cluster.stored /\ c.root = cluster.root
  BY DEF IsCluster
<1> HIDE DEF c
<1>2. Projected(active) = Reselected(c)
  BY DEF Projected, c
<1> QED BY <1>1, <1>2, ReselectedShape

-----------------------------------------------------------------------------
(* What an executor has made of the findings by the station it is at       *)

Collected == {"collect", "capture", "cluster", "baseline", "publish", "commit"}
Captured == {"cluster", "baseline", "publish", "commit"}
Clustered == {"baseline", "publish", "commit"}

(* While no statement of it failed and the lease is its own.               *)
Intact(n) ==
  /\ exec[n].todo \subseteq Members /\ exec[n].redo \subseteq Members
  /\ exec[n].pc \in Captured /\ exec[n].ok => row.policy
  /\ exec[n].pc = "commit" => exec[n].ok /\ exec[n].count = Cardinality(exec[n].snap.view)
  /\ Owned(n) /\ exec[n].ok =>
       /\ exec[n].pc = "reset" => /\ exec[n].todo \subseteq exec[n].redo
                                  /\ Members \ exec[n].redo \subseteq cluster.stored
       /\ exec[n].pc = "insert" => Members \ exec[n].todo \subseteq cluster.stored
       /\ exec[n].pc \in Collected => cluster.stored = Members
       /\ exec[n].pc \in Clustered => cluster.root # None

(* An import has one executor.                                             *)
Alone ==
  Import => /\ row.status # "pending" /\ exec[1].pc # "reset"
            /\ \A n \in Attempts \ {1} : exec[n].pc = "off"

StageInv ==
  /\ IsCluster(cluster) /\ Alone
  /\ \A n \in Attempts : Intact(n)

(* What another's step leaves to an executor.                              *)
Frame(k) ==
  /\ exec'[k] = exec[k]
  /\ row.policy => row'.policy
  /\ Owned(k)' /\ exec[k].pc \in Working =>
       /\ Owned(k)
       /\ cluster.stored \subseteq cluster'.stored
       /\ cluster.root # None /\ cluster.stored # {} => cluster'.root # None

LEMMA FrameKeeps ==
  ASSUME NEW k, Intact(k), Frame(k), IsCluster(cluster')
  PROVE  Intact(k)'
<1>1. Members # {}
  BY PublicationAssumption DEF PublicationAssumption
<1>2. /\ exec'[k].todo \subseteq Members /\ exec'[k].redo \subseteq Members
      /\ exec'[k].pc \in Captured /\ exec'[k].ok => row'.policy
      /\ exec'[k].pc = "commit" => exec'[k].ok /\ exec'[k].count = Cardinality(exec'[k].snap.view)
  BY DEF Intact, Frame
<1>3. ASSUME Owned(k)', exec'[k].ok
      PROVE  /\ exec'[k].pc = "reset" => /\ exec'[k].todo \subseteq exec'[k].redo
                                         /\ Members \ exec'[k].redo \subseteq cluster'.stored
             /\ exec'[k].pc = "insert" => Members \ exec'[k].todo \subseteq cluster'.stored
             /\ exec'[k].pc \in Collected => cluster'.stored = Members
             /\ exec'[k].pc \in Clustered => cluster'.root # None
  BY <1>1, <1>3 DEF Intact, Frame, IsCluster, Working, Collected, Clustered
<1> QED BY <1>2, <1>3 DEF Intact

(* The lease is one executor's.                                            *)
LEMMA OneOwner ==
  ASSUME GateInv, StageInv, NEW n \in Attempts, NEW k \in Attempts,
         Owned(n), Owned(k), exec[n].pc # "off", exec[k].pc # "off"
  PROVE  n = k
BY DEF StageInv, Alone, Owned, Token

-----------------------------------------------------------------------------
(* The steps of users, workers and readers                                 *)

LEMMA StageUser ==
  ASSUME GateInv, StageInv,
         \/ Create \/ Claim \/ Reclaim \/ RequestScanCancellation
         \/ Triage \/ BeginRule \/ CommitRule \/ EvaluateGate \/ StoreGate
  PROVE  StageInv'
<1>0. 1 \in Attempts
  BY PublicationAssumption DEF PublicationAssumption, Attempts
<1> USE DEF GateInv, Shape, IsRow
<1>1. CASE Create
  <2>1. IsCluster(cluster')
    BY <1>1 DEF Create, StageInv
  <2>2. Alone'
    BY <1>0, <1>1 DEF Create, StageInv, Alone, Import, Off, IsExec
  <2>3. ASSUME NEW k \in Attempts
        PROVE  Intact(k)'
    <3>1. Intact(k)
      BY DEF StageInv
    <3>2. CASE ~Import
      BY <1>1, <2>1, <3>1, <3>2, FrameKeeps DEF Create, Frame, Owned
    <3>3. CASE Import /\ k # 1
      BY <1>1, <2>1, <3>1, <3>3, FrameKeeps DEF Create, Frame, StageInv, Alone, Working
    <3>4. CASE Import /\ k = 1
      BY <1>0, <1>1, <3>4 DEF Create, Intact, Off, Collected, Captured, Clustered
    <3> QED BY <3>2, <3>3, <3>4
  <2> QED BY <2>1, <2>2, <2>3 DEF StageInv
<1>2. CASE Claim
  <2> DEFINE n == row.attempt + 1
  <2>1. PICK redo \in SUBSET Members :
          /\ Members \ redo \subseteq cluster.stored
          /\ row' = [row EXCEPT !.status = "running", !.token = n, !.attempt = n]
          /\ exec' = [exec EXCEPT ![n] =
                     [Off EXCEPT !.pc = IF n = 1 THEN "insert" ELSE "reset",
                                 !.redo = IF n = 1 THEN {} ELSE redo, !.todo = redo]]
    BY <1>2 DEF Claim
  <2> HIDE DEF n
  <2>2. cluster' = cluster /\ kind' = kind /\ row.status = "pending"
    BY <1>2 DEF Claim
  <2>3. ~Import /\ ~Import'
    BY <2>2 DEF StageInv, Alone, Import
  <2>4. IsCluster(cluster') /\ Alone'
    BY <2>2, <2>3 DEF StageInv, Alone
  <2>5. ASSUME NEW k \in Attempts
        PROVE  Intact(k)'
    <3>1. Intact(k)
      BY DEF StageInv
    <3>2. CASE k # n
      <4>1. ~Owned(k)' /\ exec'[k] = exec[k] /\ (row.policy => row'.policy)
        BY <2>1, <2>3, <3>2 DEF Owned, Token
      <4> QED BY <2>4, <3>1, <4>1, FrameKeeps DEF Frame
    <3>3. CASE k = n
      <4>1. exec'[k] = [Off EXCEPT !.pc = IF n = 1 THEN "insert" ELSE "reset",
                                   !.redo = IF n = 1 THEN {} ELSE redo, !.todo = redo]
        BY <2>1, <3>3
      <4>2. /\ exec'[k].todo = redo /\ exec'[k].pc \in {"insert", "reset"}
            /\ exec'[k].pc = "reset" => exec'[k].redo = redo
            /\ exec'[k].redo \subseteq Members
        BY <4>1 DEF Off
      <4> QED BY <2>1, <2>2, <4>2 DEF Intact, Collected, Captured, Clustered
    <3> QED BY <3>2, <3>3
  <2> QED BY <2>4, <2>5 DEF StageInv
<1>3. CASE Reclaim
  <2>1. IsCluster(cluster') /\ Alone'
    BY <1>3 DEF Reclaim, StageInv, Alone, Import
  <2>2. ASSUME NEW k \in Attempts
        PROVE  Frame(k)
    BY <1>3 DEF Reclaim, Frame, Owned
  <2> QED BY <2>1, <2>2, FrameKeeps DEF StageInv
<1>4. CASE RequestScanCancellation
  <2>1. IsCluster(cluster') /\ Alone'
    BY <1>4 DEF RequestScanCancellation, StageInv, Alone, Import
  <2>2. ASSUME NEW k \in Attempts
        PROVE  Frame(k)
    BY <1>4 DEF RequestScanCancellation, Frame, Owned
  <2> QED BY <2>1, <2>2, FrameKeeps DEF StageInv
<1>5. CASE Triage
  <2>1. /\ IsCluster(cluster') /\ cluster'.stored = cluster.stored
        /\ cluster'.root = cluster.root
    BY <1>5 DEF Triage, StageInv, IsCluster
  <2>2. Alone'
    BY <1>5 DEF Triage, StageInv, Alone, Import
  <2>3. ASSUME NEW k \in Attempts
        PROVE  Frame(k)
    BY <1>5, <2>1 DEF Triage, Frame, Owned, Token, Import
  <2> QED BY <2>1, <2>2, <2>3, FrameKeeps DEF StageInv
<1>6. CASE BeginRule \/ EvaluateGate \/ StoreGate
  <2>1. IsCluster(cluster') /\ Alone'
    BY <1>6 DEF BeginRule, EvaluateGate, StoreGate, StageInv, Alone, Import
  <2>2. ASSUME NEW k \in Attempts
        PROVE  Frame(k)
    BY <1>6 DEF BeginRule, EvaluateGate, StoreGate, Frame, Owned, Token, Import
  <2> QED BY <2>1, <2>2, FrameKeeps DEF StageInv
<1>7. CASE CommitRule
  <2>1. /\ IsCluster(cluster') /\ cluster'.stored = cluster.stored
        /\ cluster.root # None /\ cluster.stored # {} => cluster'.root # None
    BY <1>7, ProjectedShape DEF CommitRule, StageInv
  <2>2. /\ row'.status = row.status /\ row'.token = row.token
        /\ row'.cancel = row.cancel /\ row'.policy = row.policy
    BY <1>7 DEF CommitRule, RowAfterRule
  <2>3. exec' = exec /\ kind' = kind
    BY <1>7 DEF CommitRule
  <2>4. Alone'
    BY <2>2, <2>3 DEF StageInv, Alone, Import
  <2>5. ASSUME NEW k \in Attempts
        PROVE  Frame(k)
    BY <2>1, <2>2, <2>3 DEF Frame, Owned, Token, Import
  <2> QED BY <2>1, <2>4, <2>5, FrameKeeps DEF StageInv
<1> QED BY <1>1, <1>2, <1>3, <1>4, <1>5, <1>6, <1>7

-----------------------------------------------------------------------------
(* The steps of an executor                                                *)

(* The row after a step of an executor that leaves the scan unfinished.    *)
Goes == /\ row'.status = row.status /\ row'.token = row.token /\ row'.cancel = row.cancel
        /\ row.policy => row'.policy

(* A step taken under the lease, or one that changes no finding, disturbs  *)
(* no other executor.                                                      *)
LEMMA Others ==
  ASSUME GateInv, StageInv, NEW n \in Attempts, Executor(n), exec[n].pc # "off",
         kind' = kind, IsCluster(cluster'), Intact(n)',
         exec'[n].pc # "reset" \/ exec[n].pc = "reset",
         \/ Goes
         \/ row'.status \in Ended /\ row'.policy = row.policy,
         \/ Owned(n)
         \/ cluster'.stored = cluster.stored /\ cluster'.root = cluster.root
         \/ Import
  PROVE  StageInv'
<1>1. ASSUME NEW k \in Attempts, k # n
      PROVE  Intact(k)'
  <2>1. exec'[k] = exec[k]
    BY <1>1, OwnMemory
  <2>2. row.policy => row'.policy
    BY DEF Goes
  <2>3. ASSUME Owned(k)', exec[k].pc \in Working
        PROVE  /\ Owned(k)
               /\ cluster.stored \subseteq cluster'.stored
               /\ cluster.root # None /\ cluster.stored # {} => cluster'.root # None
    <3>1. Owned(k) /\ exec[k].pc # "off"
      BY <2>3 DEF Goes, Owned, Token, Import, Ended, Working
    <3>2. ~Owned(n)
      BY <1>1, <3>1, OneOwner
    <3>3. ~Import
      BY <1>1, <3>1 DEF StageInv, Alone
    <3> QED BY <3>1, <3>2, <3>3
  <2> QED BY <1>1, <2>1, <2>2, <2>3, FrameKeeps DEF Frame, StageInv
<1>2. Alone'
  <2>1. ASSUME Import
        PROVE  n = 1 /\ row'.status # "pending" /\ exec'[1].pc # "reset"
               /\ \A k \in Attempts \ {1} : exec'[k].pc = "off"
    <3>1. n = 1
      BY <2>1 DEF StageInv, Alone
    <3>2. row'.status # "pending"
      BY <2>1 DEF StageInv, Alone, Goes, Ended
    <3> QED BY <2>1, <3>1, <3>2, OwnMemory DEF StageInv, Alone
  <2> QED BY <2>1 DEF Alone, Import
<1> QED BY <1>1, <1>2 DEF StageInv

LEMMA StageBuilds ==
  ASSUME GateInv, StageInv, NEW n \in Attempts,
         \/ ResetTool(n) \/ InsertFindings(n) \/ ImportFindings(n) \/ CollectEvidence(n)
         \/ CaptureIgnorePolicy(n) \/ FinalizeClusters(n) \/ PersistBaseline(n)
  PROVE  StageInv'
<1>0. Intact(n) /\ IsCluster(cluster) /\ IsExec(exec[n]) /\ DOMAIN exec = Attempts /\ IsRow(row)
  BY DEF StageInv, GateInv, Shape
<1>1. CASE ResetTool(n)
  <2>1. CASE exec[n].todo = {}
    <3>1. /\ exec'[n].pc = "insert" /\ exec'[n].todo = exec[n].redo /\ exec'[n].redo = {}
          /\ exec'[n].ok = exec[n].ok /\ row' = row /\ cluster' = cluster
      BY <1>0, <1>1, <2>1 DEF ResetTool, IsExec
    <3>2. Intact(n)'
      BY <1>0, <1>1, <3>1 DEF ResetTool, At, Intact, Owned, Token, Import, Collected, Captured, Clustered
    <3> QED BY <1>0, <1>1, <3>1, <3>2, Others DEF ResetTool, At, Goes, Executor
  <2>2. CASE exec[n].todo # {}
    <3>1. PICK m \in exec[n].todo :
            /\ cluster' = Delete(cluster, m)
            /\ row' = [row EXCEPT !.rev = @ + 1]
            /\ exec' = [exec EXCEPT ![n].todo = @ \ {m}]
      BY <1>1, <2>2 DEF ResetTool
    <3>2. IsCluster(cluster') /\ cluster'.stored = cluster.stored \ {m}
      BY <1>0, <3>1, DeleteShape
    <3>3. /\ exec'[n].pc = "reset" /\ exec'[n].todo = exec[n].todo \ {m}
          /\ exec'[n].redo = exec[n].redo /\ exec'[n].ok = exec[n].ok
      BY <1>0, <1>1, <3>1 DEF ResetTool, At, IsExec
    <3>4. Goes
      BY <1>0, <3>1 DEF Goes, IsRow
    <3>5. Intact(n)'
      BY <1>0, <1>1, <3>2, <3>3, <3>4 DEF ResetTool, At, Intact, Goes, Owned, Token, Import,
                                          Collected, Captured, Clustered
    <3> QED BY <1>1, <3>2, <3>3, <3>4, <3>5, Others DEF ResetTool, At, Executor
  <2> QED BY <2>1, <2>2
<1>2. CASE InsertFindings(n)
  <2>1. CASE exec[n].todo = {}
    <3>1. /\ exec'[n].pc = "collect" /\ exec'[n].todo = exec[n].todo /\ exec'[n].redo = exec[n].redo
          /\ exec'[n].ok = exec[n].ok /\ row' = row /\ cluster' = cluster
      BY <1>0, <1>2, <2>1 DEF InsertFindings, IsExec, Go
    <3>2. Intact(n)'
      BY <1>0, <1>2, <2>1, <3>1 DEF InsertFindings, At, Intact, Owned, Token, Import,
                                    Collected, Captured, Clustered, IsCluster
    <3> QED BY <1>0, <1>2, <3>1, <3>2, Others DEF InsertFindings, At, Goes, Executor
  <2>2. CASE exec[n].todo # {}
    <3>1. PICK m \in exec[n].todo :
            /\ cluster' = Insert(cluster, {m})
            /\ row' = [row EXCEPT !.rev = @ + 1]
            /\ exec' = [exec EXCEPT ![n].todo = @ \ {m}]
      BY <1>2, <2>2 DEF InsertFindings
    <3>2. IsCluster(cluster') /\ cluster'.stored = cluster.stored \cup {m}
      BY <1>0, <3>1, InsertShape DEF Intact
    <3>3. /\ exec'[n].pc = "insert" /\ exec'[n].todo = exec[n].todo \ {m}
          /\ exec'[n].redo = exec[n].redo /\ exec'[n].ok = exec[n].ok
      BY <1>0, <1>2, <3>1 DEF InsertFindings, At, IsExec
    <3>4. Goes
      BY <1>0, <3>1 DEF Goes, IsRow
    <3>5. Intact(n)'
      BY <1>0, <1>2, <3>2, <3>3, <3>4 DEF InsertFindings, At, Intact, Goes, Owned, Token, Import,
                                          Collected, Captured, Clustered
    <3> QED BY <1>2, <3>2, <3>3, <3>4, <3>5, Others DEF InsertFindings, At, Executor
  <2> QED BY <2>1, <2>2
<1>3. CASE ImportFindings(n)
  <2>1. IsCluster(cluster') /\ cluster'.stored = Members
    <3>1. cluster' = Insert(cluster, Members)
      BY <1>3 DEF ImportFindings
    <3> QED BY <1>0, <3>1, InsertShape DEF IsCluster
  <2>2. /\ exec'[n].pc = "capture" /\ exec'[n].todo = exec[n].todo
        /\ exec'[n].redo = exec[n].redo /\ exec'[n].ok = exec[n].ok
    BY <1>0, <1>3 DEF ImportFindings, IsExec
  <2>3. Goes /\ kind' = kind
    BY <1>0, <1>3 DEF ImportFindings, Goes, IsRow
  <2>4. Intact(n)'
    BY <1>0, <2>1, <2>2 DEF Intact, Collected, Captured, Clustered
  <2> QED BY <1>3, <2>1, <2>2, <2>3, <2>4, Others DEF ImportFindings, At, Executor
<1>4. CASE CollectEvidence(n)
  <2>1. /\ exec'[n].pc = "capture" /\ exec'[n].todo = exec[n].todo
        /\ exec'[n].redo = exec[n].redo /\ exec'[n].ok = exec[n].ok
    BY <1>0, <1>4 DEF CollectEvidence, IsExec
  <2>2. Intact(n)'
    BY <1>0, <1>4, <2>1 DEF CollectEvidence, At, Intact, Owned, Token, Import,
                            Collected, Captured, Clustered
  <2> QED BY <1>0, <1>4, <2>1, <2>2, Others DEF CollectEvidence, At, Goes, Executor
<1>5. CASE CaptureIgnorePolicy(n)
  <2>1. /\ exec'[n].pc = "cluster" /\ exec'[n].todo = exec[n].todo
        /\ exec'[n].redo = exec[n].redo /\ exec'[n].ok = exec[n].ok
    BY <1>0, <1>5 DEF CaptureIgnorePolicy, Go, IsExec
  <2>2. Goes /\ row'.policy /\ kind' = kind
    BY <1>0, <1>5 DEF CaptureIgnorePolicy, Goes, IsRow
  <2>3. IsCluster(cluster') /\ cluster'.stored = cluster.stored /\ cluster'.root = cluster.root
    BY <1>0, <1>5 DEF CaptureIgnorePolicy, IsCluster
  <2>4. Intact(n)'
    BY <1>0, <1>5, <2>1, <2>2, <2>3 DEF CaptureIgnorePolicy, At, Intact, Goes, Owned, Token, Import,
                                       Collected, Captured, Clustered
  <2> QED BY <1>5, <2>1, <2>2, <2>3, <2>4, Others DEF CaptureIgnorePolicy, At, Executor
<1>6. CASE FinalizeClusters(n)
  <2> DEFINE final == [cluster EXCEPT !.root = FinalRoot(exec[n].primary)]
  <2>0. Owned(n) /\ exec[n].pc = "cluster" /\ kind' = kind
    BY <1>6 DEF FinalizeClusters, At
  <2>1. CASE ~row.policy /\ Unrepresented(exec[n].primary)
    <3>1. exec' = [exec EXCEPT ![n] = Spoiled(exec[n], "publish")] /\ row' = row /\ cluster' = cluster
      BY <1>6, <2>1 DEF FinalizeClusters
    <3>2. /\ ~exec'[n].ok /\ exec'[n].pc \in {"finalize", "publish"}
          /\ exec'[n].todo = exec[n].todo /\ exec'[n].redo = exec[n].redo
      BY <1>0, <3>1 DEF Spoiled, IsExec
    <3>3. Intact(n)'
      BY <1>0, <3>2 DEF Intact
    <3> QED BY <1>0, <1>6, <2>0, <3>1, <3>2, <3>3, Others DEF Goes, Executor
  <2>2. CASE ~(~row.policy /\ Unrepresented(exec[n].primary))
    <3>1. /\ cluster' = final
          /\ row' = [row EXCEPT !.rev = @ + 1]
          /\ exec' = [exec EXCEPT ![n].pc = AfterClustering(exec[n]), ![n].primary = None,
                                  ![n].count = Cardinality(View(final))]
      BY <1>6, <2>2 DEF FinalizeClusters
    <3>2. /\ IsCluster(cluster') /\ cluster'.stored = cluster.stored
          /\ cluster'.root = FinalRoot(exec[n].primary)
      BY <1>0, <3>1 DEF IsCluster
    <3> HIDE DEF final
    <3>3. /\ exec'[n].pc = AfterClustering(exec[n]) /\ exec'[n].todo = exec[n].todo
          /\ exec'[n].redo = exec[n].redo /\ exec'[n].ok = exec[n].ok
      BY <1>0, <3>1 DEF IsExec
    <3>4. Goes /\ row'.policy = row.policy
      BY <1>0, <3>1 DEF Goes, IsRow
    <3>5. ASSUME exec[n].ok
          PROVE  row.policy /\ cluster'.stored = Members /\ cluster'.root # None
      <4>1. row.policy /\ cluster.stored = Members
        BY <1>0, <2>0, <3>5 DEF Intact, Captured, Collected
      <4>2. cluster'.root \in Members
        BY <1>0, <3>2, <4>1, PreferredExists, PublicationAssumption
           DEF PublicationAssumption, FinalRoot
      <4> QED BY <3>2, <4>1, <4>2, PublicationAssumption DEF PublicationAssumption
    <3>6. Intact(n)'
      <4>1. exec'[n].pc \in {"baseline", "publish"}
        BY <3>3 DEF AfterClustering
      <4> QED BY <1>0, <3>3, <3>4, <3>5, <4>1 DEF Intact
    <3> QED BY <1>6, <2>0, <3>2, <3>3, <3>4, <3>6, Others DEF AfterClustering, Executor
  <2> QED BY <2>1, <2>2
<1>7. CASE PersistBaseline(n)
  <2>1. /\ exec'[n].pc = "publish" /\ exec'[n].todo = exec[n].todo
        /\ exec'[n].redo = exec[n].redo /\ exec'[n].ok = exec[n].ok
    BY <1>0, <1>7 DEF PersistBaseline, Go, IsExec
  <2>2. Goes /\ row'.policy = row.policy /\ kind' = kind
    BY <1>0, <1>7 DEF PersistBaseline, Goes, IsRow
  <2>3. IsCluster(cluster') /\ cluster'.stored = cluster.stored /\ cluster'.root = cluster.root
    BY <1>0, <1>7, ClassifiedShape DEF PersistBaseline
  <2>4. Intact(n)'
    BY <1>0, <1>7, <2>1, <2>2, <2>3 DEF PersistBaseline, At, Intact, Goes, Owned, Token, Import,
                                       Collected, Captured, Clustered
  <2> QED BY <1>7, <2>1, <2>2, <2>3, <2>4, Others DEF PersistBaseline, At, Executor
<1> QED BY <1>1, <1>2, <1>3, <1>4, <1>5, <1>6, <1>7

(* An executor that is past its result, or was spoiled, promises nothing.  *)
LEMMA Promiseless ==
  ASSUME NEW n, Intact(n),
         exec'[n].todo \subseteq Members, exec'[n].redo \subseteq Members,
         \/ exec'[n].pc \notin Working \/ exec'[n].pc = "finalize"
         \/ ~exec'[n].ok /\ exec'[n].pc # "commit"
  PROVE  Intact(n)'
BY DEF Intact, Working, Collected, Captured, Clustered

LEMMA StagePublishes ==
  ASSUME GateInv, StageInv, NEW n \in Attempts,
         \/ PublishSnapshot(n) \/ CompleteScan(n) \/ CompleteUnheard(n) \/ RetryPublication(n)
         \/ FinalizeScan(n) \/ Superseded(n) \/ StatementFails(n)
         \/ EvaluateFailed(n) \/ StoreFailedGate(n) \/ UpdateFinding(n) \/ RecordAssessment(n)
  PROVE  StageInv'
<1>0. Intact(n) /\ IsCluster(cluster) /\ IsExec(exec[n]) /\ DOMAIN exec = Attempts /\ IsRow(row)
  BY DEF StageInv, GateInv, Shape
<1>a. exec[n].todo \subseteq Members /\ exec[n].redo \subseteq Members
  BY <1>0 DEF Intact
<1>b. Off.todo = {} /\ Off.redo = {} /\ Off.pc = "off"
  BY DEF Off
<1>1. CASE PublishSnapshot(n)
  <2>1. /\ exec'[n].pc = (IF exec[n].ok THEN "commit" ELSE "finalize")
        /\ exec'[n].todo = exec[n].todo /\ exec'[n].redo = exec[n].redo
        /\ exec'[n].ok = exec[n].ok
        /\ exec'[n].count = Cardinality(View(cluster)) /\ exec'[n].snap = Snapshot
    BY <1>0, <1>1 DEF PublishSnapshot, IsExec
  <2>2. exec'[n].count = Cardinality(exec'[n].snap.view)
    BY <2>1 DEF Snapshot
  <2>3. Intact(n)'
    BY <1>0, <1>1, <2>1, <2>2 DEF PublishSnapshot, At, Intact, Owned, Token, Import,
                                  Collected, Captured, Clustered
  <2>4. /\ Owned(n) /\ exec[n].pc = "publish" /\ exec'[n].pc # "reset"
        /\ row' = row /\ cluster' = cluster /\ kind' = kind
    BY <1>1, <2>1 DEF PublishSnapshot, At
  <2>5. Goes /\ IsCluster(cluster') /\ Executor(n)
    BY <1>0, <1>1, <2>4 DEF Goes, Executor
  <2> QED BY <2>3, <2>4, <2>5, Others
<1>2. CASE CompleteScan(n) \/ CompleteUnheard(n)
  <2>1. /\ row'.status \in Ended /\ row'.policy = row.policy /\ Owned(n)
        /\ cluster' = cluster /\ kind' = kind /\ exec[n].pc = "commit"
    BY <1>0, <1>2 DEF CompleteScan, CompleteUnheard, Completes, At, IsRow, Ended
  <2>2. /\ exec'[n].todo \subseteq Members /\ exec'[n].redo \subseteq Members
        /\ exec'[n].pc \in {"off", "assess", "finalize"}
    <3>1. CASE CompleteScan(n)
      BY <1>0, <1>a, <1>b, <3>1 DEF CompleteScan, IsExec
    <3>2. CASE CompleteUnheard(n)
      BY <1>0, <1>a, <3>2 DEF CompleteUnheard, Spoiled, IsExec
    <3> QED BY <1>2, <3>1, <3>2
  <2>3. Intact(n)'
    BY <1>0, <2>2, Promiseless DEF Working
  <2> QED BY <1>0, <1>2, <2>1, <2>2, <2>3, Others DEF Executor
<1>3. CASE RetryPublication(n)
  <2>1. /\ exec'[n].todo = exec[n].todo /\ exec'[n].redo = exec[n].redo
        /\ \/ exec'[n].pc = "publish" /\ exec'[n].ok = exec[n].ok
           \/ exec'[n].pc = "finalize"
    BY <1>0, <1>3 DEF RetryPublication, IsExec
  <2>2. Intact(n)'
    <3>1. CASE exec'[n].pc = "finalize"
      BY <1>0, <1>a, <2>1, <3>1, Promiseless
    <3>2. CASE exec'[n].pc = "publish" /\ exec'[n].ok = exec[n].ok
      BY <1>0, <1>3, <2>1, <3>2 DEF RetryPublication, At, Intact, Owned, Token, Import,
                                    Collected, Captured, Clustered
    <3> QED BY <2>1, <3>1, <3>2
  <2> QED BY <1>0, <1>3, <2>1, <2>2, Others DEF RetryPublication, At, Goes, Executor
<1>4. CASE FinalizeScan(n)
  <2>1. /\ exec'[n].todo = exec[n].todo /\ exec'[n].redo = exec[n].redo
        /\ exec'[n].pc \in {"off", "regate"}
    BY <1>0, <1>4 DEF FinalizeScan, Go, IsExec
  <2>2. row'.status \in Ended /\ row'.policy = row.policy
    BY <1>0, <1>4 DEF FinalizeScan, IsRow, Ended
  <2>3. Intact(n)'
    BY <1>0, <1>a, <2>1, Promiseless DEF Working
  <2> QED BY <1>0, <1>4, <2>1, <2>2, <2>3, Others DEF FinalizeScan, At, Executor
<1>5. CASE Superseded(n)
  <2>1. exec'[n] = Off /\ exec[n].pc # "off"
    BY <1>0, <1>5 DEF Superseded, Working
  <2>2. Intact(n)'
    BY <1>0, <1>b, <2>1, Promiseless DEF Working
  <2> QED BY <1>0, <1>5, <1>b, <2>1, <2>2, Others DEF Superseded, Goes, Executor
<1>6. CASE StatementFails(n)
  <2>1. /\ exec'[n].todo \subseteq Members /\ exec'[n].redo \subseteq Members
        /\ ~exec'[n].ok /\ exec'[n].pc \in {"insert", "cluster", "publish", "finalize"}
        /\ exec[n].pc # "off"
    <3> DEFINE e(next) == Spoiled(exec[n], next)
    <3>1. ASSUME NEW next \in {"insert", "cluster", "publish", "finalize"}
          PROVE  /\ IsExec(e(next)) /\ e(next).todo = exec[n].todo
                 /\ e(next).redo = exec[n].redo /\ ~e(next).ok
                 /\ e(next).pc \in {next, "finalize"}
      BY <1>0 DEF Spoiled, IsExec
    <3> HIDE DEF e
    <3>2. CASE At(n, "insert")
      <4>1. PICK m \in exec[n].todo : exec'[n] = [e("insert") EXCEPT !.todo = @ \ {m}]
        BY <1>0, <1>6, <3>2 DEF StatementFails, At, e
      <4>2. /\ exec'[n].todo = exec[n].todo \ {m} /\ exec'[n].redo = exec[n].redo
            /\ ~exec'[n].ok /\ exec'[n].pc \in {"insert", "finalize"}
        BY <3>1, <4>1 DEF IsExec
      <4> QED BY <1>a, <3>2, <4>2 DEF At
    <3>3. CASE ~At(n, "insert")
      <4>1. /\ exec[n].pc # "off"
            /\ \E next \in {"cluster", "publish", "finalize"} : exec'[n] = e(next)
        BY <1>0, <1>6, <3>3 DEF StatementFails, At, e
      <4> QED BY <1>a, <3>1, <4>1
    <3> QED BY <3>2, <3>3
  <2>2. Intact(n)'
    BY <1>0, <2>1, Promiseless
  <2> QED BY <1>0, <1>6, <2>1, <2>2, Others DEF StatementFails, Goes, Executor
<1>7. CASE EvaluateFailed(n)
  <2>1. /\ exec'[n].todo = exec[n].todo /\ exec'[n].redo = exec[n].redo
        /\ exec'[n].pc = "upsert"
    BY <1>0, <1>7 DEF EvaluateFailed, IsExec
  <2>2. Intact(n)'
    BY <1>0, <1>a, <2>1, Promiseless DEF Working
  <2> QED BY <1>0, <1>7, <2>1, <2>2, Others DEF EvaluateFailed, At, Goes, Executor
<1>8. CASE StoreFailedGate(n)
  <2>1. exec'[n] = Off
    BY <1>0, <1>8 DEF StoreFailedGate
  <2>2. Intact(n)'
    BY <1>0, <1>b, <2>1, Promiseless DEF Working
  <2> QED BY <1>0, <1>8, <1>b, <2>1, <2>2, Others DEF StoreFailedGate, At, Goes, Executor
<1>9. CASE UpdateFinding(n)
  <2>1. /\ exec'[n].todo = exec[n].todo /\ exec'[n].redo = exec[n].redo
        /\ exec'[n].pc = "record"
    BY <1>0, <1>9 DEF UpdateFinding, Go, IsExec
  <2>2. IsCluster(cluster') /\ cluster'.stored = cluster.stored /\ cluster'.root = cluster.root
    BY <1>0, <1>9 DEF UpdateFinding, IsCluster
  <2>3. Goes
    BY <1>0, <1>9 DEF UpdateFinding, Goes, IsRow
  <2>4. Intact(n)'
    BY <1>0, <1>a, <2>1, Promiseless DEF Working
  <2> QED BY <1>9, <2>1, <2>2, <2>3, <2>4, Others DEF UpdateFinding, At, Executor
<1>10. CASE RecordAssessment(n)
  <2>1. exec'[n] = Off
    BY <1>0, <1>10 DEF RecordAssessment
  <2>2. Goes
    BY <1>0, <1>10 DEF RecordAssessment, Goes, IsRow
  <2>3. Intact(n)'
    BY <1>0, <1>b, <2>1, Promiseless DEF Working
  <2> QED BY <1>0, <1>10, <1>b, <2>1, <2>2, <2>3, Others DEF RecordAssessment, At, Executor
<1> QED BY <1>1, <1>2, <1>3, <1>4, <1>5, <1>6, <1>7, <1>8, <1>9, <1>10

LEMMA StageInvariance == Spec => [](GateInv /\ StageInv)
<1>1. Init => StageInv
  <2>1. 1 \in Attempts
    BY PublicationAssumption DEF PublicationAssumption, Attempts
  <2> QED
    BY <2>1 DEF Init, StageInv, IsCluster, Alone, Intact, NoScan, NoFindings, Off,
                Collected, Captured, Clustered
<1>2. GateInv /\ StageInv /\ [Next]_vars => StageInv'
  <2>1. ASSUME GateInv, StageInv, Next
        PROVE  StageInv'
    BY <2>1, StageUser, StageBuilds, StagePublishes DEF Next, Executor
  <2>2. ASSUME StageInv, UNCHANGED vars
        PROVE  StageInv'
    BY <2>2 DEF vars, StageInv, IsCluster, Alone, Intact, Owned, Token, Import
  <2> QED BY <2>1, <2>2
<1> QED BY <1>1, <1>2, Invariance, PTL DEF Spec

(* Only an executor that inserted, clustered and classified everything     *)
(* completes the scan, and what it publishes is the evaluation of the      *)
(* findings at that revision (publishScanResults, completeScan).           *)
THEOREM CompletesWholeHolds == Spec => CompletesWhole
<1> DEFINE Whole == row.status # "completed" /\ row'.status = "completed" =>
                      /\ gate'.rev = row'.rev /\ gate'.status = "completed"
                      /\ gate'.view = View(cluster')
                      /\ row'.count = Cardinality(View(cluster'))
                      /\ row'.policy /\ cluster'.stored = Members /\ cluster'.root # None
<1>1. ASSUME GateInv, StageInv, Next, row.status # "completed", row'.status = "completed"
      PROVE  \E n \in Attempts : CompleteScan(n) \/ CompleteUnheard(n)
  <2>1. IsRow(row)
    BY <1>1 DEF GateInv, Shape
  <2>2. ~(\/ Create \/ Claim \/ Reclaim \/ RequestScanCancellation \/ Triage \/ BeginRule
          \/ EvaluateGate \/ StoreGate)
    BY <1>1, <2>1 DEF IsRow, Create, Claim, Reclaim, RequestScanCancellation, Triage, BeginRule,
                      EvaluateGate, StoreGate
  <2>3. ~CommitRule
    BY <1>1, <2>1 DEF IsRow, CommitRule, RowAfterRule
  <2>4. PICK n \in Attempts : Executor(n)
    BY <1>1, <2>2, <2>3 DEF Next
  <2>5. ~(\/ ResetTool(n) \/ InsertFindings(n) \/ ImportFindings(n) \/ CollectEvidence(n)
          \/ CaptureIgnorePolicy(n) \/ FinalizeClusters(n) \/ PersistBaseline(n))
    BY <1>1, <2>1 DEF IsRow, ResetTool, InsertFindings, ImportFindings, CollectEvidence,
                      CaptureIgnorePolicy, FinalizeClusters, PersistBaseline
  <2>6. ~(\/ PublishSnapshot(n) \/ RetryPublication(n) \/ FinalizeScan(n) \/ Superseded(n)
          \/ StatementFails(n) \/ EvaluateFailed(n) \/ StoreFailedGate(n)
          \/ UpdateFinding(n) \/ RecordAssessment(n))
    BY <1>1, <2>1 DEF IsRow, PublishSnapshot, RetryPublication, FinalizeScan, Superseded,
                      StatementFails, EvaluateFailed, StoreFailedGate, UpdateFinding, RecordAssessment
  <2> QED BY <2>4, <2>5, <2>6 DEF Executor
<1>2. ASSUME GateInv, StageInv, NEW n \in Attempts, CompleteScan(n) \/ CompleteUnheard(n)
      PROVE  Whole
  <2>1. /\ exec[n].pc = "commit" /\ Owned(n) /\ exec[n].snap.rev = row.rev /\ cluster' = cluster
        /\ row' = [row EXCEPT !.status = "completed", !.token = 0, !.count = exec[n].count]
        /\ gate' = [exec[n].snap EXCEPT !.status = "completed"]
    BY <1>2 DEF CompleteScan, CompleteUnheard, Completes, At, Unmoved
  <2>2. IsRow(row) /\ IsSnap(exec[n].snap) /\ Intact(n)
    BY <1>2 DEF GateInv, StageInv, Shape
  <2>3. exec[n].snap.view = View(cluster)
    BY <1>2, <2>1 DEF GateInv, Faithful, Faith
  <2>4. /\ gate'.rev = row.rev /\ gate'.status = "completed" /\ gate'.view = View(cluster)
        /\ row'.rev = row.rev /\ row'.policy = row.policy /\ row'.count = exec[n].count
    BY <2>1, <2>2, <2>3 DEF IsRow, IsSnap
  <2>5. /\ exec[n].ok /\ exec[n].count = Cardinality(View(cluster)) /\ row.policy
        /\ cluster.stored = Members /\ cluster.root # None
    BY <2>1, <2>2, <2>3 DEF Intact, Collected, Captured, Clustered
  <2>6. View(cluster') = View(cluster)
    BY <2>1
  <2> QED BY <2>1, <2>4, <2>5, <2>6
<1>3. GateInv /\ StageInv /\ Next => Whole
  BY <1>1, <1>2
<1>4. GateInv /\ StageInv /\ [Next]_vars => [Whole]_vars
  BY <1>3
<1> QED BY <1>4, StageInvariance, PTL DEF Spec, CompletesWhole

-----------------------------------------------------------------------------
(* Contention                                                              *)

(* Changes of users that have reached the findings, if they ever do.       *)
Landed == IF ruleTx = "none" THEN changes ELSE changes - 1

(* A try is only used up by a change that landed after its snapshot.       *)
Patient(n) ==
  /\ exec[n].tries \in Nat
  /\ exec[n].why = "contention" => changes >= PublishTries
  /\ exec[n].pc = "assess" => row.status = "completed"
  /\ Owned(n) /\ exec[n].pc \in Working \ {"finalize"} =>
       \/ exec[n].tries <= Landed
       \/ exec[n].pc = "commit" /\ exec[n].tries <= Landed + 1 /\ row.rev = exec[n].snap.rev

TriesInv ==
  /\ changes \in Nat /\ Landed \in Nat
  /\ OnlyContention
  /\ \A n \in Attempts : Patient(n)

(* What a step leaves to an executor that does not take it.                *)
Waits(k) ==
  /\ exec'[k] = exec[k]
  /\ row.status = "completed" => row'.status = "completed"
  /\ Owned(k)' /\ exec[k].pc \in Working =>
       /\ Owned(k)
       /\ row'.rev = row.rev \/ Landed' >= Landed + 1

LEMMA WaitsKeeps ==
  ASSUME TriesInv, NEW k \in Attempts, Waits(k),
         changes' \in Nat, changes' >= changes, Landed' \in Nat, Landed' >= Landed
  PROVE  Patient(k)'
<1>1. Patient(k)
  BY DEF TriesInv
<1>2. exec'[k].why = "contention" => changes' >= PublishTries
  BY <1>1 DEF Waits, Patient, PublishTries, TriesInv
<1>3. ASSUME Owned(k)', exec[k].pc \in Working \ {"finalize"}
      PROVE  \/ exec[k].tries <= Landed'
             \/ exec[k].pc = "commit" /\ exec[k].tries <= Landed' + 1 /\ row'.rev = exec[k].snap.rev
  <2>1. exec[k].tries \in Nat /\ Landed \in Nat
    BY <1>1 DEF Patient, TriesInv
  <2>2. CASE exec[k].tries <= Landed
    BY <2>1, <2>2
  <2>3. CASE exec[k].pc = "commit" /\ exec[k].tries <= Landed + 1 /\ row.rev = exec[k].snap.rev
    <3>1. row'.rev = row.rev \/ Landed' >= Landed + 1
      BY <1>3 DEF Waits
    <3> QED BY <2>1, <2>3, <3>1
  <2> QED BY <1>1, <1>3, <2>2, <2>3 DEF Waits, Patient
<1> QED BY <1>1, <1>2, <1>3 DEF Waits, Patient

LEMMA Fresh ==
  ASSUME TriesInv, NEW n, exec'[n].tries = 0, exec'[n].why = "none", exec'[n].pc # "assess",
         Landed' \in Nat
  PROVE  Patient(n)'
<1>1. exec'[n].tries \in Nat /\ exec'[n].tries <= Landed'
  OBVIOUS
<1>2. exec'[n].why # "contention"
  OBVIOUS
<1> QED BY <1>1, <1>2 DEF Patient

LEMMA TriesUser ==
  ASSUME GateInv, StageInv, TriesInv,
         \/ Create \/ Claim \/ Reclaim \/ RequestScanCancellation
         \/ Triage \/ BeginRule \/ CommitRule \/ EvaluateGate \/ StoreGate
  PROVE  TriesInv'
<1> USE DEF GateInv, Shape, IsRow
<1>1. /\ changes' \in Nat /\ changes' >= changes
      /\ Landed' \in Nat /\ Landed' >= Landed
  <2>1. \/ changes' = changes /\ ruleTx' = ruleTx
        \/ changes' = changes + 1 /\ ruleTx' = ruleTx
        \/ changes' = changes + 1 /\ ruleTx = "none" /\ ruleTx' # "none"
        \/ changes' = changes /\ ruleTx # "none" /\ ruleTx' = "none"
    BY DEF Change, Create, Claim, Reclaim, RequestScanCancellation, Triage,
           BeginRule, CommitRule, EvaluateGate, StoreGate
  <2>2. changes \in Nat /\ (IF ruleTx = "none" THEN changes ELSE changes - 1) \in Nat
    BY DEF TriesInv, Landed
  <2> QED BY <2>1, <2>2 DEF Landed
<1>2. row'.why = row.why
  BY DEF Create, Claim, Reclaim, RequestScanCancellation, Triage,
         BeginRule, CommitRule, RowAfterRule, EvaluateGate, StoreGate
<1>3. OnlyContention'
  BY <1>1, <1>2 DEF TriesInv, OnlyContention, PublishTries
<1>4. ASSUME NEW k \in Attempts
      PROVE  Patient(k)'
  <2>1. CASE Create
    <3>1. CASE exec'[k] = exec[k] /\ ~(Import /\ k = 1)
      <4>1. Owned(k)' /\ exec[k].pc \in Working => FALSE
        BY <2>1, <3>1 DEF Create, Owned, StageInv, Alone, Working
      <4>2. row.status # "completed"
        BY <2>1 DEF Create
      <4> QED BY <1>1, <3>1, <4>1, <4>2, WaitsKeeps DEF Waits
    <3>2. CASE Import /\ k = 1
      <4>1. exec'[k] = [Off EXCEPT !.pc = "insert", !.todo = Members, !.count = Cardinality(Members)]
        BY <2>1, <3>2 DEF Create
      <4>2. exec'[k].tries = 0 /\ exec'[k].why = "none" /\ exec'[k].pc # "assess"
        BY <4>1 DEF Off
      <4> QED BY <1>1, <4>2, Fresh
    <3> QED BY <2>1, <3>1, <3>2 DEF Create
  <2>2. CASE Claim
    <3> DEFINE n == row.attempt + 1
    <3>1. PICK redo \in SUBSET Members :
            /\ row' = [row EXCEPT !.status = "running", !.token = n, !.attempt = n]
            /\ exec' = [exec EXCEPT ![n] =
                       [Off EXCEPT !.pc = IF n = 1 THEN "insert" ELSE "reset",
                                   !.redo = IF n = 1 THEN {} ELSE redo, !.todo = redo]]
      BY <2>2 DEF Claim
    <3> HIDE DEF n
    <3>2. ~Import' /\ row.status = "pending"
      BY <2>2 DEF Claim, StageInv, Alone, Import
    <3>3. CASE k # n
      <4>1. ~Owned(k)' /\ exec'[k] = exec[k]
        BY <3>1, <3>2, <3>3 DEF Owned, Token
      <4> QED BY <1>1, <3>2, <4>1, WaitsKeeps DEF Waits
    <3>4. CASE k = n
      <4>1. exec'[k] = [Off EXCEPT !.pc = IF n = 1 THEN "insert" ELSE "reset",
                                   !.redo = IF n = 1 THEN {} ELSE redo, !.todo = redo]
        BY <3>1, <3>4
      <4>2. exec'[k].tries = 0 /\ exec'[k].why = "none" /\ exec'[k].pc # "assess"
        BY <4>1 DEF Off
      <4> QED BY <1>1, <4>2, Fresh
    <3> QED BY <3>3, <3>4
  <2>3. CASE Reclaim \/ RequestScanCancellation
    BY <1>1, <2>3, WaitsKeeps DEF Waits, Reclaim, RequestScanCancellation, Owned
  <2>4. CASE Triage
    <3>1. Landed' = Landed + 1
      BY <2>4 DEF Triage, Change, Landed, TriesInv
    <3>2. Waits(k)
      BY <2>4, <3>1 DEF Triage, Waits, Owned, Token, Import, TriesInv
    <3> QED BY <1>1, <3>2, WaitsKeeps
  <2>5. CASE CommitRule
    <3>1. Landed' = Landed + 1
      BY <2>5 DEF CommitRule, Landed, TriesInv
    <3>2. /\ exec' = exec /\ kind' = kind /\ row'.status = row.status
          /\ row'.token = row.token /\ row'.cancel = row.cancel
      BY <2>5 DEF CommitRule, RowAfterRule
    <3>3. Waits(k)
      BY <3>1, <3>2 DEF Waits, Owned, Token, Import, TriesInv
    <3> QED BY <1>1, <3>3, WaitsKeeps
  <2>6. CASE BeginRule \/ EvaluateGate \/ StoreGate
    <3>1. Waits(k)
      BY <2>6 DEF BeginRule, EvaluateGate, StoreGate, Waits, Owned, Token, Import
    <3> QED BY <1>1, <3>1, WaitsKeeps
  <2> QED BY <2>1, <2>2, <2>3, <2>4, <2>5, <2>6
<1> QED BY <1>1, <1>3, <1>4 DEF TriesInv

(* An executor's step changes no revision under another's lease.           *)
LEMMA TriesOthers ==
  ASSUME GateInv, StageInv, TriesInv, NEW n \in Attempts, Executor(n), exec[n].pc # "off",
         kind' = kind, changes' = changes, ruleTx' = ruleTx,
         Patient(n)', OnlyContention',
         Goes \/ row'.status \in Ended,
         Owned(n) \/ row'.rev = row.rev \/ Import \/ row.status = "completed",
         row.status = "completed" => row'.status = "completed"
  PROVE  TriesInv'
<1>1. /\ changes' \in Nat /\ changes' >= changes
      /\ Landed' = Landed /\ Landed \in Nat /\ Landed' >= Landed
  BY DEF TriesInv, Landed
<1>2. ASSUME NEW k \in Attempts, k # n
      PROVE  Patient(k)'
  <2>1. exec'[k] = exec[k]
    BY <1>2, OwnMemory
  <2>2. ASSUME Owned(k)', exec[k].pc \in Working
        PROVE  Owned(k) /\ row'.rev = row.rev
    <3>1. Owned(k) /\ exec[k].pc # "off" /\ row.status # "completed"
      BY <2>2 DEF Goes, Owned, Token, Import, Ended, Working
    <3>2. ~Owned(n)
      BY <1>2, <3>1, OneOwner
    <3>3. ~Import
      BY <1>2, <3>1 DEF StageInv, Alone
    <3> QED BY <3>1, <3>2, <3>3
  <2> QED BY <1>1, <2>1, <2>2, WaitsKeeps DEF Waits
<1> QED BY <1>1, <1>2 DEF TriesInv

(* A step that takes no snapshot and gives no try up uses none.            *)
LEMMA Steady ==
  ASSUME TriesInv, NEW n \in Attempts, kind' = kind, changes' = changes, ruleTx' = ruleTx,
         exec'[n].tries \in {exec[n].tries, 0},
         exec'[n].why \in {exec[n].why, "error", "none"},
         exec'[n].pc = "assess" => row'.status = "completed",
         \/ exec'[n].pc \notin Working \ {"finalize"}
         \/ exec[n].pc \in Working \ {"finalize", "commit"} /\ Goes
  PROVE  Patient(n)'
<1>1. /\ Patient(n) /\ Landed' = Landed /\ Landed \in Nat
  BY DEF TriesInv, Landed
<1>2. exec'[n].tries \in Nat
  BY <1>1 DEF Patient
<1>3. exec'[n].why = "contention" => changes' >= PublishTries
  BY <1>1 DEF Patient, PublishTries
<1>4. Owned(n)' /\ exec'[n].pc \in Working \ {"finalize"} => exec'[n].tries <= Landed'
  <2>1. ASSUME Owned(n)', exec'[n].pc \in Working \ {"finalize"}
        PROVE  exec[n].tries <= Landed
    BY <1>1, <2>1 DEF Patient, Goes, Owned, Token, Import
  <2> QED BY <1>1, <2>1
<1> QED BY <1>2, <1>3, <1>4 DEF Patient

LEMMA TriesBuilds ==
  ASSUME GateInv, StageInv, TriesInv, NEW n \in Attempts,
         \/ ResetTool(n) \/ InsertFindings(n) \/ ImportFindings(n) \/ CollectEvidence(n)
         \/ CaptureIgnorePolicy(n) \/ FinalizeClusters(n) \/ PersistBaseline(n)
  PROVE  TriesInv'
<1>1. IsExec(exec[n]) /\ DOMAIN exec = Attempts /\ IsRow(row)
  BY DEF GateInv, Shape
<1>2. kind' = kind /\ changes' = changes /\ ruleTx' = ruleTx /\ Executor(n)
  BY DEF ResetTool, InsertFindings, ImportFindings, CollectEvidence, CaptureIgnorePolicy,
         FinalizeClusters, PersistBaseline, Executor
<1>3. Goes /\ row'.why = row.why
  BY <1>1 DEF IsRow, Goes, ResetTool, InsertFindings, ImportFindings, CollectEvidence,
              CaptureIgnorePolicy, FinalizeClusters, PersistBaseline
<1>4. exec[n].pc \in Working \ {"finalize", "commit"}
  BY DEF At, Working, ResetTool, InsertFindings, ImportFindings, CollectEvidence,
         CaptureIgnorePolicy, FinalizeClusters, PersistBaseline
<1>5. /\ exec'[n].tries = exec[n].tries /\ exec'[n].why \in {exec[n].why, "error"}
      /\ exec'[n].pc # "assess"
  <2>1. CASE ResetTool(n)
    BY <1>1, <2>1 DEF ResetTool, At, IsExec
  <2>2. CASE InsertFindings(n)
    BY <1>1, <2>2 DEF InsertFindings, Go, At, IsExec
  <2>3. CASE ImportFindings(n) \/ CollectEvidence(n)
    BY <1>1, <2>3 DEF ImportFindings, CollectEvidence, IsExec
  <2>4. CASE CaptureIgnorePolicy(n) \/ PersistBaseline(n)
    BY <1>1, <2>4 DEF CaptureIgnorePolicy, PersistBaseline, Go, IsExec
  <2>5. CASE FinalizeClusters(n)
    <3> DEFINE many == Cardinality(View([cluster EXCEPT !.root = FinalRoot(exec[n].primary)]))
    <3>1. \/ exec' = [exec EXCEPT ![n] = Spoiled(exec[n], "publish")]
          \/ exec' = [exec EXCEPT ![n].pc = AfterClustering(exec[n]), ![n].primary = None,
                                  ![n].count = many]
      BY <2>5 DEF FinalizeClusters
    <3> HIDE DEF many
    <3>2. CASE exec' = [exec EXCEPT ![n] = Spoiled(exec[n], "publish")]
      <4>1. exec'[n] = Spoiled(exec[n], "publish")
        BY <1>1, <3>2
      <4> QED BY <1>1, <4>1 DEF Spoiled, IsExec
    <3>3. CASE exec' = [exec EXCEPT ![n].pc = AfterClustering(exec[n]), ![n].primary = None,
                                    ![n].count = many]
      BY <1>1, <3>3 DEF AfterClustering, IsExec
    <3> QED BY <3>1, <3>2, <3>3
  <2> QED BY <2>1, <2>2, <2>3, <2>4, <2>5
<1>6. Owned(n) \/ Import
  BY DEF ResetTool, InsertFindings, ImportFindings, CollectEvidence, CaptureIgnorePolicy,
         FinalizeClusters, PersistBaseline
<1>7. Patient(n)'
  BY <1>2, <1>3, <1>4, <1>5, Steady
<1>8. OnlyContention'
  BY <1>2, <1>3 DEF TriesInv, OnlyContention, PublishTries
<1>9. exec[n].pc # "off" /\ (row.status = "completed" => row'.status = "completed")
  BY <1>3, <1>4 DEF Goes, Working
<1> QED BY <1>2, <1>3, <1>6, <1>7, <1>8, <1>9, TriesOthers

LEMMA TriesPublishes ==
  ASSUME GateInv, StageInv, TriesInv, NEW n \in Attempts,
         \/ PublishSnapshot(n) \/ CompleteScan(n) \/ CompleteUnheard(n) \/ RetryPublication(n)
         \/ FinalizeScan(n) \/ Superseded(n) \/ StatementFails(n)
         \/ EvaluateFailed(n) \/ StoreFailedGate(n) \/ UpdateFinding(n) \/ RecordAssessment(n)
  PROVE  TriesInv'
<1>1. IsExec(exec[n]) /\ DOMAIN exec = Attempts /\ IsRow(row) /\ Patient(n) /\ Landed \in Nat
  BY DEF GateInv, Shape, TriesInv
<1>2. kind' = kind /\ changes' = changes /\ ruleTx' = ruleTx /\ Executor(n)
  BY DEF PublishSnapshot, CompleteScan, CompleteUnheard, Completes, RetryPublication,
         FinalizeScan, Superseded, StatementFails, EvaluateFailed, StoreFailedGate,
         UpdateFinding, RecordAssessment, Executor
<1>3. Landed' = Landed
  BY <1>2 DEF Landed
<1>b. Off.tries = 0 /\ Off.why = "none" /\ Off.pc = "off"
  BY DEF Off
<1>4. CASE PublishSnapshot(n)
  <2>1. /\ exec'[n].tries = exec[n].tries + 1 /\ exec'[n].why = exec[n].why
        /\ exec'[n].pc \in {"commit", "finalize"}
        /\ exec'[n].snap = Snapshot
    BY <1>1, <1>4 DEF PublishSnapshot, IsExec
  <2>2. Owned(n) /\ exec[n].pc = "publish" /\ row' = row
    BY <1>4 DEF PublishSnapshot, At
  <2>3. exec'[n].snap.rev = row'.rev
    BY <2>1, <2>2 DEF Snapshot
  <2>4. exec[n].tries \in Nat /\ exec[n].tries <= Landed
    BY <1>1, <2>2 DEF Patient, Working
  <2>5. exec'[n].why = "contention" => changes' >= PublishTries
    BY <1>1, <1>2, <2>1 DEF Patient
  <2>6. Patient(n)'
    <3>1. exec'[n].tries \in Nat /\ exec'[n].tries <= Landed' + 1
      BY <1>1, <1>3, <2>1, <2>4
    <3> QED BY <2>1, <2>3, <2>5, <3>1 DEF Patient
  <2>7. Goes /\ OnlyContention' /\ exec[n].pc # "off"
    BY <1>2, <2>2 DEF Goes, TriesInv, OnlyContention
  <2>8. row'.rev = row.rev /\ row'.status = row.status
    BY <2>2
  <2> QED BY <1>2, <2>6, <2>7, <2>8, TriesOthers
<1>5. CASE CompleteScan(n) \/ CompleteUnheard(n)
  <2>1. /\ row'.status = "completed" /\ row'.why = row.why /\ Owned(n)
        /\ exec[n].pc = "commit"
    BY <1>1, <1>5 DEF CompleteScan, CompleteUnheard, Completes, At, IsRow
  <2>2. /\ exec'[n].tries \in {exec[n].tries, 0}
        /\ exec'[n].why \in {exec[n].why, "error", "none"}
        /\ exec'[n].pc \in {"off", "assess", "finalize"}
    <3>1. CASE CompleteScan(n)
      BY <1>1, <1>b, <3>1 DEF CompleteScan, IsExec
    <3>2. CASE CompleteUnheard(n)
      BY <1>1, <3>2 DEF CompleteUnheard, Spoiled, IsExec
    <3> QED BY <1>5, <3>1, <3>2
  <2>3. Patient(n)'
    BY <1>2, <2>1, <2>2, Steady DEF Working
  <2>4. OnlyContention'
    BY <1>2, <2>1 DEF TriesInv, OnlyContention
  <2> QED BY <1>2, <2>1, <2>3, <2>4, TriesOthers DEF Ended
<1>6. CASE RetryPublication(n)
  <2>1. /\ Owned(n) /\ exec[n].pc = "commit" /\ row' = row /\ row.rev # exec[n].snap.rev
    BY <1>6 DEF RetryPublication, At, Unmoved
  <2>2. exec[n].tries \in Nat /\ exec[n].tries <= Landed
    BY <1>1, <2>1 DEF Patient, Working
  <2>3. Patient(n)'
    <3>1. CASE TriesLeft(n)
      <4>1. /\ exec'[n].tries = exec[n].tries /\ exec'[n].why = exec[n].why
            /\ exec'[n].pc = "publish"
        BY <1>1, <1>6, <3>1 DEF RetryPublication, IsExec
      <4>2. exec'[n].why = "contention" => changes' >= PublishTries
        BY <1>1, <1>2, <4>1 DEF Patient
      <4>3. exec'[n].tries \in Nat /\ exec'[n].tries <= Landed'
        BY <1>3, <2>2, <4>1
      <4> QED BY <4>1, <4>2, <4>3 DEF Patient
    <3>2. CASE ~TriesLeft(n)
      <4>1. exec'[n].tries = exec[n].tries /\ exec'[n].pc = "finalize"
        BY <1>1, <1>6, <3>2 DEF RetryPublication, IsExec
      <4>2. changes' >= PublishTries
        <5>1. changes \in Nat /\ Landed <= changes
          BY DEF TriesInv, Landed
        <5> QED BY <1>1, <1>2, <2>2, <3>2, <5>1 DEF TriesLeft, PublishTries
      <4> QED BY <2>2, <4>1, <4>2 DEF Patient
    <3> QED BY <3>1, <3>2
  <2>4. Goes /\ OnlyContention' /\ exec[n].pc # "off"
    BY <1>2, <2>1 DEF Goes, TriesInv, OnlyContention
  <2> QED BY <1>2, <2>1, <2>3, <2>4, TriesOthers
<1>7. CASE FinalizeScan(n)
  <2>1. /\ row'.status = "failed" /\ row'.why = exec[n].why /\ Owned(n)
        /\ exec[n].pc = "finalize" /\ row.status = "running"
    BY <1>1, <1>7 DEF FinalizeScan, At, IsRow, Owned
  <2>2. /\ exec'[n].tries = exec[n].tries /\ exec'[n].why = exec[n].why
        /\ exec'[n].pc \in {"off", "regate"}
    BY <1>1, <1>7 DEF FinalizeScan, Go, IsExec
  <2>3. Patient(n)'
    BY <1>2, <2>2, Steady DEF Working
  <2>4. OnlyContention'
    BY <1>1, <1>2, <2>1 DEF Patient, OnlyContention
  <2> QED BY <1>2, <2>1, <2>3, <2>4, TriesOthers DEF Ended
<1>8. CASE StatementFails(n)
  <2>1. /\ exec'[n].tries = exec[n].tries /\ exec'[n].why = "error" /\ exec'[n].pc # "assess"
        /\ exec[n].pc # "off"
        /\ \/ exec'[n].pc = "finalize"
           \/ exec[n].pc \in Working \ {"finalize", "commit"}
    <3> DEFINE e(next) == Spoiled(exec[n], next)
    <3>1. ASSUME NEW next \in {"insert", "cluster", "publish", "finalize"}
          PROVE  /\ IsExec(e(next)) /\ e(next).tries = exec[n].tries
                 /\ e(next).why = "error" /\ e(next).pc \in {next, "finalize"}
      BY <1>1 DEF Spoiled, IsExec
    <3> HIDE DEF e
    <3>2. CASE At(n, "insert")
      <4>1. PICK m \in exec[n].todo : exec'[n] = [e("insert") EXCEPT !.todo = @ \ {m}]
        BY <1>1, <1>8, <3>2 DEF StatementFails, At, e
      <4>2. /\ exec'[n].tries = exec[n].tries /\ exec'[n].why = "error"
            /\ exec'[n].pc \in {"insert", "finalize"}
        BY <3>1, <4>1 DEF IsExec
      <4> QED BY <3>2, <4>2 DEF At, Working
    <3>3. CASE ~At(n, "insert")
      <4>1. \/ /\ exec[n].pc \in {"capture", "cluster", "baseline"}
               /\ \E next \in {"cluster", "publish"} : exec'[n] = e(next)
            \/ exec[n].pc \in {"publish", "commit"} /\ exec'[n] = e("finalize")
        BY <1>1, <1>8, <3>3 DEF StatementFails, At, e
      <4> QED BY <3>1, <4>1 DEF Working
    <3> QED BY <3>2, <3>3
  <2>2. row' = row
    BY <1>8 DEF StatementFails
  <2>3. Goes /\ OnlyContention'
    BY <1>2, <2>2 DEF Goes, TriesInv, OnlyContention
  <2>4. Patient(n)'
    BY <1>2, <2>1, <2>3, Steady DEF Working
  <2> QED BY <1>2, <2>1, <2>2, <2>3, <2>4, TriesOthers
<1>9. CASE Superseded(n) \/ EvaluateFailed(n) \/ StoreFailedGate(n)
  <2>1. /\ exec'[n].tries \in {exec[n].tries, 0} /\ exec'[n].why \in {exec[n].why, "none"}
        /\ exec'[n].pc \in {"off", "upsert"} /\ exec[n].pc # "off" /\ row' = row
    BY <1>1, <1>9, <1>b DEF Superseded, EvaluateFailed, StoreFailedGate, At, IsExec, Working
  <2>2. Goes /\ OnlyContention'
    BY <1>2, <2>1 DEF Goes, TriesInv, OnlyContention
  <2>3. Patient(n)'
    BY <1>2, <2>1, Steady DEF Working
  <2> QED BY <1>2, <2>1, <2>2, <2>3, TriesOthers
<1>10. CASE UpdateFinding(n) \/ RecordAssessment(n)
  <2>1. /\ exec'[n].tries \in {exec[n].tries, 0} /\ exec'[n].why \in {exec[n].why, "none"}
        /\ exec'[n].pc \in {"record", "off"} /\ exec[n].pc \in {"assess", "record"}
    BY <1>1, <1>10, <1>b DEF UpdateFinding, RecordAssessment, Go, At, IsExec
  <2>2. Goes /\ row'.why = row.why
    BY <1>1, <1>10 DEF UpdateFinding, RecordAssessment, Goes, IsRow
  <2>3. row'.rev = row.rev \/ row.status = "completed"
    BY <1>1, <1>10 DEF UpdateFinding, RecordAssessment, At, Patient, IsRow
  <2>4. OnlyContention'
    BY <1>2, <2>2 DEF TriesInv, OnlyContention
  <2>5. Patient(n)'
    BY <1>2, <2>1, Steady DEF Working
  <2>6. exec[n].pc # "off" /\ (row.status = "completed" => row'.status = "completed")
    BY <2>1, <2>2 DEF Goes
  <2> QED BY <1>2, <2>2, <2>3, <2>4, <2>5, <2>6, TriesOthers
<1> QED BY <1>4, <1>5, <1>6, <1>7, <1>8, <1>9, <1>10

(* Nothing but its users' changes costs a scan its tries, however many     *)
(* executors lost the lease and whatever they still do (publishScanResults).*)
THEOREM OnlyContentionHolds == Spec => []OnlyContention
<1>1. Init => TriesInv
  BY DEF Init, TriesInv, Landed, OnlyContention, Patient, NoScan, Off, Owned, Working
<1>2. GateInv /\ StageInv /\ TriesInv /\ [Next]_vars => TriesInv'
  <2>1. ASSUME GateInv, StageInv, TriesInv, Next
        PROVE  TriesInv'
    BY <2>1, TriesUser, TriesBuilds, TriesPublishes DEF Next, Executor
  <2>2. ASSUME TriesInv, UNCHANGED vars
        PROVE  TriesInv'
    BY <2>2 DEF vars, TriesInv, Landed, OnlyContention, Patient, Owned, Token, Import
  <2> QED BY <2>1, <2>2
<1>3. TriesInv => OnlyContention
  BY DEF TriesInv
<1> QED BY <1>1, <1>2, <1>3, StageInvariance, PTL DEF Spec

-----------------------------------------------------------------------------
(* Suppression                                                             *)

(* What is stored is hidden for the reasons there are now, and only then.  *)
HidesRight(c, active, policy) ==
  \A m \in c.stored : m \in c.hidden <=> Hides(active, policy, m)

(* Before its row there is nothing of the scan.                            *)
Present ==
  /\ row.status = "absent" => cluster.stored = {}
  /\ \A n \in Attempts : exec[n].pc # "off" => row.status # "absent"

FlagInv ==
  /\ Present
  /\ ruleTx \in {"none", "listed", "unlisted"}
  /\ cluster.hidden \subseteq cluster.stored
  /\ ~missed => HidesRight(cluster, rule, row.policy)

LEMMA InsertFlags ==
  ASSUME NEW c, IsCluster(c), c.hidden \subseteq c.stored, NEW new \in SUBSET Members
  PROVE  /\ Insert(c, new).hidden \subseteq Insert(c, new).stored
         /\ HidesRight(c, rule, row.policy) => HidesRight(Insert(c, new), rule, row.policy)
<1>1. /\ Insert(c, new).stored = c.stored \cup new
      /\ Insert(c, new).hidden = c.hidden \cup {m \in new : Hides(rule, row.policy, m)}
  BY DEF IsCluster, Insert
<1> HIDE DEF Insert
<1> QED BY <1>1 DEF HidesRight

LEMMA DeleteFlags ==
  ASSUME NEW c, IsCluster(c), c.hidden \subseteq c.stored, NEW m
  PROVE  /\ Delete(c, m).hidden \subseteq Delete(c, m).stored
         /\ HidesRight(c, rule, row.policy) => HidesRight(Delete(c, m), rule, row.policy)
<1>1. Delete(c, m).stored = c.stored \ {m} /\ Delete(c, m).hidden = c.hidden \ {m}
  BY DEF IsCluster, Delete
<1> QED BY <1>1 DEF HidesRight

LEMMA ClassifiedFlags ==
  ASSUME NEW c, IsCluster(c)
  PROVE  /\ Classified(c).stored = c.stored /\ Classified(c).root = c.root
         /\ Classified(c).hidden = c.hidden /\ Classified(c).open = c.open
         /\ c.root # None => \A m \in c.stored : Classified(c).key[m] = c.root
BY DEF IsCluster, Classified

LEMMA ReselectedFlags ==
  ASSUME NEW c, IsCluster(c)
  PROVE  Reselected(c).stored = c.stored /\ Reselected(c).hidden = c.hidden
<1> DEFINE moved == [c EXCEPT !.root = IF @ = None THEN None ELSE Preferred(c)]
<1>1. IsCluster(moved) /\ moved.stored = c.stored /\ moved.hidden = c.hidden
  BY DEF IsCluster
<1> HIDE DEF moved
<1>2. Reselected(c) = IF moved.root = c.root THEN c
                      ELSE IF row.pinned THEN Classified(moved)
                      ELSE [moved EXCEPT !.key = [m \in Members |-> None]]
  BY DEF Reselected, moved
<1>3. /\ Classified(moved).stored = c.stored /\ Classified(moved).hidden = c.hidden
      /\ [moved EXCEPT !.key = [m \in Members |-> None]].stored = c.stored
      /\ [moved EXCEPT !.key = [m \in Members |-> None]].hidden = c.hidden
  BY <1>1, ClassifiedFlags DEF IsCluster
<1> QED BY <1>2, <1>3

LEMMA ProjectedFlags ==
  ASSUME IsCluster(cluster), cluster.hidden \subseteq cluster.stored, NEW active
  PROVE  /\ Projected(active).hidden \subseteq Projected(active).stored
         /\ Projected(active).stored = cluster.stored
         /\ HidesRight(Projected(active), active, row.policy)
<1> DEFINE c == [cluster EXCEPT !.hidden = {m \in @ \cup cluster.stored : Hides(active, row.policy, m)}]
<1>1. /\ IsCluster(c) /\ c.stored = cluster.stored
      /\ c.hidden = {m \in cluster.hidden \cup cluster.stored : Hides(active, row.policy, m)}
  BY DEF IsCluster
<1> HIDE DEF c
<1>2. Projected(active) = Reselected(c)
  BY DEF Projected, c
<1> QED BY <1>1, <1>2, ReselectedFlags DEF HidesRight

-----------------------------------------------------------------------------
(* The row, once there, stays, and an executor's step is of a scan there.  *)

LEMMA AtWork ==
  ASSUME NEW n \in Attempts, Executor(n)
  PROVE  exec[n].pc # "off"
BY DEF Executor, At, Working, ResetTool, InsertFindings, ImportFindings, CollectEvidence,
       CaptureIgnorePolicy, FinalizeClusters, PersistBaseline, PublishSnapshot, CompleteScan,
       CompleteUnheard, Completes, RetryPublication, FinalizeScan, Superseded, StatementFails,
       EvaluateFailed, StoreFailedGate, UpdateFinding, RecordAssessment

LEMMA StatusStep ==
  ASSUME GateInv, NEW n \in Attempts, Executor(n)
  PROVE  Goes \/ (row'.status \in Ended /\ row'.policy = row.policy)
<1>1. IsRow(row)
  BY DEF GateInv, Shape
<1>2. CASE \/ ResetTool(n) \/ InsertFindings(n) \/ ImportFindings(n) \/ CollectEvidence(n)
           \/ CaptureIgnorePolicy(n)
  BY <1>1, <1>2 DEF ResetTool, InsertFindings, ImportFindings, CollectEvidence,
                    CaptureIgnorePolicy, Goes, IsRow
<1>3. CASE \/ FinalizeClusters(n) \/ PersistBaseline(n) \/ PublishSnapshot(n)
           \/ RetryPublication(n) \/ Superseded(n) \/ StatementFails(n)
  BY <1>1, <1>3 DEF FinalizeClusters, PersistBaseline, PublishSnapshot, RetryPublication,
                    Superseded, StatementFails, Goes, IsRow
<1>4. CASE CompleteScan(n) \/ CompleteUnheard(n) \/ FinalizeScan(n)
  BY <1>1, <1>4 DEF CompleteScan, CompleteUnheard, Completes, FinalizeScan, IsRow, Ended
<1>5. CASE \/ EvaluateFailed(n) \/ StoreFailedGate(n) \/ UpdateFinding(n) \/ RecordAssessment(n)
  BY <1>1, <1>5 DEF EvaluateFailed, StoreFailedGate, UpdateFinding, RecordAssessment, Goes, IsRow
<1> QED BY <1>2, <1>3, <1>4, <1>5 DEF Executor

LEMMA PresentStep ==
  ASSUME GateInv, StageInv, Present, Next
  PROVE  Present'
<1>0. IsRow(row) /\ DOMAIN exec = Attempts /\ IsCluster(cluster)
  BY DEF GateInv, Shape, StageInv
<1>1. CASE Create \/ Claim
  BY <1>0, <1>1 DEF Create, Claim, Present, IsRow
<1>2. CASE Reclaim \/ RequestScanCancellation
  BY <1>0, <1>2 DEF Reclaim, RequestScanCancellation, Present, IsRow
<1>3. CASE Triage
  <2>1. cluster'.stored = cluster.stored /\ row'.status = row.status /\ exec' = exec
    BY <1>0, <1>3 DEF Triage, IsRow, IsCluster
  <2> QED BY <2>1 DEF Present
<1>4. CASE CommitRule
  <2>1. cluster'.stored = cluster.stored /\ row'.status = row.status /\ exec' = exec
    BY <1>0, <1>4, ProjectedShape DEF CommitRule, RowAfterRule, IsRow
  <2> QED BY <2>1 DEF Present
<1>5. CASE BeginRule \/ EvaluateGate \/ StoreGate
  BY <1>5 DEF BeginRule, EvaluateGate, StoreGate, Present
<1>6. ASSUME NEW n \in Attempts, Executor(n)
      PROVE  Present'
  <2>1. row'.status # "absent"
    BY <1>6, AtWork, StatusStep DEF Present, Goes, Ended
  <2> QED BY <2>1 DEF Present
<1> QED BY <1>1, <1>2, <1>3, <1>4, <1>5, <1>6 DEF Next

-----------------------------------------------------------------------------
(* Steps after which as much is hidden, for the same reasons.              *)
SameFlags ==
  /\ cluster'.stored = cluster.stored /\ cluster'.hidden = cluster.hidden
  /\ row'.policy = row.policy /\ rule' = rule /\ missed' = missed

LEMMA FlagSteps ==
  ASSUME GateInv, StageInv, FlagInv, Present', SameFlags,
         ruleTx' \in {"none", "listed", "unlisted"}
  PROVE  FlagInv'
BY DEF FlagInv, SameFlags, HidesRight

LEMMA FlagUser ==
  ASSUME GateInv, StageInv, FlagInv,
         \/ Create \/ Claim \/ Reclaim \/ RequestScanCancellation
         \/ Triage \/ BeginRule \/ CommitRule \/ EvaluateGate \/ StoreGate,
         Present'
  PROVE  FlagInv'
<1>0. IsRow(row) /\ IsCluster(cluster)
  BY DEF GateInv, Shape, StageInv
<1>1. CASE Create \/ Claim \/ Reclaim \/ RequestScanCancellation
  <2>1. SameFlags /\ ruleTx' = ruleTx
    BY <1>0, <1>1 DEF Create, Claim, Reclaim, RequestScanCancellation, SameFlags, IsRow
  <2> QED BY <2>1, FlagSteps DEF FlagInv
<1>2. CASE Triage
  <2>1. SameFlags /\ ruleTx' = ruleTx
    BY <1>0, <1>2 DEF Triage, SameFlags, IsRow, IsCluster
  <2> QED BY <2>1, FlagSteps DEF FlagInv
<1>3. CASE BeginRule \/ EvaluateGate \/ StoreGate
  <2>1. SameFlags /\ ruleTx' \in {ruleTx, "listed", "unlisted"}
    BY <1>3 DEF BeginRule, EvaluateGate, StoreGate, SameFlags
  <2> QED BY <2>1, FlagSteps DEF FlagInv
<1>4. CASE CommitRule
  <2>1. /\ rule' = ~rule /\ ruleTx' = "none" /\ row'.policy = row.policy
        /\ row'.status = row.status
    BY <1>0, <1>4 DEF CommitRule, RowAfterRule, IsRow
  <2>2. CASE ruleTx = "listed"
    <3>1. cluster' = Projected(~rule)
      BY <1>4, <2>2 DEF CommitRule
    <3> QED BY <1>0, <2>1, <3>1, ProjectedFlags DEF FlagInv
  <2>3. CASE ruleTx # "listed"
    <3>1. cluster' = cluster /\ (missed' <=> row.status # "absent")
      BY <1>4, <2>3 DEF CommitRule, FlagInv
    <3>2. row.status = "absent" => cluster.stored = {}
      BY DEF FlagInv, Present
    <3> QED BY <2>1, <3>1, <3>2 DEF FlagInv, HidesRight
  <2> QED BY <2>2, <2>3
<1> QED BY <1>1, <1>2, <1>3, <1>4

LEMMA FlagExecutor ==
  ASSUME GateInv, StageInv, FlagInv, NEW n \in Attempts, Executor(n), Present',
         At(n, "assess") => exec[n].primary \in cluster.stored
  PROVE  FlagInv'
<1>0. IsRow(row) /\ IsCluster(cluster) /\ Intact(n)
  BY DEF GateInv, Shape, StageInv
<1>a. rule' = rule /\ missed' = missed /\ ruleTx' = ruleTx
  BY DEF Executor, ResetTool, InsertFindings, ImportFindings, CollectEvidence,
       CaptureIgnorePolicy, FinalizeClusters, PersistBaseline, PublishSnapshot, CompleteScan,
       CompleteUnheard, RetryPublication, FinalizeScan, Superseded, StatementFails,
       EvaluateFailed, StoreFailedGate, UpdateFinding, RecordAssessment
<1>1. CASE ResetTool(n)
  <2>1. CASE cluster' = cluster
    BY <1>0, <1>1, <1>a, <2>1, FlagSteps DEF ResetTool, SameFlags, FlagInv, IsRow
  <2>2. CASE cluster' # cluster
    <3>1. PICK m \in exec[n].todo :
            cluster' = Delete(cluster, m) /\ row' = [row EXCEPT !.rev = @ + 1]
      BY <1>1, <2>2 DEF ResetTool
    <3>2. row'.policy = row.policy
      BY <1>0, <3>1 DEF IsRow
    <3> QED BY <1>0, <1>a, <3>1, <3>2, DeleteFlags DEF FlagInv
  <2> QED BY <2>1, <2>2
<1>2. CASE InsertFindings(n)
  <2>1. CASE cluster' = cluster
    BY <1>0, <1>2, <1>a, <2>1, FlagSteps DEF InsertFindings, SameFlags, FlagInv, IsRow
  <2>2. CASE cluster' # cluster
    <3>1. PICK m \in exec[n].todo :
            cluster' = Insert(cluster, {m}) /\ row' = [row EXCEPT !.rev = @ + 1]
      BY <1>2, <2>2 DEF InsertFindings
    <3>2. row'.policy = row.policy /\ {m} \in SUBSET Members
      BY <1>0, <3>1 DEF IsRow, Intact
    <3> QED BY <1>0, <1>a, <3>1, <3>2, InsertFlags DEF FlagInv
  <2> QED BY <2>1, <2>2
<1>3. CASE ImportFindings(n)
  <2>1. cluster' = Insert(cluster, Members) /\ row'.policy = row.policy
    BY <1>0, <1>3 DEF ImportFindings, IsRow
  <2> QED BY <1>0, <1>a, <2>1, InsertFlags DEF FlagInv
<1>4. CASE CaptureIgnorePolicy(n)
  <2>1. CASE row.policy
    BY <1>4, <1>a, <2>1, FlagSteps DEF CaptureIgnorePolicy, SameFlags, FlagInv
  <2>2. CASE ~row.policy
    <3>1. /\ row'.policy /\ cluster'.stored = cluster.stored
          /\ cluster'.hidden = cluster.hidden \cup (cluster.stored \cap Ignored)
      BY <1>0, <1>4, <2>2 DEF CaptureIgnorePolicy, IsRow, IsCluster
    <3>2. ~missed => HidesRight(cluster, rule, row.policy)
      BY DEF FlagInv
    <3> QED BY <1>a, <2>2, <3>1, <3>2 DEF FlagInv, HidesRight, Hides
  <2> QED BY <2>1, <2>2
<1>5. CASE FinalizeClusters(n)
  <2>1. SameFlags
    BY <1>0, <1>5, <1>a DEF FinalizeClusters, SameFlags, IsRow, IsCluster
  <2> QED BY <1>a, <2>1, FlagSteps DEF FlagInv
<1>6. CASE PersistBaseline(n)
  <2>1. SameFlags
    BY <1>0, <1>6, <1>a, ClassifiedFlags DEF PersistBaseline, SameFlags, IsRow
  <2> QED BY <1>a, <2>1, FlagSteps DEF FlagInv
<1>7. CASE UpdateFinding(n)
  <2> DEFINE m == exec[n].primary
  <2>1. /\ cluster'.stored = cluster.stored /\ row'.policy = row.policy
        /\ cluster'.hidden = IF Hides(rule, row.policy, m) THEN cluster.hidden \cup {m}
                             ELSE cluster.hidden \ {m}
    BY <1>0, <1>7 DEF UpdateFinding, IsRow, IsCluster
  <2>2. m \in cluster.stored
    BY <1>7 DEF UpdateFinding
  <2> HIDE DEF m
  <2> QED BY <1>a, <2>1, <2>2 DEF FlagInv, HidesRight
<1>8. CASE \/ CollectEvidence(n) \/ PublishSnapshot(n) \/ CompleteScan(n) \/ CompleteUnheard(n)
           \/ RetryPublication(n) \/ FinalizeScan(n) \/ Superseded(n) \/ StatementFails(n)
           \/ EvaluateFailed(n) \/ StoreFailedGate(n) \/ RecordAssessment(n)
  <2>1. SameFlags
    BY <1>0, <1>8, <1>a DEF CollectEvidence, PublishSnapshot, CompleteScan, CompleteUnheard,
          Completes, RetryPublication, FinalizeScan, Superseded, StatementFails, EvaluateFailed,
          StoreFailedGate, RecordAssessment, SameFlags, IsRow
  <2> QED BY <1>a, <2>1, FlagSteps DEF FlagInv
<1> QED BY <1>1, <1>2, <1>3, <1>4, <1>5, <1>6, <1>7, <1>8 DEF Executor

-----------------------------------------------------------------------------
(* The primary                                                             *)

(* Open evidence is shown by the primary, or was reopened since it was     *)
(* chosen.                                                                 *)
Stands(c, again) == \A m \in c.stored : Visible(c, m) => Visible(c, c.root) \/ again
Keyed(c) == \A m \in c.stored : c.key[m] = c.root

Stood == cluster.root \in cluster.stored /\ (~missed => Stands(cluster, reopened))
Classed == row.pinned /\ Keyed(cluster)

(* What an executor that still holds the lease has made of them, and the   *)
(* assessment of what was completed.                                       *)
Ready(n) ==
  /\ exec[n].pc = "assess" => row.status = "completed" /\ exec[n].primary \in cluster.stored
  /\ row.status = "completed" /\ Import => exec[n].pc # "insert"
  /\ Owned(n) /\ exec[n].ok =>
       /\ exec[n].pc \in Clustered => Stood
       /\ exec[n].pc \in {"publish", "commit"} => Classed

ShownInv ==
  /\ row.status = "completed" => Stood /\ Classed
  /\ \A n \in Attempts : Ready(n)

LEMMA PreferredIs ==
  ASSUME NEW c, IsCluster(c), c.stored # {}
  PROVE  /\ Preferred(c) \in c.stored
         /\ \A m \in c.stored : Visible(c, m) => Visible(c, Preferred(c))
<1> DEFINE Best(a) == \A b \in c.stored \ {a} : PreferPrimary(c, a, b)
<1>1. \E a \in c.stored : Best(a)
  BY MostPreferred
<1>2. Preferred(c) \in c.stored /\ Best(Preferred(c))
  BY <1>1 DEF Preferred
<1>3. ASSUME NEW m \in c.stored, Visible(c, m)
      PROVE  Visible(c, Preferred(c))
  BY <1>2, <1>3 DEF PreferPrimary
<1> QED BY <1>2, <1>3

LEMMA ReselectedStands ==
  ASSUME NEW c, IsCluster(c), c.root \in c.stored
  PROVE  /\ Reselected(c).root \in Reselected(c).stored
         /\ Stands(Reselected(c), FALSE)
         /\ row.pinned /\ Keyed(c) => Keyed(Reselected(c))
<1>0. c.root # None /\ c.stored # {}
  BY PublicationAssumption DEF PublicationAssumption, IsCluster
<1>1. PICK p \in c.stored : /\ p = Preferred(c)
                            /\ \A m \in c.stored : Visible(c, m) => Visible(c, p)
  BY <1>0, PreferredIs
<1> DEFINE moved == [c EXCEPT !.root = p]
           unkeyed == [moved EXCEPT !.key = [m \in Members |-> None]]
<1>2. Reselected(c) = IF p = c.root THEN c ELSE IF row.pinned THEN Classified(moved) ELSE unkeyed
  BY <1>0, <1>1 DEF Reselected, IsCluster
<1>3. /\ IsCluster(moved) /\ moved.root = p /\ moved.stored = c.stored
      /\ moved.open = c.open /\ moved.hidden = c.hidden
  BY DEF IsCluster
<1>4. /\ unkeyed.root = p /\ unkeyed.stored = c.stored
      /\ unkeyed.open = c.open /\ unkeyed.hidden = c.hidden
  BY DEF IsCluster
<1> HIDE DEF moved, unkeyed
<1>5. /\ Classified(moved).root = p /\ Classified(moved).stored = c.stored
      /\ Classified(moved).open = c.open /\ Classified(moved).hidden = c.hidden
      /\ Keyed(Classified(moved))
  <2>1. p # None
    BY PublicationAssumption DEF PublicationAssumption, IsCluster
  <2> QED BY <1>3, <2>1, ClassifiedFlags DEF Keyed
<1>6. \A d : d.root = p /\ d.stored = c.stored /\ d.open = c.open /\ d.hidden = c.hidden
               => d.root \in d.stored /\ Stands(d, FALSE)
  BY <1>1 DEF Stands, Visible
<1>7. CASE p = c.root
  BY <1>2, <1>6, <1>7
<1>8. CASE p # c.root /\ row.pinned
  <2>1. Reselected(c) = Classified(moved)
    BY <1>2, <1>8
  <2> QED BY <1>5, <1>6, <2>1
<1>9. CASE p # c.root /\ ~row.pinned
  <2>1. Reselected(c) = unkeyed
    BY <1>2, <1>9
  <2> QED BY <1>4, <1>6, <1>9, <2>1
<1> QED BY <1>7, <1>8, <1>9

LEMMA ProjectedStands ==
  ASSUME IsCluster(cluster), cluster.root \in cluster.stored, NEW active
  PROVE  /\ Projected(active).root \in Projected(active).stored
         /\ Stands(Projected(active), FALSE)
         /\ row.pinned /\ Keyed(cluster) => Keyed(Projected(active))
<1> DEFINE c == [cluster EXCEPT !.hidden = {m \in @ \cup cluster.stored : Hides(active, row.policy, m)}]
<1>1. /\ IsCluster(c) /\ c.stored = cluster.stored /\ c.root = cluster.root
      /\ c.key = cluster.key
  BY DEF IsCluster
<1> HIDE DEF c
<1>2. Projected(active) = Reselected(c)
  BY DEF Projected, c
<1>3. Keyed(cluster) => Keyed(c)
  BY <1>1 DEF Keyed
<1> QED BY <1>1, <1>2, <1>3, ReselectedStands

-----------------------------------------------------------------------------
(* What carries the choice of the primary and the classification over      *)
Carries ==
  /\ cluster'.stored = cluster.stored
  /\ Stood => Stood'
  /\ Classed /\ Stood => Classed'

Still == /\ cluster' = cluster /\ missed' = missed /\ reopened' = reopened
         /\ row'.pinned = row.pinned

LEMMA StillCarries == Still => Carries
BY DEF Still, Carries, Stood, Classed, Stands, Keyed, Visible

(* Triage moves a cluster as a whole, and reopening is remembered.         *)
LEMMA TriageCarries ==
  ASSUME GateInv, StageInv, Triage
  PROVE  Carries
<1>0. IsRow(row) /\ IsCluster(cluster)
  BY DEF GateInv, Shape, StageInv
<1>1. PICK m \in cluster.stored, again \in BOOLEAN :
        LET target == IF cluster.root = None THEN {m} ELSE cluster.stored IN
        /\ cluster' = [cluster EXCEPT !.open = IF again THEN @ \cup target ELSE @ \ target]
        /\ reopened' = (reopened \/ again)
  BY DEF Triage
<1>2. row'.pinned = row.pinned /\ missed' = missed
  BY <1>0 DEF Triage, IsRow
<1>3. /\ cluster'.stored = cluster.stored /\ cluster'.root = cluster.root
      /\ cluster'.hidden = cluster.hidden /\ cluster'.key = cluster.key
  BY <1>0, <1>1 DEF IsCluster
<1>4. ASSUME Stood
      PROVE  Stood'
  <2>1. cluster.root # None
    BY <1>0, <1>4, PublicationAssumption DEF PublicationAssumption, Stood, IsCluster
  <2>2. cluster'.open = IF again THEN cluster.open \cup cluster.stored
                        ELSE cluster.open \ cluster.stored
    BY <1>0, <1>1, <2>1 DEF IsCluster
  <2>3. CASE again
    BY <1>1, <1>3, <1>4, <2>3 DEF Stood, Stands
  <2>4. CASE ~again
    BY <1>3, <1>4, <2>2, <2>4 DEF Stood, Stands, Visible
  <2> QED BY <2>3, <2>4
<1> QED BY <1>2, <1>3, <1>4 DEF Carries, Classed, Keyed

(* A change of the rule projects the scan and selects the primary again,   *)
(* or has missed the scan.                                                 *)
LEMMA RuleCarries ==
  ASSUME GateInv, StageInv, FlagInv, CommitRule, row.status # "absent"
  PROVE  Carries
<1>0. IsRow(row) /\ IsCluster(cluster)
  BY DEF GateInv, Shape, StageInv
<1>1. row'.pinned = row.pinned
  BY <1>0 DEF CommitRule, RowAfterRule, IsRow
<1>2. CASE ruleTx = "listed"
  <2>1. cluster' = Projected(~rule) /\ cluster'.stored = cluster.stored
    BY <1>0, <1>2, ProjectedShape DEF CommitRule
  <2>2. ASSUME cluster.root \in cluster.stored
        PROVE  /\ cluster'.root \in cluster'.stored
               /\ Stands(cluster', FALSE)
               /\ row.pinned /\ Keyed(cluster) => Keyed(cluster')
    BY <1>0, <2>1, <2>2, ProjectedStands
  <2>3. Stands(cluster', FALSE) => Stands(cluster', reopened')
    BY DEF Stands
  <2> QED BY <1>1, <2>1, <2>2, <2>3 DEF Carries, Stood, Classed
<1>3. CASE ruleTx # "listed"
  <2>1. cluster' = cluster /\ missed'
    BY <1>3 DEF CommitRule, FlagInv
  <2> QED BY <1>1, <2>1 DEF Carries, Stood, Classed
<1> QED BY <1>2, <1>3

-----------------------------------------------------------------------------
(* The steps of users, workers and readers                                 *)

LEMMA ReadyKept ==
  ASSUME NEW k, Ready(k), Carries, exec'[k] = exec[k], kind' = kind,
         row.status = "completed" => row'.status = "completed",
         row'.status = "completed" => row.status = "completed" \/ ~Import,
         Owned(k)' => Owned(k)
  PROVE  Ready(k)'
<1>1. Import' = Import
  BY DEF Import
<1>2. ASSUME Owned(k)', exec'[k].ok
      PROVE  /\ exec'[k].pc \in Clustered => Stood'
             /\ exec'[k].pc \in {"publish", "commit"} => Classed'
  BY <1>2 DEF Ready, Carries, Clustered
<1>3. /\ exec'[k].pc = "assess" => row'.status = "completed" /\ exec'[k].primary \in cluster'.stored
      /\ row'.status = "completed" /\ Import => exec'[k].pc # "insert"
  BY DEF Ready, Carries
<1> QED BY <1>1, <1>2, <1>3 DEF Ready

LEMMA ShownUser ==
  ASSUME GateInv, StageInv, FlagInv, ShownInv,
         \/ Create \/ Claim \/ Reclaim \/ RequestScanCancellation
         \/ Triage \/ BeginRule \/ CommitRule \/ EvaluateGate \/ StoreGate
  PROVE  ShownInv'
<1>0. IsRow(row) /\ IsCluster(cluster) /\ DOMAIN exec = Attempts
  BY DEF GateInv, Shape, StageInv
<1>1. CASE Create
  <2>1. row'.status \notin {"completed", "absent"} /\ Still
    BY <1>0, <1>1 DEF Create, IsRow, Still
  <2>2. ASSUME NEW k \in Attempts
        PROVE  Ready(k)'
    <3>1. CASE exec'[k] = exec[k]
      <4>1. exec[k].pc = "off"
        BY <1>1 DEF Create, FlagInv, Present
      <4> QED BY <2>1, <3>1, <4>1 DEF Ready, Clustered
    <3>2. CASE exec'[k] # exec[k]
      <4>1. exec'[k].pc = "insert"
        BY <1>0, <1>1, <3>2 DEF Create, Off
      <4> QED BY <2>1, <4>1 DEF Ready, Clustered
    <3> QED BY <3>1, <3>2
  <2> QED BY <2>1, <2>2 DEF ShownInv
<1>2. CASE Claim
  <2> DEFINE n == row.attempt + 1
  <2>1. PICK redo \in SUBSET Members :
          /\ row' = [row EXCEPT !.status = "running", !.token = n, !.attempt = n]
          /\ exec' = [exec EXCEPT ![n] =
                     [Off EXCEPT !.pc = IF n = 1 THEN "insert" ELSE "reset",
                                 !.redo = IF n = 1 THEN {} ELSE redo, !.todo = redo]]
    BY <1>2 DEF Claim
  <2> HIDE DEF n
  <2>2. row.status = "pending" /\ Still /\ kind' = kind /\ cluster' = cluster
    BY <1>0, <1>2 DEF Claim, Still, IsRow
  <2>3. row'.status = "running" /\ row'.token = n /\ ~Import /\ ~Import'
    BY <1>0, <2>1, <2>2 DEF IsRow, StageInv, Alone, Import
  <2>4. ASSUME NEW k \in Attempts
        PROVE  Ready(k)'
    <3>1. Ready(k)
      BY DEF ShownInv
    <3>2. CASE k # n
      <4>1. ~Owned(k)' /\ exec'[k] = exec[k]
        BY <1>0, <2>1, <2>3, <3>2 DEF Owned, Token
      <4> QED BY <2>2, <2>3, <3>1, <4>1 DEF Ready
    <3>3. CASE k = n
      <4>1. exec'[k] = [Off EXCEPT !.pc = IF n = 1 THEN "insert" ELSE "reset",
                                   !.redo = IF n = 1 THEN {} ELSE redo, !.todo = redo]
        BY <1>0, <2>1, <3>3
      <4>2. exec'[k].pc \in {"insert", "reset"}
        BY <4>1 DEF Off
      <4> QED BY <2>3, <4>2 DEF Ready, Clustered
    <3> QED BY <3>2, <3>3
  <2> QED BY <2>3, <2>4 DEF ShownInv
<1>3. CASE \/ Reclaim \/ RequestScanCancellation \/ BeginRule \/ EvaluateGate \/ StoreGate
  <2>1. /\ Still /\ exec' = exec /\ kind' = kind
        /\ row'.status = "completed" <=> row.status = "completed"
    BY <1>0, <1>3 DEF Reclaim, RequestScanCancellation, BeginRule, EvaluateGate, StoreGate,
                      Still, IsRow
  <2>2. \A k \in Attempts : Owned(k)' => Owned(k)
    BY <1>0, <1>3 DEF Reclaim, RequestScanCancellation, BeginRule, EvaluateGate, StoreGate,
                      Owned, Token, Import, IsRow
  <2>3. \A k \in Attempts : Ready(k)'
    BY <2>1, <2>2, StillCarries, ReadyKept DEF ShownInv
  <2> QED BY <2>1, <2>3, StillCarries DEF ShownInv, Carries
<1>4. CASE Triage \/ CommitRule
  <2>1. /\ exec' = exec /\ kind' = kind /\ row'.status = row.status
        /\ row'.token = row.token /\ row'.cancel = row.cancel
    BY <1>0, <1>4 DEF Triage, CommitRule, RowAfterRule, IsRow
  <2>2. CASE row.status = "absent"
    <3>1. \A k \in Attempts : exec[k].pc = "off"
      BY <2>2 DEF FlagInv, Present
    <3> QED BY <2>1, <2>2, <3>1 DEF ShownInv, Ready, Clustered
  <2>3. CASE row.status # "absent"
    <3>1. Carries
      BY <1>4, <2>3, TriageCarries, RuleCarries
    <3>2. \A k \in Attempts : Owned(k)' => Owned(k)
      BY <2>1 DEF Owned, Token, Import
    <3>3. \A k \in Attempts : Ready(k)'
      BY <2>1, <3>1, <3>2, ReadyKept DEF ShownInv
    <3> QED BY <2>1, <3>1, <3>3 DEF ShownInv, Carries
  <2> QED BY <2>2, <2>3
<1> QED BY <1>1, <1>2, <1>3, <1>4

-----------------------------------------------------------------------------
(* The steps of an executor                                                *)

(* Findings change under the lease, by the one executor of an import, or   *)
(* when the result stands and only its assessment is recorded.             *)
LEMMA ShownOthers ==
  ASSUME GateInv, StageInv, ShownInv, NEW n \in Attempts, Executor(n), kind' = kind,
         Owned(n) \/ Import \/ Carries,
         row.status = "completed" => row'.status = "completed" /\ Carries
  PROVE  \A k \in Attempts \ {n} : Ready(k)'
<1> SUFFICES ASSUME NEW k \in Attempts \ {n}
             PROVE  Ready(k)'
  OBVIOUS
<1>1. exec'[k] = exec[k] /\ Ready(k) /\ exec[n].pc # "off" /\ Import' = Import
  BY OwnMemory, AtWork DEF ShownInv, Import
<1>2. CASE exec[k].pc = "off"
  BY <1>1, <1>2 DEF Ready, Clustered
<1>3. CASE exec[k].pc # "off"
  <2>1. ~Import
    BY <1>1, <1>3 DEF StageInv, Alone
  <2>2. Owned(k)' => Owned(k)
    BY StatusStep DEF Goes, Owned, Token, Import, Ended
  <2>3. Owned(k) => Carries
    BY <1>1, <1>3, <2>1, OneOwner
  <2>4. ASSUME Owned(k)', exec'[k].ok
        PROVE  /\ exec'[k].pc \in Clustered => Stood'
               /\ exec'[k].pc \in {"publish", "commit"} => Classed'
    BY <1>1, <2>2, <2>3, <2>4 DEF Ready, Carries, Clustered
  <2>5. exec'[k].pc = "assess" => row'.status = "completed" /\ exec'[k].primary \in cluster'.stored
    BY <1>1 DEF Ready, Carries
  <2> QED BY <1>1, <2>1, <2>4, <2>5 DEF Ready
<1> QED BY <1>2, <1>3

LEMMA ShownBuilds ==
  ASSUME GateInv, StageInv, FlagInv, ShownInv, NEW n \in Attempts,
         \/ ResetTool(n) \/ InsertFindings(n) \/ ImportFindings(n) \/ CollectEvidence(n)
         \/ CaptureIgnorePolicy(n) \/ FinalizeClusters(n) \/ PersistBaseline(n)
  PROVE  ShownInv'
<1>0. /\ Intact(n) /\ Ready(n) /\ IsCluster(cluster) /\ IsExec(exec[n])
      /\ DOMAIN exec = Attempts /\ IsRow(row)
  BY DEF StageInv, GateInv, Shape, ShownInv
<1>1. Executor(n) /\ kind' = kind
  BY DEF ResetTool, InsertFindings, ImportFindings, CollectEvidence, CaptureIgnorePolicy,
         FinalizeClusters, PersistBaseline, Executor
<1>2. Owned(n) \/ (Import /\ exec[n].pc = "insert")
  BY DEF ResetTool, InsertFindings, ImportFindings, CollectEvidence, CaptureIgnorePolicy,
         FinalizeClusters, PersistBaseline, At
<1>3. row'.status = row.status
  BY <1>0 DEF ResetTool, InsertFindings, ImportFindings, CollectEvidence, CaptureIgnorePolicy,
              FinalizeClusters, PersistBaseline, IsRow
<1>4. row.status # "completed"
  BY <1>0, <1>2 DEF Ready, Owned
<1>5. \A k \in Attempts \ {n} : Ready(k)'
  BY <1>1, <1>2, <1>3, <1>4, ShownOthers
<1>6. ASSUME /\ exec'[n].pc \notin {"assess"}
             /\ exec'[n].ok /\ exec'[n].pc \in Clustered => Stood'
             /\ exec'[n].ok /\ exec'[n].pc \in {"publish", "commit"} => Classed'
      PROVE  ShownInv'
  BY <1>3, <1>4, <1>5, <1>6 DEF ShownInv, Ready
<1>7. CASE ResetTool(n)
  BY <1>0, <1>6, <1>7 DEF ResetTool, At, IsExec, Clustered
<1>8. CASE InsertFindings(n)
  BY <1>0, <1>6, <1>8 DEF InsertFindings, At, Go, IsExec, Clustered
<1>9. CASE ImportFindings(n) \/ CollectEvidence(n)
  <2>1. exec'[n].pc = "capture"
    BY <1>0, <1>9 DEF ImportFindings, CollectEvidence, IsExec
  <2> QED BY <1>6, <2>1 DEF Clustered
<1>10. CASE CaptureIgnorePolicy(n)
  <2>1. exec'[n].pc = "cluster"
    BY <1>0, <1>10 DEF CaptureIgnorePolicy, Go, IsExec
  <2> QED BY <1>6, <2>1 DEF Clustered
<1>11. CASE FinalizeClusters(n)
  <2> DEFINE final == [cluster EXCEPT !.root = FinalRoot(exec[n].primary)]
  <2>0. Owned(n) /\ exec[n].pc = "cluster"
    BY <1>11 DEF FinalizeClusters, At
  <2>1. CASE ~row.policy /\ Unrepresented(exec[n].primary)
    <3>1. exec' = [exec EXCEPT ![n] = Spoiled(exec[n], "publish")]
      BY <1>11, <2>1 DEF FinalizeClusters
    <3>2. ~exec'[n].ok /\ exec'[n].pc \in {"finalize", "publish"}
      BY <1>0, <3>1 DEF Spoiled, IsExec
    <3> QED BY <1>6, <3>2
  <2>2. CASE ~(~row.policy /\ Unrepresented(exec[n].primary))
    <3>1. /\ cluster' = final /\ ~reopened' /\ missed' = missed
          /\ exec' = [exec EXCEPT ![n].pc = AfterClustering(exec[n]), ![n].primary = None,
                                  ![n].count = Cardinality(View(final))]
      BY <1>11, <2>2 DEF FinalizeClusters
    <3>2. /\ cluster'.stored = cluster.stored /\ cluster'.open = cluster.open
          /\ cluster'.hidden = cluster.hidden
          /\ cluster'.root = FinalRoot(exec[n].primary)
      BY <1>0, <3>1 DEF IsCluster
    <3> HIDE DEF final
    <3>3. exec'[n].pc = AfterClustering(exec[n]) /\ exec'[n].ok = exec[n].ok
      BY <1>0, <3>1 DEF IsExec
    <3>4. ASSUME exec[n].ok
          PROVE  exec'[n].pc = "baseline" /\ Stood'
      <4>1. row.policy /\ cluster.stored # {}
        BY <1>0, <2>0, <3>4, PublicationAssumption
           DEF PublicationAssumption, Intact, Captured, Collected
      <4>2. /\ cluster'.root \in cluster.stored
            /\ \A m \in cluster.stored : Visible(cluster, m) => Visible(cluster, cluster'.root)
        BY <1>0, <3>2, <4>1, PreferredIs DEF FinalRoot
      <4>3. exec'[n].pc = "baseline"
        BY <3>3, <3>4 DEF AfterClustering
      <4> QED BY <3>2, <4>2, <4>3 DEF Stood, Stands, Visible
    <3>5. exec'[n].pc \in {"baseline", "publish"}
      BY <3>3 DEF AfterClustering
    <3> QED BY <1>6, <3>3, <3>4, <3>5
  <2> QED BY <2>1, <2>2
<1>12. CASE PersistBaseline(n)
  <2>1. /\ exec'[n].pc = "publish" /\ exec'[n].ok = exec[n].ok
        /\ Owned(n) /\ exec[n].pc = "baseline"
    BY <1>0, <1>12 DEF PersistBaseline, At, Go, IsExec
  <2>2. /\ cluster' = Classified(cluster) /\ row'.pinned
        /\ missed' = missed /\ reopened' = reopened
    BY <1>0, <1>12 DEF PersistBaseline, IsRow
  <2>3. ASSUME exec[n].ok
        PROVE  Stood' /\ Classed'
    <3>1. Stood
      BY <1>0, <2>1, <2>3 DEF Ready, Clustered
    <3>2. cluster.root # None
      BY <1>0, <3>1, PublicationAssumption DEF PublicationAssumption, Stood, IsCluster
    <3>3. /\ cluster'.stored = cluster.stored /\ cluster'.root = cluster.root
          /\ cluster'.hidden = cluster.hidden /\ cluster'.open = cluster.open
          /\ \A m \in cluster.stored : cluster'.key[m] = cluster.root
      BY <1>0, <2>2, <3>2, ClassifiedFlags
    <3> QED BY <2>2, <3>1, <3>3 DEF Stood, Classed, Stands, Keyed, Visible
  <2> QED BY <1>6, <2>1, <2>3
<1> QED BY <1>7, <1>8, <1>9, <1>10, <1>11, <1>12

(* A statement that fails spoils what it leaves.                           *)
LEMMA FailLeaves ==
  ASSUME GateInv, NEW n \in Attempts, StatementFails(n)
  PROVE  /\ ~exec'[n].ok /\ exec'[n].pc \in {"insert", "cluster", "publish", "finalize"}
         /\ exec'[n].pc = "insert" => exec[n].pc = "insert"
<1>0. IsExec(exec[n]) /\ DOMAIN exec = Attempts
  BY DEF GateInv, Shape
<1> DEFINE e(next) == Spoiled(exec[n], next)
<1>1. ASSUME NEW next \in {"insert", "cluster", "publish", "finalize"}
      PROVE  IsExec(e(next)) /\ ~e(next).ok /\ e(next).pc \in {next, "finalize"}
  BY <1>0 DEF Spoiled, IsExec
<1> HIDE DEF e
<1>2. CASE At(n, "insert")
  <2>1. PICK m \in exec[n].todo : exec'[n] = [e("insert") EXCEPT !.todo = @ \ {m}]
    BY <1>0, <1>2 DEF StatementFails, At, e
  <2>2. ~exec'[n].ok /\ exec'[n].pc \in {"insert", "finalize"}
    BY <1>1, <2>1 DEF IsExec
  <2> QED BY <1>2, <2>2 DEF At
<1>3. CASE ~At(n, "insert")
  <2>1. \E next \in {"cluster", "publish", "finalize"} : exec'[n] = e(next)
    BY <1>0, <1>3 DEF StatementFails, At, e
  <2> QED BY <1>1, <2>1
<1> QED BY <1>2, <1>3

LEMMA ShownPublishes ==
  ASSUME GateInv, StageInv, FlagInv, ShownInv, NEW n \in Attempts,
         \/ PublishSnapshot(n) \/ CompleteScan(n) \/ CompleteUnheard(n) \/ RetryPublication(n)
         \/ FinalizeScan(n) \/ Superseded(n) \/ StatementFails(n)
         \/ EvaluateFailed(n) \/ StoreFailedGate(n) \/ RecordAssessment(n)
  PROVE  ShownInv'
<1>0. /\ Intact(n) /\ Ready(n) /\ IsCluster(cluster) /\ IsExec(exec[n])
      /\ DOMAIN exec = Attempts /\ IsRow(row)
  BY DEF StageInv, GateInv, Shape, ShownInv
<1>1. Executor(n) /\ kind' = kind
  BY DEF PublishSnapshot, CompleteScan, CompleteUnheard, Completes, RetryPublication, FinalizeScan,
         Superseded, StatementFails, EvaluateFailed, StoreFailedGate, RecordAssessment, Executor
<1>2. Still /\ Carries
  <2>1. Still
    BY <1>0 DEF PublishSnapshot, CompleteScan, CompleteUnheard, Completes, RetryPublication,
         FinalizeScan, Superseded, StatementFails, EvaluateFailed, StoreFailedGate,
         RecordAssessment, IsRow, Still
  <2> QED BY <2>1, StillCarries
<1>a. Off.pc = "off"
  BY DEF Off
<1>3. row.status = "completed" => row'.status = "completed"
  <2>1. CASE CompleteScan(n) \/ CompleteUnheard(n)
    BY <1>0, <2>1 DEF CompleteScan, CompleteUnheard, Completes, IsRow
  <2>2. CASE FinalizeScan(n)
    BY <2>2 DEF FinalizeScan, Owned
  <2>3. CASE ~(CompleteScan(n) \/ CompleteUnheard(n) \/ FinalizeScan(n))
    BY <1>0, <2>3 DEF PublishSnapshot, RetryPublication, Superseded, StatementFails,
                      EvaluateFailed, StoreFailedGate, RecordAssessment, IsRow
  <2> QED BY <2>1, <2>2, <2>3
<1>4. \A k \in Attempts \ {n} : Ready(k)'
  BY <1>1, <1>2, <1>3, ShownOthers
<1>5. CASE CompleteScan(n) \/ CompleteUnheard(n)
  <2>1. /\ Owned(n) /\ exec[n].pc = "commit" /\ row'.status = "completed"
    BY <1>0, <1>5 DEF CompleteScan, CompleteUnheard, Completes, At, IsRow
  <2>2. Stood' /\ Classed' /\ cluster.root \in cluster'.stored
    <3>1. exec[n].ok
      BY <1>0, <2>1 DEF Intact
    <3>2. Stood /\ Classed
      BY <1>0, <2>1, <3>1 DEF Ready, Clustered
    <3> QED BY <1>2, <3>2 DEF Carries, Stood
  <2>3. Ready(n)'
    <3>1. CASE CompleteScan(n) /\ exec'[n].pc = "assess"
      <4>1. exec'[n].primary = cluster.root
        BY <1>0, <1>a, <3>1 DEF CompleteScan, IsExec
      <4> QED BY <2>1, <2>2, <3>1, <4>1 DEF Ready, Clustered
    <3>2. CASE CompleteScan(n) /\ exec'[n].pc # "assess"
      <4>1. exec'[n].pc = "off"
        BY <1>0, <1>a, <3>2 DEF CompleteScan, IsExec
      <4> QED BY <4>1 DEF Ready, Clustered
    <3>3. CASE CompleteUnheard(n)
      <4>1. exec'[n].pc = "finalize"
        BY <1>0, <3>3 DEF CompleteUnheard, Spoiled, IsExec
      <4> QED BY <4>1 DEF Ready, Clustered
    <3> QED BY <1>5, <3>1, <3>2, <3>3
  <2> QED BY <1>4, <2>2, <2>3 DEF ShownInv
<1>6. CASE ~(CompleteScan(n) \/ CompleteUnheard(n))
  <2>1. row'.status = "completed" => row.status = "completed"
    BY <1>0, <1>6 DEF PublishSnapshot, RetryPublication, FinalizeScan, Superseded, StatementFails,
                      EvaluateFailed, StoreFailedGate, RecordAssessment, IsRow
  <2>2. /\ exec'[n].pc # "assess"
        /\ exec'[n].pc = "insert" => exec[n].pc = "insert"
        /\ exec'[n].ok /\ exec'[n].pc \in Clustered =>
             exec[n].ok /\ exec[n].pc \in {"publish", "commit"} /\ (Owned(n)' => Owned(n))
    <3>1. CASE PublishSnapshot(n)
      BY <1>0, <3>1 DEF PublishSnapshot, At, IsExec, Owned, Clustered
    <3>2. CASE RetryPublication(n)
      <4>1. \/ exec'[n].pc = "publish" /\ exec'[n].ok = exec[n].ok
            \/ exec'[n].pc = "finalize"
        BY <1>0, <3>2 DEF RetryPublication, IsExec
      <4> QED BY <3>2, <4>1 DEF RetryPublication, At, Clustered
    <3>3. CASE FinalizeScan(n)
      BY <1>0, <3>3 DEF FinalizeScan, Go, IsExec, Clustered
    <3>4. CASE StatementFails(n)
      BY <3>4, FailLeaves
    <3>5. CASE EvaluateFailed(n)
      BY <1>0, <3>5 DEF EvaluateFailed, IsExec, Clustered
    <3>6. CASE Superseded(n) \/ StoreFailedGate(n) \/ RecordAssessment(n)
      BY <1>0, <1>a, <3>6 DEF Superseded, StoreFailedGate, RecordAssessment, Clustered
    <3> QED BY <1>6, <3>1, <3>2, <3>3, <3>4, <3>5, <3>6
  <2>3. Ready(n)'
    <3>1. Import' = Import
      BY <1>1 DEF Import
    <3>2. row'.status = "completed" /\ Import => exec'[n].pc # "insert"
      BY <1>0, <2>1, <2>2 DEF Ready
    <3>3. Owned(n)' /\ exec'[n].ok /\ exec'[n].pc \in Clustered => Stood' /\ Classed'
      BY <1>0, <1>2, <2>2 DEF Ready, Carries, Clustered
    <3> QED BY <2>2, <3>1, <3>2, <3>3 DEF Ready, Clustered
  <2> QED BY <1>2, <1>4, <2>1, <2>3 DEF ShownInv, Carries
<1> QED BY <1>5, <1>6

(* An assessment projects the rule of the moment onto the primary: what    *)
(* the rule's own transaction made of it.                                  *)
LEMMA ShownAssesses ==
  ASSUME GateInv, StageInv, FlagInv, ShownInv, NEW n \in Attempts, UpdateFinding(n)
  PROVE  ShownInv'
<1>0. /\ Ready(n) /\ IsCluster(cluster) /\ IsExec(exec[n])
      /\ DOMAIN exec = Attempts /\ IsRow(row)
  BY DEF StageInv, GateInv, Shape, ShownInv
<1> DEFINE m == exec[n].primary
<1>1. /\ cluster'.stored = cluster.stored /\ cluster'.root = cluster.root
      /\ cluster'.open = cluster.open /\ cluster'.key = cluster.key
      /\ cluster'.hidden = IF Hides(rule, row.policy, m) THEN cluster.hidden \cup {m}
                           ELSE cluster.hidden \ {m}
  BY <1>0 DEF UpdateFinding, IsCluster
<1>2. /\ row'.status = row.status /\ row'.pinned = row.pinned
      /\ missed' = missed /\ reopened' = reopened /\ kind' = kind /\ Executor(n)
  BY <1>0 DEF UpdateFinding, IsRow, Executor
<1>3. row.status = "completed" /\ m \in cluster.stored /\ exec'[n].pc = "record"
  BY <1>0 DEF UpdateFinding, At, Go, Ready, IsExec
<1> HIDE DEF m
<1>4. ~missed => cluster'.hidden = cluster.hidden
  BY <1>1, <1>3 DEF FlagInv, HidesRight
<1>5. Carries
  BY <1>1, <1>2, <1>4 DEF Carries, Stood, Classed, Stands, Keyed, Visible
<1>6. \A k \in Attempts \ {n} : Ready(k)'
  BY <1>2, <1>5, ShownOthers
<1>7. Ready(n)'
  BY <1>3 DEF Ready, Clustered
<1> QED BY <1>2, <1>5, <1>6, <1>7 DEF ShownInv, Carries

LEMMA ShownInvariance == Spec => [](FlagInv /\ ShownInv)
<1>1. Init => FlagInv /\ ShownInv
  <2> SUFFICES ASSUME Init
               PROVE  FlagInv /\ ShownInv
    OBVIOUS
  <2>1. /\ row.status = "absent" /\ cluster.stored = {} /\ cluster.hidden = {}
        /\ ruleTx = "none" /\ \A n \in Attempts : exec[n].pc = "off"
    BY DEF Init, NoScan, NoFindings, Off
  <2> QED BY <2>1 DEF FlagInv, Present, HidesRight, ShownInv, Ready, Clustered
<1>2. GateInv /\ StageInv /\ FlagInv /\ ShownInv /\ [Next]_vars => FlagInv' /\ ShownInv'
  <2>1. ASSUME GateInv, StageInv, FlagInv, ShownInv, Next
        PROVE  FlagInv' /\ ShownInv'
    <3>1. Present'
      BY <2>1, PresentStep DEF FlagInv
    <3>2. CASE \/ Create \/ Claim \/ Reclaim \/ RequestScanCancellation
               \/ Triage \/ BeginRule \/ CommitRule \/ EvaluateGate \/ StoreGate
      BY <2>1, <3>1, <3>2, FlagUser, ShownUser
    <3>3. ASSUME NEW n \in Attempts, Executor(n)
          PROVE  FlagInv' /\ ShownInv'
      <4>1. At(n, "assess") => exec[n].primary \in cluster.stored
        BY <2>1 DEF ShownInv, Ready, At
      <4>2. FlagInv'
        BY <2>1, <3>1, <3>3, <4>1, FlagExecutor
      <4>3. ShownInv'
        BY <2>1, <3>3, ShownBuilds, ShownPublishes, ShownAssesses DEF Executor
      <4> QED BY <4>2, <4>3
    <3> QED BY <2>1, <3>2, <3>3 DEF Next
  <2>2. ASSUME FlagInv, ShownInv, UNCHANGED vars
        PROVE  FlagInv' /\ ShownInv'
    BY <2>2 DEF vars, FlagInv, Present, HidesRight, ShownInv, Ready, Stood, Classed, Stands, Keyed,
                Visible, Owned, Token, Import
  <2> QED BY <2>1, <2>2
<1> QED BY <1>1, <1>2, StageInvariance, PTL DEF Spec

(* Whoever inserts, captures, assesses, triages or recovers while a rule   *)
(* changes: what is stored is hidden for the reasons there are now, and    *)
(* the primary of a completed scan shows its open evidence and carries its *)
(* classification (reconcileFindingSuppressionsTx,                         *)
(* reselectSuppressedClusterPrimariesTx, FinalizeFindingClusters).         *)
THEOREM ProjectionCurrentHolds == Spec => []ProjectionCurrent
<1>1. FlagInv => RuleApplied
  BY DEF FlagInv, HidesRight, RuleApplied, Hides
<1>2. ShownInv => (~missed => Represented)
  BY DEF ShownInv, Represented, Stood, Classed, Stands, Keyed
<1>3. FlagInv /\ ShownInv => ProjectionCurrent
  BY <1>1, <1>2 DEF ProjectionCurrent
<1> QED BY <1>3, ShownInvariance, PTL

-----------------------------------------------------------------------------
(* Types                                                                   *)

(* Tries are counted by the snapshots taken; one is left to take another.  *)
Tried ==
  \A n \in Attempts :
    /\ exec[n].pc \in Working \ {"publish", "commit", "finalize"} => exec[n].tries = 0
    /\ exec[n].pc = "publish" => exec[n].tries < PublishTries

TypeInv == TypeOK /\ Tried

LEMMA ViewTyped ==
  ASSUME NEW c \in Findings
  PROVE  View(c) \in SUBSET (Members \X Identities) /\ Cardinality(View(c)) \in Nat
<1>1. View(c) \subseteq Members \X Identities
  BY DEF View, Primaries, Findings, Identities
<1>2. IsFiniteSet(Members \X Identities)
  <2>1. IsFiniteSet(Members)
    BY PublicationAssumption DEF PublicationAssumption
  <2>2. IsFiniteSet({None}) 
    BY FS_Singleton
  <2>3. IsFiniteSet(Identities)
    BY <2>1, <2>2, FS_Union DEF Identities
  <2> QED BY <2>1, <2>3, FS_Product
<1> QED BY <1>1, <1>2, FS_Subset, FS_CardinalityType

LEMMA SnapshotTyped ==
  ASSUME TypeOK
  PROVE  Snapshot \in Snapshots
BY ViewTyped DEF TypeOK, Snapshot, Snapshots, ScanRow

LEMMA PreferredTyped ==
  ASSUME NEW c \in Findings
  PROVE  Preferred(c) \in Identities
<1>1. IsCluster(c)
  BY DEF IsCluster, Findings
<1> QED BY <1>1, PreferredExists DEF Preferred, Findings, Identities

LEMMA ReselectedTyped ==
  ASSUME NEW c \in Findings
  PROVE  Reselected(c) \in Findings
<1> DEFINE root == IF c.root = None THEN None ELSE Preferred(c)
           moved == [c EXCEPT !.root = root]
           unkeyed == [m \in Members |-> None]
           rooted == [m \in Members |-> IF m \notin moved.stored THEN None
                                        ELSE IF moved.root = None THEN m ELSE moved.root]
<1>1. root \in Identities
  BY PreferredTyped DEF Identities
<1>2. moved \in Findings
  BY <1>1 DEF Findings
<1>3. unkeyed \in [Members -> Identities] /\ rooted \in [Members -> Identities]
  BY <1>2 DEF Findings, Identities
<1>4. Reselected(c) = IF moved.root = c.root THEN c
                      ELSE IF row.pinned THEN [moved EXCEPT !.key = rooted]
                      ELSE [moved EXCEPT !.key = unkeyed]
  BY DEF Reselected, Classified, Findings
<1> HIDE DEF moved, unkeyed, rooted
<1> QED BY <1>2, <1>3, <1>4 DEF Findings

LEMMA FindingsTyped ==
  ASSUME NEW c \in Findings
  PROVE  /\ Classified(c) \in Findings
         /\ \A new \in SUBSET Members : Insert(c, new) \in Findings
         /\ \A m \in Members : Delete(c, m) \in Findings
<1>1. Classified(c) \in Findings
  <2> DEFINE key == [m \in Members |-> IF m \notin c.stored THEN None
                                       ELSE IF c.root = None THEN m ELSE c.root]
  <2>1. key \in [Members -> Identities]
    BY DEF Findings, Identities
  <2>2. Classified(c) = [c EXCEPT !.key = key]
    BY DEF Classified
  <2> HIDE DEF key
  <2> QED BY <2>1, <2>2 DEF Findings
<1>2. ASSUME NEW new \in SUBSET Members
      PROVE  Insert(c, new) \in Findings
  BY DEF Insert, Findings
<1>3. ASSUME NEW m \in Members
      PROVE  Delete(c, m) \in Findings
  <2> DEFINE key == [c.key EXCEPT ![m] = None]
  <2>1. key \in [Members -> Identities]
    BY DEF Findings, Identities
  <2>2. Delete(c, m) = [c EXCEPT !.stored = @ \ {m}, !.open = @ \ {m}, !.hidden = @ \ {m},
                                 !.key = key, !.root = None]
    BY DEF Delete, Findings
  <2> HIDE DEF key
  <2> QED BY <2>1, <2>2 DEF Findings, Identities
<1> QED BY <1>1, <1>2, <1>3

LEMMA ProjectedTyped ==
  ASSUME TypeOK, NEW active
  PROVE  Projected(active) \in Findings
<1> DEFINE c == [cluster EXCEPT !.hidden = {m \in @ \cup cluster.stored : Hides(active, row.policy, m)}]
<1>1. c \in Findings
  BY DEF TypeOK, Findings
<1>2. Projected(active) = Reselected(c)
  BY DEF Projected
<1> QED BY <1>1, <1>2, ReselectedTyped

-----------------------------------------------------------------------------
(* One executor's memory                                                   *)

(* An executor's memory stays typed, and its tries are counted.            *)
Remembers(f, n, e) ==
  /\ f = [exec EXCEPT ![n] = e] /\ e \in Memory
  /\ e.pc \in Working \ {"publish", "commit", "finalize"} => e.tries = 0
  /\ e.pc = "publish" => e.tries < PublishTries

LEMMA RememberedTyped ==
  ASSUME TypeInv, NEW n \in Attempts, NEW e, Remembers(exec', n, e)
  PROVE  exec' \in [Attempts -> Memory] /\ Tried'
BY DEF TypeInv, TypeOK, Tried, Remembers

LEMMA OffTyped ==
  /\ Off \in Memory /\ Off.pc = "off" /\ NoSnapshot \in Snapshots /\ NoScan \in ScanRow
  /\ NoFindings \in Findings
<1>1. NoSnapshot \in Snapshots
  BY DEF NoSnapshot, Snapshots, Statuses
<1>2. Off \in Memory /\ Off.pc = "off"
  BY <1>1 DEF Off, Memory, Identities, Reasons, PublishTries
<1>3. NoScan \in ScanRow /\ NoFindings \in Findings
  BY DEF NoScan, ScanRow, Statuses, Reasons, NoFindings, Findings, Identities
<1> QED BY <1>1, <1>2, <1>3

LEMMA SpoiledTyped ==
  ASSUME NEW e \in Memory, NEW next \in Working
  PROVE  /\ Spoiled(e, next) \in Memory /\ Spoiled(e, next).tries = e.tries
         /\ Spoiled(e, next).pc \in {next, "finalize"}
         /\ Import => Spoiled(e, next).pc = "finalize"
<1>1. NoSnapshot \in Snapshots
  BY OffTyped
<1> QED BY <1>1 DEF Spoiled, Memory, Reasons, Working

-----------------------------------------------------------------------------
(* The steps                                                               *)

LEMMA RowTyped ==
  ASSUME NEW r \in ScanRow, NEW k \in Nat
  PROVE  /\ [r EXCEPT !.rev = @ + 1] \in ScanRow
         /\ [r EXCEPT !.rev = @ + 1, !.count = k] \in ScanRow
         /\ [r EXCEPT !.policy = TRUE, !.rev = @ + 1] \in ScanRow
         /\ [r EXCEPT !.pinned = TRUE, !.rev = @ + 1] \in ScanRow
<1>1. PICK v \in Nat : v = r.rev + 1
  BY DEF ScanRow
<1>2. [r EXCEPT !.rev = v] \in ScanRow
  BY DEF ScanRow
<1>3. [r EXCEPT !.rev = v, !.count = k] \in ScanRow
  BY DEF ScanRow
<1>4. [r EXCEPT !.policy = TRUE, !.rev = v] \in ScanRow
  BY DEF ScanRow
<1>5. [r EXCEPT !.pinned = TRUE, !.rev = v] \in ScanRow
  BY DEF ScanRow
<1> QED BY <1>1, <1>2, <1>3, <1>4, <1>5

LEMMA UserTyped ==
  ASSUME TypeInv,
         \/ Create \/ Claim \/ Reclaim \/ RequestScanCancellation
         \/ Triage \/ BeginRule \/ CommitRule \/ EvaluateGate \/ StoreGate
  PROVE  TypeInv'
<1>0. /\ TypeOK /\ Tried /\ 1 \in Attempts
      /\ MaxAttempts \in Nat /\ MaxChanges \in Nat
  BY PublicationAssumption DEF TypeInv, PublicationAssumption, Attempts
<1>1. CASE Create
  <2>1. Cardinality(Members) \in Nat
    BY PublicationAssumption, FS_CardinalityType DEF PublicationAssumption
  <2>2. row' \in ScanRow
    BY <1>0, <1>1, <2>1 DEF Create, TypeOK, ScanRow, Statuses
  <2>3. exec' \in [Attempts -> Memory] /\ Tried'
    <3> DEFINE e == [Off EXCEPT !.pc = "insert", !.todo = Members, !.count = Cardinality(Members)]
    <3>1. e \in Memory /\ e.tries = 0 /\ e.pc = "insert"
      BY <2>1, OffTyped DEF Memory, Working, Off
    <3>2. exec' = exec \/ exec' = [exec EXCEPT ![1] = e]
      BY <1>1 DEF Create
    <3> HIDE DEF e
    <3>3. CASE exec' = exec
      BY <1>0, <3>3 DEF TypeOK, Tried
    <3>4. CASE exec' = [exec EXCEPT ![1] = e]
      BY <1>0, <3>1, <3>4, RememberedTyped DEF Remembers
    <3> QED BY <3>2, <3>3, <3>4
  <2> QED BY <1>0, <1>1, <2>2, <2>3 DEF Create, TypeInv, TypeOK
<1>2. CASE Claim
  <2> DEFINE n == row.attempt + 1
             e(redo) == [Off EXCEPT !.pc = IF n = 1 THEN "insert" ELSE "reset",
                                    !.redo = IF n = 1 THEN {} ELSE redo, !.todo = redo]
  <2>1. PICK redo \in SUBSET Members :
          /\ row' = [row EXCEPT !.status = "running", !.token = n, !.attempt = n]
          /\ exec' = [exec EXCEPT ![n] = e(redo)]
    BY <1>2 DEF Claim
  <2>2. n \in Attempts
    <3>1. row.attempt \in {0} \cup 1..MaxAttempts /\ row.attempt < MaxAttempts
      BY <1>0, <1>2 DEF Claim, TypeOK, ScanRow, Attempts
    <3> QED BY <1>0, <3>1 DEF Attempts
  <2>3. e(redo) \in Memory /\ e(redo).tries = 0 /\ e(redo).pc \in {"insert", "reset"}
    BY OffTyped DEF Memory, Working, Off
  <2> HIDE DEF n, e
  <2>4. row' \in ScanRow
    BY <1>0, <2>1, <2>2 DEF TypeOK, ScanRow, Statuses
  <2>5. exec' \in [Attempts -> Memory] /\ Tried'
    BY <2>1, <2>2, <2>3, RememberedTyped DEF Remembers
  <2> QED BY <1>0, <1>2, <2>4, <2>5 DEF Claim, TypeInv, TypeOK
<1>3. CASE Reclaim \/ RequestScanCancellation
  <2>1. row' \in ScanRow
    BY <1>0, <1>3 DEF Reclaim, RequestScanCancellation, TypeOK, ScanRow, Statuses, Ended
  <2> QED BY <1>0, <1>3, <2>1 DEF Reclaim, RequestScanCancellation, TypeInv, TypeOK, Tried
<1>4. CASE Triage
  <2>1. row' \in ScanRow
    BY <1>0, <1>4 DEF Triage, TypeOK, ScanRow
  <2>2. cluster' \in Findings /\ reopened' \in BOOLEAN
    BY <1>0, <1>4 DEF Triage, TypeOK, Findings
  <2>3. changes' \in 0..MaxChanges
    BY <1>0, <1>4 DEF Triage, Change, TypeOK
  <2> QED BY <1>0, <1>4, <2>1, <2>2, <2>3 DEF Triage, TypeInv, TypeOK, Tried
<1>5. CASE BeginRule
  <2>1. changes' \in 0..MaxChanges
    BY <1>0, <1>5 DEF BeginRule, Change, TypeOK
  <2> QED BY <1>0, <1>5, <2>1 DEF BeginRule, TypeInv, TypeOK, Tried
<1>6. CASE CommitRule
  <2>1. cluster' \in Findings
    BY <1>0, <1>6, ProjectedTyped DEF CommitRule, TypeOK
  <2>2. Cardinality(View(cluster')) \in Nat
    BY <2>1, ViewTyped
  <2>3. row' \in ScanRow
    <3>1. row' = row \/ row' = [row EXCEPT !.rev = @ + 1, !.count = Cardinality(View(cluster'))]
      BY <1>6 DEF CommitRule, RowAfterRule
    <3> QED BY <1>0, <2>2, <3>1, RowTyped DEF TypeOK
  <2>4. {rule', missed', reopened'} \subseteq BOOLEAN
    BY <1>0, <1>6 DEF CommitRule, TypeOK
  <2> QED BY <1>0, <1>6, <2>1, <2>3, <2>4 DEF CommitRule, TypeInv, TypeOK, Tried
<1>7. CASE EvaluateGate
  BY <1>0, <1>7, SnapshotTyped DEF EvaluateGate, TypeInv, TypeOK, Tried
<1>8. CASE StoreGate
  BY <1>0, <1>8, OffTyped DEF StoreGate, UpsertGate, TypeInv, TypeOK, Tried
<1> QED BY <1>1, <1>2, <1>3, <1>4, <1>5, <1>6, <1>7, <1>8

LEMMA BuildTyped ==
  ASSUME TypeInv, NEW n \in Attempts,
         \/ ResetTool(n) \/ InsertFindings(n) \/ ImportFindings(n) \/ CollectEvidence(n)
         \/ CaptureIgnorePolicy(n) \/ FinalizeClusters(n) \/ PersistBaseline(n)
  PROVE  TypeInv'
<1>0. TypeOK /\ Tried /\ exec[n] \in Memory /\ row \in ScanRow /\ cluster \in Findings
  BY DEF TypeInv, TypeOK
<1>1. row' \in ScanRow
  <2>1. \/ row' = row \/ row' = [row EXCEPT !.rev = @ + 1]
        \/ row' = [row EXCEPT !.policy = TRUE, !.rev = @ + 1]
        \/ row' = [row EXCEPT !.pinned = TRUE, !.rev = @ + 1]
    BY DEF ResetTool, InsertFindings, ImportFindings, CollectEvidence, CaptureIgnorePolicy,
           FinalizeClusters, PersistBaseline
  <2> QED BY <1>0, <2>1, 0 \in Nat, RowTyped
<1>2. cluster' \in Findings /\ reopened' \in BOOLEAN
  <2>1. CASE ResetTool(n) \/ InsertFindings(n)
    <3>1. exec[n].todo \subseteq Members /\ reopened' \in BOOLEAN
      BY <1>0, <2>1 DEF ResetTool, InsertFindings, TypeOK, Memory
    <3>2. CASE cluster' = cluster
      BY <1>0, <3>1, <3>2
    <3>3. CASE cluster' # cluster
      <4>1. PICK m \in exec[n].todo : cluster' = Delete(cluster, m) \/ cluster' = Insert(cluster, {m})
        <5>1. CASE ResetTool(n)
          BY <3>3, <5>1 DEF ResetTool
        <5>2. CASE InsertFindings(n)
          BY <3>3, <5>2 DEF InsertFindings
        <5> QED BY <2>1, <5>1, <5>2
      <4>2. m \in Members /\ {m} \in SUBSET Members
        BY <3>1
      <4>3. Delete(cluster, m) \in Findings /\ Insert(cluster, {m}) \in Findings
        BY <1>0, <4>2, FindingsTyped
      <4> QED BY <3>1, <4>1, <4>3
    <3> QED BY <3>2, <3>3
  <2>2. CASE ImportFindings(n) \/ CollectEvidence(n) \/ PersistBaseline(n)
    BY <1>0, <2>2, FindingsTyped DEF ImportFindings, CollectEvidence, PersistBaseline, TypeOK
  <2>3. CASE CaptureIgnorePolicy(n)
    BY <1>0, <2>3 DEF CaptureIgnorePolicy, Findings, TypeOK
  <2>4. CASE FinalizeClusters(n)
    <3>1. FinalRoot(exec[n].primary) \in Identities
      BY <1>0, PreferredTyped DEF FinalRoot, Memory
    <3> QED BY <1>0, <2>4, <3>1 DEF FinalizeClusters, Findings, TypeOK
  <2> QED BY <2>1, <2>2, <2>3, <2>4
<1>3. \E e : Remembers(exec', n, e)
  <2>1. CASE ResetTool(n) \/ InsertFindings(n)
    <3>1. CASE At(n, "reset") /\ exec' = [exec EXCEPT ![n].pc = "insert", ![n].todo = exec[n].redo, ![n].redo = {}]
      <4> DEFINE e == [exec[n] EXCEPT !.pc = "insert", !.todo = exec[n].redo, !.redo = {}]
      <4>1. e \in Memory /\ e.tries = 0 /\ e.pc = "insert"
        BY <1>0, <3>1 DEF At, Memory, Working, Tried
      <4> QED BY <1>0, <3>1, <4>1 DEF Remembers, TypeOK
    <3>2. CASE At(n, "insert") /\ Go(n, "collect")
      <4> DEFINE e == [exec[n] EXCEPT !.pc = "collect"]
      <4>1. e \in Memory /\ e.tries = 0 /\ e.pc = "collect"
        BY <1>0, <3>2 DEF At, Memory, Working, Tried
      <4> QED BY <3>2, <4>1 DEF Remembers, Go
    <3>3. ASSUME NEW m, At(n, "reset") \/ At(n, "insert"),
                 exec' = [exec EXCEPT ![n].todo = @ \ {m}]
          PROVE  \E e : Remembers(exec', n, e)
      <4> DEFINE e == [exec[n] EXCEPT !.todo = @ \ {m}]
      <4>1. e \in Memory /\ e.tries = 0 /\ e.pc \in {"reset", "insert"}
        BY <1>0, <3>3 DEF At, Memory, Working, Tried
      <4> QED BY <3>3, <4>1 DEF Remembers
    <3> QED BY <2>1, <3>1, <3>2, <3>3 DEF ResetTool, InsertFindings
  <2>2. CASE ImportFindings(n) \/ CollectEvidence(n)
    <3>1. PICK p \in Identities : exec' = [exec EXCEPT ![n].pc = "capture", ![n].primary = p]
      BY <1>0, <1>2, <2>2, PreferredTyped DEF ImportFindings, CollectEvidence
    <3> DEFINE e == [exec[n] EXCEPT !.pc = "capture", !.primary = p]
    <3>2. e \in Memory /\ e.tries = 0 /\ e.pc = "capture"
      BY <1>0, <2>2 DEF ImportFindings, CollectEvidence, At, Memory, Working, Tried
    <3> QED BY <3>1, <3>2 DEF Remembers
  <2>3. CASE CaptureIgnorePolicy(n)
    <3> DEFINE e == [exec[n] EXCEPT !.pc = "cluster"]
    <3>1. e \in Memory /\ e.tries = 0 /\ e.pc = "cluster"
      BY <1>0, <2>3 DEF CaptureIgnorePolicy, At, Memory, Working, Tried
    <3> QED BY <2>3, <3>1 DEF CaptureIgnorePolicy, Remembers, Go
  <2>4. CASE FinalizeClusters(n)
    <3>1. exec[n].tries = 0
      BY <1>0, <2>4 DEF FinalizeClusters, At, Working, Tried
    <3>2. CASE exec' = [exec EXCEPT ![n] = Spoiled(exec[n], "publish")]
      <4>1. Spoiled(exec[n], "publish") \in Memory /\ Spoiled(exec[n], "publish").tries = 0
        /\ Spoiled(exec[n], "publish").pc \in {"publish", "finalize"}
        BY <1>0, <3>1, SpoiledTyped DEF Working
      <4>2. Remembers(exec', n, Spoiled(exec[n], "publish"))
        BY <3>2, <4>1 DEF Remembers, PublishTries
      <4> QED BY <4>2
    <3>3. CASE exec' # [exec EXCEPT ![n] = Spoiled(exec[n], "publish")]
      <4> DEFINE final == [cluster EXCEPT !.root = FinalRoot(exec[n].primary)]
                 e == [exec[n] EXCEPT !.pc = AfterClustering(exec[n]), !.primary = None,
                                      !.count = Cardinality(View(final))]
      <4>1. final = cluster' /\ exec' = [exec EXCEPT ![n] = e]
        BY <2>4, <3>3 DEF FinalizeClusters
      <4>2. Cardinality(View(final)) \in Nat
        BY <1>2, <4>1, ViewTyped
      <4> HIDE DEF final
      <4>3. e \in Memory /\ e.tries = 0 /\ e.pc \in {"baseline", "publish"}
        BY <1>0, <3>1, <4>2 DEF AfterClustering, Memory, Working, Identities
      <4> HIDE DEF e
      <4>4. Remembers(exec', n, e)
        BY <4>1, <4>3 DEF Remembers, PublishTries
      <4> QED BY <4>4
    <3> QED BY <3>2, <3>3
  <2>5. CASE PersistBaseline(n)
    <3> DEFINE e == [exec[n] EXCEPT !.pc = "publish"]
    <3>1. e \in Memory /\ e.tries = 0 /\ e.pc = "publish"
      BY <1>0, <2>5 DEF PersistBaseline, At, Memory, Working, Tried
    <3>2. exec' = [exec EXCEPT ![n] = e]
      BY <2>5 DEF PersistBaseline, Go
    <3> HIDE DEF e
    <3>3. Remembers(exec', n, e)
      BY <3>1, <3>2 DEF Remembers, PublishTries
    <3> QED BY <3>3
  <2> QED BY <2>1, <2>2, <2>3, <2>4, <2>5
<1>4. exec' \in [Attempts -> Memory] /\ Tried'
  BY <1>3, RememberedTyped
<1> QED
  BY <1>0, <1>1, <1>2, <1>4
     DEF ResetTool, InsertFindings, ImportFindings, CollectEvidence, CaptureIgnorePolicy,
         FinalizeClusters, PersistBaseline, TypeInv, TypeOK

LEMMA PublishTyped ==
  ASSUME TypeInv, NEW n \in Attempts,
         \/ PublishSnapshot(n) \/ CompleteScan(n) \/ CompleteUnheard(n) \/ RetryPublication(n)
         \/ FinalizeScan(n) \/ Superseded(n) \/ StatementFails(n)
  PROVE  TypeInv'
<1>0. TypeOK /\ Tried /\ exec[n] \in Memory /\ row \in ScanRow /\ cluster \in Findings
  BY DEF TypeInv, TypeOK
<1>1. row' \in ScanRow
  <2>1. CASE CompleteScan(n) \/ CompleteUnheard(n)
    BY <1>0, <2>1 DEF CompleteScan, CompleteUnheard, Completes, ScanRow, Statuses, Ended, Memory
  <2>2. CASE FinalizeScan(n)
    BY <1>0, <2>2 DEF FinalizeScan, ScanRow, Statuses, Ended, Memory
  <2>3. CASE ~(CompleteScan(n) \/ CompleteUnheard(n) \/ FinalizeScan(n))
    BY <1>0, <2>3 DEF PublishSnapshot, RetryPublication, Superseded, StatementFails
  <2> QED BY <2>1, <2>2, <2>3
<1>2. gate' \in Snapshots
  <2>1. CASE CompleteScan(n) \/ CompleteUnheard(n)
    <3>1. exec[n].snap \in Snapshots
      BY <1>0 DEF Memory
    <3> QED BY <2>1, <3>1 DEF CompleteScan, CompleteUnheard, Completes, Snapshots, Statuses, Ended
  <2>2. CASE ~(CompleteScan(n) \/ CompleteUnheard(n))
    BY <1>0, <2>2 DEF TypeOK, PublishSnapshot, RetryPublication, FinalizeScan, Superseded,
                      StatementFails
  <2> QED BY <2>1, <2>2
<1>3. faults' \in 0..MaxFaults
  <2>1. MaxFaults \in Nat /\ faults \in 0..MaxFaults
    BY <1>0, PublicationAssumption DEF TypeOK, PublicationAssumption
  <2>2. faults' = faults \/ (faults < MaxFaults /\ faults' = faults + 1)
    BY DEF PublishSnapshot, CompleteScan, CompleteUnheard, RetryPublication, FinalizeScan,
           Superseded, StatementFails
  <2> QED BY <2>1, <2>2
<1>4. \E e : Remembers(exec', n, e)
  <2>1. CASE PublishSnapshot(n)
    <3> DEFINE e == [exec[n] EXCEPT !.snap = Snapshot, !.count = Cardinality(View(cluster)),
                                    !.tries = @ + 1,
                                    !.pc = IF exec[n].ok THEN "commit" ELSE "finalize"]
    <3>1. Snapshot \in Snapshots /\ Cardinality(View(cluster)) \in Nat
      BY <1>0, SnapshotTyped, ViewTyped
    <3>2. exec[n].tries + 1 \in 0..PublishTries
      BY <1>0, <2>1 DEF PublishSnapshot, At, Tried, Memory, PublishTries
    <3>3. e \in Memory /\ e.pc \in {"commit", "finalize"}
      BY <1>0, <3>1, <3>2 DEF Memory, Working
    <3>4. exec' = [exec EXCEPT ![n] = e]
      BY <2>1 DEF PublishSnapshot
    <3> HIDE DEF e
    <3> QED BY <3>3, <3>4 DEF Remembers
  <2>2. CASE exec' = [exec EXCEPT ![n] = Off]
    <3>1. Remembers(exec', n, Off)
      BY <2>2, OffTyped DEF Remembers, Working
    <3> QED BY <3>1
  <2>3. CASE CompleteScan(n) /\ exec' # [exec EXCEPT ![n] = Off]
    <3> DEFINE e == [exec[n] EXCEPT !.pc = "assess", !.primary = cluster.root]
    <3>1. e \in Memory /\ e.pc = "assess"
      BY <1>0 DEF Memory, Findings
    <3>2. exec' = [exec EXCEPT ![n] = e]
      BY <2>3 DEF CompleteScan
    <3> HIDE DEF e
    <3>3. Remembers(exec', n, e)
      BY <3>1, <3>2 DEF Remembers, Working
    <3> QED BY <3>3
  <2>4. CASE RetryPublication(n)
    <3>1. CASE TriesLeft(n)
      <4> DEFINE e == [exec[n] EXCEPT !.pc = "publish", !.snap = NoSnapshot]
      <4>1. e \in Memory /\ e.pc = "publish" /\ e.tries < PublishTries
        BY <1>0, <3>1, OffTyped DEF TriesLeft, Memory, Working
      <4>2. exec' = [exec EXCEPT ![n] = e]
        BY <2>4, <3>1 DEF RetryPublication
      <4> HIDE DEF e
      <4>3. Remembers(exec', n, e)
        BY <4>1, <4>2 DEF Remembers
      <4> QED BY <4>3
    <3>2. CASE ~TriesLeft(n)
      <4> DEFINE e == [exec[n] EXCEPT !.pc = "finalize", !.ok = FALSE, !.why = "contention"]
      <4>1. e \in Memory /\ e.pc = "finalize"
        BY <1>0 DEF Memory, Working, Reasons
      <4>2. exec' = [exec EXCEPT ![n] = e]
        BY <2>4, <3>2 DEF RetryPublication
      <4> HIDE DEF e
      <4>3. Remembers(exec', n, e)
        BY <4>1, <4>2 DEF Remembers
      <4> QED BY <4>3
    <3> QED BY <3>1, <3>2
  <2>5. CASE FinalizeScan(n)
    <3> DEFINE next == IF Import THEN "off" ELSE "regate"
               e == [exec[n] EXCEPT !.pc = next]
    <3>1. e \in Memory /\ e.pc \in {"off", "regate"}
      BY <1>0 DEF Memory
    <3>2. exec' = [exec EXCEPT ![n] = e]
      BY <2>5 DEF FinalizeScan, Go
    <3> HIDE DEF e
    <3>3. Remembers(exec', n, e)
      BY <3>1, <3>2 DEF Remembers, Working
    <3> QED BY <3>3
  <2>6. ASSUME NEW next \in Working, exec' = [exec EXCEPT ![n] = Spoiled(exec[n], next)],
               exec[n].pc \in Working \ {"publish", "commit", "finalize"} \/ next = "finalize"
        PROVE  \E e : Remembers(exec', n, e)
    <3>1. /\ Spoiled(exec[n], next) \in Memory /\ Spoiled(exec[n], next).tries = exec[n].tries
          /\ Spoiled(exec[n], next).pc \in {next, "finalize"}
      BY <1>0, SpoiledTyped
    <3>2. exec[n].tries = 0 \/ next = "finalize"
      BY <1>0, <2>6 DEF Tried
    <3>3. Remembers(exec', n, Spoiled(exec[n], next))
      BY <2>6, <3>1, <3>2 DEF Remembers, PublishTries
    <3> QED BY <3>3
  <2>7. CASE CompleteUnheard(n)
    <3>1. exec' = [exec EXCEPT ![n] = Spoiled(exec[n], "finalize")]
      BY <2>7 DEF CompleteUnheard
    <3> QED BY <2>6, <3>1 DEF Working
  <2>8. CASE StatementFails(n)
    <3>1. CASE At(n, "insert")
      <4>1. PICK m \in exec[n].todo :
              exec' = [exec EXCEPT ![n] = [Spoiled(exec[n], "insert") EXCEPT !.todo = @ \ {m}]]
        BY <2>8, <3>1 DEF StatementFails, At
      <4> DEFINE d == Spoiled(exec[n], "insert")
                 e == [d EXCEPT !.todo = @ \ {m}]
      <4>2. d \in Memory /\ d.tries = 0 /\ d.pc \in {"insert", "finalize"}
        BY <1>0, <3>1, SpoiledTyped DEF At, Tried, Working
      <4> HIDE DEF d
      <4>3. e \in Memory /\ e.tries = 0 /\ e.pc \in {"insert", "finalize"}
        BY <4>2 DEF Memory
      <4>4. exec' = [exec EXCEPT ![n] = e]
        BY <4>1 DEF d
      <4> HIDE DEF e
      <4>5. Remembers(exec', n, e)
        BY <4>3, <4>4 DEF Remembers
      <4> QED BY <4>5
    <3>2. CASE ~At(n, "insert")
      <4>1. PICK next \in {"cluster", "publish", "finalize"} :
              /\ exec' = [exec EXCEPT ![n] = Spoiled(exec[n], next)]
              /\ At(n, "capture") \/ At(n, "cluster") \/ At(n, "baseline") \/ next = "finalize"
        BY <2>8, <3>2 DEF StatementFails, At
      <4> QED BY <2>6, <4>1 DEF At, Working
    <3> QED BY <3>1, <3>2
  <2>9. CASE Superseded(n)
    BY <2>2, <2>9 DEF Superseded
  <2> QED BY <2>1, <2>2, <2>3, <2>4, <2>5, <2>7, <2>8, <2>9
<1>5. exec' \in [Attempts -> Memory] /\ Tried'
  BY <1>4, RememberedTyped
<1> QED
  BY <1>0, <1>1, <1>2, <1>3, <1>5
     DEF PublishSnapshot, CompleteScan, CompleteUnheard, Completes, RetryPublication, FinalizeScan,
         Superseded, StatementFails, TypeInv, TypeOK

(* An assessment is of a stored finding.                                   *)
LEMMA AssessTyped ==
  ASSUME TypeInv, NEW n \in Attempts,
         \/ EvaluateFailed(n) \/ StoreFailedGate(n) \/ UpdateFinding(n) \/ RecordAssessment(n),
         At(n, "assess") => exec[n].primary \in Members
  PROVE  TypeInv'
<1>0. TypeOK /\ Tried /\ exec[n] \in Memory /\ row \in ScanRow /\ cluster \in Findings
  BY DEF TypeInv, TypeOK
<1>1. row' \in ScanRow
  <2>1. CASE EvaluateFailed(n) \/ StoreFailedGate(n)
    BY <1>0, <2>1 DEF EvaluateFailed, StoreFailedGate
  <2>2. CASE UpdateFinding(n)
    BY <1>0, <2>2, RowTyped, 0 \in Nat DEF UpdateFinding
  <2>3. CASE RecordAssessment(n)
    BY <1>0, <2>3 DEF RecordAssessment, Memory, ScanRow
  <2> QED BY <2>1, <2>2, <2>3
<1>2. cluster' \in Findings
  BY <1>0 DEF EvaluateFailed, StoreFailedGate, UpdateFinding, RecordAssessment, Findings
<1>3. gate' \in Snapshots
  BY <1>0 DEF EvaluateFailed, StoreFailedGate, UpsertGate, UpdateFinding, RecordAssessment,
              Memory, TypeOK
<1>4. \E e : Remembers(exec', n, e)
  <2>1. CASE exec' = [exec EXCEPT ![n] = Off]
    <3>1. Remembers(exec', n, Off)
      BY <2>1, OffTyped DEF Remembers, Working
    <3> QED BY <3>1
  <2>2. CASE EvaluateFailed(n)
    <3> DEFINE e == [exec[n] EXCEPT !.pc = "upsert", !.snap = Snapshot]
    <3>1. e \in Memory /\ e.pc = "upsert"
      BY <1>0, SnapshotTyped DEF Memory
    <3>2. exec' = [exec EXCEPT ![n] = e]
      BY <2>2 DEF EvaluateFailed
    <3> HIDE DEF e
    <3>3. Remembers(exec', n, e)
      BY <3>1, <3>2 DEF Remembers, Working
    <3> QED BY <3>3
  <2>3. CASE UpdateFinding(n)
    <3> DEFINE e == [exec[n] EXCEPT !.pc = "record"]
    <3>1. e \in Memory /\ e.pc = "record"
      BY <1>0 DEF Memory
    <3>2. exec' = [exec EXCEPT ![n] = e]
      BY <2>3 DEF UpdateFinding, Go
    <3> HIDE DEF e
    <3>3. Remembers(exec', n, e)
      BY <3>1, <3>2 DEF Remembers, Working
    <3> QED BY <3>3
  <2> QED BY <2>1, <2>2, <2>3 DEF StoreFailedGate, RecordAssessment
<1>5. exec' \in [Attempts -> Memory] /\ Tried'
  BY <1>4, RememberedTyped
<1> QED
  BY <1>0, <1>1, <1>2, <1>3, <1>5
     DEF EvaluateFailed, StoreFailedGate, UpdateFinding, RecordAssessment, TypeInv, TypeOK

(* Every variable stays within its type: no step writes a status, reason,  *)
(* revision, primary or count that the row cannot hold, and no executor    *)
(* takes more than PublishTries snapshots (publishScanResults).            *)
THEOREM PublicationTypeHolds == Spec => []TypeOK
<1>1. Init => TypeInv
  <2> SUFFICES ASSUME Init
               PROVE  TypeInv
    OBVIOUS
  <2>1. exec \in [Attempts -> Memory] /\ \A n \in Attempts : exec[n].pc = "off"
    BY OffTyped DEF Init
  <2>2. Tried
    BY <2>1 DEF Tried, Working
  <2>3. 0 \in 0..MaxChanges /\ 0 \in 0..MaxFaults
    BY PublicationAssumption DEF PublicationAssumption
  <2> QED BY <2>1, <2>2, <2>3, OffTyped DEF Init, TypeInv, TypeOK
<1>2. GateInv /\ StageInv /\ FlagInv /\ ShownInv /\ TypeInv /\ [Next]_vars => TypeInv'
  <2>1. ASSUME GateInv, StageInv, FlagInv, ShownInv, TypeInv, Next
        PROVE  TypeInv'
    <3>1. ASSUME NEW n \in Attempts, Executor(n)
          PROVE  TypeInv'
      <4>1. At(n, "assess") => exec[n].primary \in Members
        BY <2>1 DEF ShownInv, Ready, At, StageInv, IsCluster
      <4> QED BY <2>1, <3>1, <4>1, BuildTyped, PublishTyped, AssessTyped DEF Executor
    <3> QED BY <2>1, <3>1, UserTyped DEF Next
  <2>2. ASSUME TypeInv, UNCHANGED vars
        PROVE  TypeInv'
    BY <2>2 DEF vars, TypeInv, TypeOK, Tried
  <2> QED BY <2>1, <2>2
<1>3. TypeInv => TypeOK
  BY DEF TypeInv
<1> QED BY <1>1, <1>2, <1>3, StageInvariance, ShownInvariance, PTL DEF Spec

=============================================================================
