------------------------- MODULE ReleaseBuildProofs ------------------------
(***************************************************************************)
(* For every set of workers, every plan and every bound: while its lease   *)
(* is live, a build is ended only by the worker it was leased to; a build  *)
(* completes with its whole plan, a step after the steps it needs; two     *)
(* attempts never run at once; and what may be approved is evident.        *)
(*                                                                         *)
(* A worker looks at its lease in one transaction and moves the build in   *)
(* the next one, which compares nothing but the version.  The invariant    *)
(* is what makes that sufficient: versions only grow, and a worker about   *)
(* to write that still has the newest version still has the lease.         *)
(***************************************************************************)
EXTENDS ReleaseBuild, TLAPS

Rows == [state : {"queued", "claimed", "running", "completed", "failed", "cancelled"},
         ver : Nat, token : Nat, cancel : BOOLEAN]

Fields == {"pc", "b", "token", "ver", "seen", "cver", "step", "rec", "out", "cause", "end"}
Shape(h) == DOMAIN h = Fields /\ h = [f \in Fields |-> h[f]]

(* What is true of the memory h of a worker, given the rows.               *)
Sound(h, rows) ==
  /\ Shape(h)
  /\ h.token \in Nat /\ h.ver \in Nat
  /\ h.pc # "idle" => h.b \in DOMAIN rows
  /\ h.pc \in {"start", "write"} =>
       /\ h.ver <= rows[h.b].ver
       /\ h.ver = rows[h.b].ver => rows[h.b].token = h.token

LeaseInv ==
  /\ claims \in Nat
  /\ builds \in Seq(Rows)
  /\ DOMAIN held = Workers /\ held = [w \in Workers |-> held[w]]
  /\ \A w \in Workers : Sound(held[w], builds)

(* The rows only grow older: none disappears, and one that changes gets a  *)
(* larger version.                                                         *)
Advanced ==
  /\ builds' \in Seq(Rows)
  /\ DOMAIN builds \subseteq DOMAIN builds'
  /\ \A b \in DOMAIN builds :
       /\ builds[b].ver <= builds'[b].ver
       /\ builds[b].ver = builds'[b].ver => builds'[b].token = builds[b].token

LEMMA IdleSound ==
    ASSUME NEW rows PROVE Sound(Idle, rows)
  BY DEF Sound, Shape, Fields, Idle

(* The memory of a worker that does nothing stays sound.                   *)
LEMMA Undisturbed ==
    ASSUME builds \in Seq(Rows), Advanced, NEW h, Sound(h, builds) PROVE Sound(h, builds')
<1>1. CASE h.pc = "idle"
  BY <1>1 DEF Sound
<1>2. CASE h.pc # "idle"
  <2>1. h.b \in DOMAIN builds /\ h.b \in DOMAIN builds'
    BY <1>2 DEF Sound, Advanced
  <2>2. builds[h.b] \in Rows /\ builds'[h.b] \in Rows
    BY <2>1 DEF Advanced
  <2>3. QED
    BY SMTT(30), <2>1, <2>2 DEF Sound, Advanced, Rows
<1>3. QED
  BY <1>1, <1>2

(* A worker that has just checked its lease may be about to write.         *)
LEMMA Checked ==
    ASSUME NEW h, NEW rows \in Seq(Rows), Sound(h, rows), h.pc # "idle",
           rows[h.b].token = h.token, NEW pc
    PROVE  Sound([h EXCEPT !.pc = pc, !.ver = rows[h.b].ver], rows)
<1>1. rows[h.b] \in Rows
  BY DEF Sound
<1>2. rows[h.b].ver \in Nat
  BY <1>1 DEF Rows
<1>3. ASSUME NEW v \in Nat, v = rows[h.b].ver
      PROVE  Sound([h EXCEPT !.pc = pc, !.ver = v], rows)
  <2> DEFINE g == [h EXCEPT !.pc = pc, !.ver = v]
  <2>1. Shape(g) /\ g.token = h.token /\ g.ver = v /\ g.b = h.b
    BY DEF Sound, Shape, Fields
  <2>2. v <= v
    BY <1>3
  <2>3. QED
    BY <2>1, <2>2, <1>3 DEF Sound
<1>4. QED
  BY <1>2, <1>3

-----------------------------------------------------------------------------
(* The ways a worker moves on without writing a build                      *)

Same == UNCHANGED <<builds, claims>>

LEMMA Quiet ==
    ASSUME LeaseInv, Same, NEW w \in Workers, NEW g, Sound(g, builds),
           held' = [held EXCEPT ![w] = g]
    PROVE  LeaseInv'
  BY DEF LeaseInv, Same

LEMMA GoKeeps ==
    ASSUME LeaseInv, Same, NEW w \in Workers, held[w].pc # "idle",
           NEW pc, pc \notin {"start", "write"}, Go(w, pc)
    PROVE  LeaseInv'
<1> DEFINE g == [held[w] EXCEPT !.pc = pc]
<1>1. Sound(g, builds)
  BY DEF LeaseInv, Sound, Shape, Fields
<1>2. QED
  BY <1>1, Quiet DEF Go

LEMMA LeaveKeeps ==
    ASSUME LeaseInv, Same, NEW w \in Workers, Leave(w) PROVE LeaseInv'
  BY IdleSound, Quiet DEF Leave

LEMMA EndKeeps ==
    ASSUME LeaseInv, Same, NEW w \in Workers, held[w].pc # "idle", NEW end, End(w, end)
    PROVE  LeaseInv'
<1> DEFINE g == [held[w] EXCEPT !.pc = "final", !.end = end]
<1>1. Sound(g, builds)
  BY DEF LeaseInv, Sound, Shape, Fields
<1>2. QED
  BY <1>1, Quiet DEF End

LEMMA CheckLeaseKeeps ==
    ASSUME LeaseInv, Same, NEW w \in Workers, held[w].pc # "idle", NEW next, CheckLease(w, next)
    PROVE  LeaseInv'
<1> DEFINE g == [held[w] EXCEPT !.pc = next, !.ver = builds[held[w].b].ver]
<1>1. CASE Current(w) /\ held' = [held EXCEPT ![w].pc = next, ![w].ver = builds[held[w].b].ver]
  <2>1. Sound(g, builds)
    BY <1>1, Checked DEF LeaseInv, Current
  <2>2. QED
    BY <1>1, <2>1, Quiet
<1>2. QED
  BY <1>1, LeaveKeeps, EndKeeps DEF CheckLease

LEMMA WriteStepKeeps ==
    ASSUME LeaseInv, Same, NEW w \in Workers, held[w].pc # "idle",
           NEW allowed, NEW step, NEW next, next \notin {"start", "write"},
           WriteStep(w, allowed, step, next)
    PROVE  LeaseInv'
<1> DEFINE g == [held[w] EXCEPT !.pc = next, !.rec = step]
<1>1. CASE held' = [held EXCEPT ![w].pc = next, ![w].rec = step]
  <2>1. Sound(g, builds)
    BY DEF LeaseInv, Sound, Shape, Fields
  <2>2. QED
    BY <1>1, <2>1, Quiet
<1>2. QED
  BY <1>1, LeaveKeeps, EndKeeps DEF WriteStep

LEMMA ContinueKeeps ==
    ASSUME LeaseInv, Same, NEW w \in Workers, held[w].pc # "idle",
           NEW written, Continue(w, written)
    PROVE  LeaseInv'
<1>1. After(held[w].end, written) \notin {"start", "write"}
  BY DEF After
<1>2. QED
  BY <1>1, GoKeeps, LeaveKeeps DEF Continue

-----------------------------------------------------------------------------
(* The actions that write a build                                          *)

LEMMA RowType ==
    ASSUME LeaseInv, NEW b \in DOMAIN builds
    PROVE  /\ builds[b] \in Rows /\ builds[b].ver \in Nat /\ builds[b].token \in Nat
           /\ builds[b].cancel \in BOOLEAN
           /\ builds[b].state \in {"queued", "claimed", "running", "completed", "failed", "cancelled"}
<1>1. builds[b] \in Rows
  BY DEF LeaseInv
<1>2. QED
  BY <1>1 DEF Rows

LEMMA Written ==
    ASSUME LeaseInv, NEW b \in DOMAIN builds, NEW row \in Rows,
           row.ver = builds[b].ver + 1, builds' = [builds EXCEPT ![b] = row]
    PROVE  Advanced
<1>1. builds' \in Seq(Rows) /\ DOMAIN builds' = DOMAIN builds
  BY DEF LeaseInv
<1>2. ASSUME NEW c \in DOMAIN builds
      PROVE  /\ builds[c].ver <= builds'[c].ver
             /\ builds[c].ver = builds'[c].ver => builds'[c].token = builds[c].token
  <2>1. builds[c] \in Rows /\ builds[c].ver \in Nat
    BY RowType
  <2>2. CASE c = b
    <3>1. builds'[c] = row
      BY <2>2 DEF LeaseInv
    <3>2. builds[c].ver < builds[c].ver + 1
      BY <2>1
    <3>3. QED
      BY <2>1, <2>2, <3>1, <3>2
  <2>3. CASE c # b
    BY <2>1, <2>3 DEF LeaseInv
  <2>4. QED
    BY <2>2, <2>3
<1>3. QED
  BY <1>1, <1>2 DEF Advanced

(* The rows advance and the memory of one worker, or none, changes.        *)
LEMMA AdvanceKeeps ==
    ASSUME LeaseInv, Advanced, claims' \in Nat, NEW w \in Workers, NEW g, Sound(g, builds'),
           held' = [held EXCEPT ![w] = g]
    PROVE  LeaseInv'
<1>1. builds' \in Seq(Rows)
  BY DEF Advanced
<1>2. ASSUME NEW v \in Workers PROVE Sound(held'[v], builds')
  BY Undisturbed DEF LeaseInv
<1>3. QED
  BY <1>1, <1>2 DEF LeaseInv

LEMMA AloneKeeps ==
    ASSUME LeaseInv, Advanced, claims' \in Nat, UNCHANGED held PROVE LeaseInv'
<1>1. ASSUME NEW v \in Workers PROVE Sound(held'[v], builds')
  BY Undisturbed DEF LeaseInv
<1>2. QED
  BY <1>1 DEF LeaseInv, Advanced

LEMMA MoveBuildAdvances ==
    ASSUME LeaseInv, NEW b \in DOMAIN builds, NEW to, MoveBuild(b, to),
           to \in {"running", "completed", "failed", "cancelled"}
    PROVE  Advanced
<1> DEFINE row == MovedBuild(builds[b], to)
<1> DEFINE token == IF to \in Terminal THEN 0 ELSE builds[b].token
<1>1. builds[b] \in Rows
  BY DEF LeaseInv
<1>2. token \in Nat /\ builds[b].ver + 1 \in Nat
  BY <1>1 DEF Rows
<1>3. row = [builds[b] EXCEPT !.state = to, !.ver = builds[b].ver + 1, !.token = token]
  BY DEF MovedBuild
<1> HIDE DEF token
<1>4. row \in Rows /\ row.ver = builds[b].ver + 1
  BY <1>1, <1>2, <1>3 DEF Rows
<1>5. QED
  BY <1>4, Written DEF MoveBuild

(* A worker may move only the build it was leased.                         *)
LEMMA MoverOwns ==
    ASSUME LeaseInv, NEW w \in Workers, held[w].pc \in {"start", "write"}, NEW to,
           MayMoveBuild(held[w].b, held[w].ver, to)
    PROVE  held[w].b \in DOMAIN builds /\ builds[held[w].b].token = held[w].token
  BY DEF LeaseInv, Sound, MayMoveBuild

LEMMA StartStep ==
    ASSUME LeaseInv, NEW w \in Workers, Start(w) PROVE LeaseInv'
<1> DEFINE b == held[w].b
<1>0. held[w].pc = "start" /\ held[w].pc # "idle" /\ b \in DOMAIN builds
  BY DEF Start, Step, LeaseInv, Sound
<1>1. CASE MoveBuild(b, "running") /\ Go(w, "mark")
  <2> DEFINE g == [held[w] EXCEPT !.pc = "mark"]
  <2>1. Advanced
    BY <1>0, <1>1, MoveBuildAdvances
  <2>2. Sound(g, builds')
    BY <1>0, <2>1 DEF LeaseInv, Sound, Shape, Fields, Advanced
  <2>3. QED
    BY <1>1, <2>1, <2>2, AdvanceKeeps DEF Start, LeaseInv, Go
<1>2. CASE Leave(w) /\ UNCHANGED builds
  BY <1>2, LeaveKeeps DEF Start, Same
<1>3. QED
  BY <1>1, <1>2 DEF Start

LEMMA FinalWriteStep ==
    ASSUME LeaseInv, NEW w \in Workers, FinalWrite(w) PROVE LeaseInv'
<1> DEFINE b == held[w].b
<1> DEFINE to == Target(held[w].end)
<1> DEFINE ok == MayMoveBuild(b, held[w].ver, to)
<1>0. held[w].pc = "write" /\ held[w].pc # "idle" /\ b \in DOMAIN builds
  BY DEF FinalWrite, Step, LeaseInv, Sound
<1>1. CASE ok
  <2> DEFINE next == After(held[w].end, ok)
  <2> DEFINE g == IF next = "idle" THEN Idle ELSE [held[w] EXCEPT !.pc = next]
  <2>1. to \in {"running", "completed", "failed", "cancelled"}
    BY <1>0, <1>1, RowType DEF MayMoveBuild, BuildMoves
  <2>2. Advanced
    BY <1>0, <1>1, <2>1, MoveBuildAdvances DEF FinalWrite
  <2>3. next \notin {"start", "write"}
    BY DEF After
  <2>4. Sound([held[w] EXCEPT !.pc = next], builds')
    BY <1>0, <2>2, <2>3 DEF LeaseInv, Sound, Shape, Fields, Advanced
  <2>5. Sound(g, builds')
    BY <2>4, IdleSound
  <2>6. held' = [held EXCEPT ![w] = g]
    BY DEF FinalWrite, Continue, Go, Leave
  <2>7. claims' \in Nat
    BY DEF FinalWrite, LeaseInv
  <2> HIDE DEF g
  <2>8. QED
    BY <2>2, <2>5, <2>6, <2>7, AdvanceKeeps
<1>2. CASE ~ok
  BY <1>0, <1>2, ContinueKeeps DEF FinalWrite, Same
<1>3. QED
  BY <1>1, <1>2

LEMMA ClaimStep ==
    ASSUME LeaseInv, NEW w \in Workers, Claim(w) PROVE LeaseInv'
<1>1. PICK b \in DOMAIN builds :
        /\ claims' = claims + 1
        /\ builds' = [builds EXCEPT ![b].state = "claimed", ![b].token = claims + 1, ![b].ver = @ + 1]
        /\ held' = [held EXCEPT ![w] = [Idle EXCEPT !.pc = "load", !.b = b, !.token = claims + 1]]
  BY DEF Claim
<1> DEFINE row == [builds[b] EXCEPT !.state = "claimed", !.token = claims + 1, !.ver = @ + 1]
<1> DEFINE g == [Idle EXCEPT !.pc = "load", !.b = b, !.token = claims + 1]
<1>2. claims' \in Nat /\ builds[b] \in Rows
  BY <1>1 DEF LeaseInv
<1>3. row \in Rows /\ row.ver = builds[b].ver + 1
  BY <1>1, <1>2 DEF Rows
<1>4. builds' = [builds EXCEPT ![b] = row]
  BY <1>1
<1>5. Advanced
  BY <1>3, <1>4, Written
<1>6. Sound(g, builds')
  BY <1>1, <1>2, <1>5 DEF Sound, Shape, Fields, Idle, Advanced
<1>7. QED
  BY <1>1, <1>2, <1>5, <1>6, AdvanceKeeps

(* Many rows change at once, each to a newer version.                      *)
LEMMA ManyAdvance ==
    ASSUME LeaseInv, DOMAIN builds' = DOMAIN builds, builds' \in Seq(Rows),
           \A b \in DOMAIN builds : builds'[b] = builds[b] \/ builds'[b].ver = builds[b].ver + 1
    PROVE  Advanced
<1>1. ASSUME NEW b \in DOMAIN builds
      PROVE  /\ builds[b].ver <= builds'[b].ver
             /\ builds[b].ver = builds'[b].ver => builds'[b].token = builds[b].token
  <2>1. builds[b] \in Rows /\ builds[b].ver \in Nat
    BY RowType
  <2>2. QED
    BY <2>1
<1>2. QED
  BY <1>1 DEF Advanced

LEMMA ReclaimStep ==
    ASSUME LeaseInv, NEW w \in Workers, Reclaim(w) PROVE LeaseInv'
<1> DEFINE row(b) == IF b \notin Stale THEN builds[b]
                     ELSE [builds[b] EXCEPT !.state = IF builds[b].cancel THEN "cancelled" ELSE "queued",
                                            !.token = 0, !.ver = @ + 1]
<1>1. builds' = [b \in DOMAIN builds |-> row(b)]
  BY DEF Reclaim
<1>2. ASSUME NEW b \in DOMAIN builds
      PROVE  row(b) \in Rows /\ (row(b) = builds[b] \/ row(b).ver = builds[b].ver + 1)
  <2> DEFINE state == IF builds[b].cancel THEN "cancelled" ELSE "queued"
  <2>1. builds[b] \in Rows /\ builds[b].ver + 1 \in Nat
    BY RowType
  <2>2. state \in {"cancelled", "queued"}
    OBVIOUS
  <2> HIDE DEF state
  <2>3. LET new == [builds[b] EXCEPT !.state = state, !.token = 0, !.ver = builds[b].ver + 1]
        IN  new \in Rows /\ new.ver = builds[b].ver + 1
    BY <2>1, <2>2 DEF Rows
  <2>4. QED
    BY <2>1, <2>3 DEF state
<1> HIDE DEF row
<1>3. DOMAIN builds = 1..Len(builds) /\ Len(builds) \in Nat
  BY DEF LeaseInv
<1>4. builds' \in Seq(Rows) /\ DOMAIN builds' = DOMAIN builds
  BY <1>1, <1>2, <1>3
<1>5. Advanced
  BY <1>1, <1>2, <1>4, ManyAdvance
<1>6. QED
  BY <1>5, AloneKeeps DEF Reclaim, LeaseInv

LEMMA CancelKeeps ==
    ASSUME LeaseInv, Cancel PROVE LeaseInv'
<1>1. CASE Unfinished # {}
  <2> DEFINE row(b) == IF b \in Unfinished
                       THEN [builds[b] EXCEPT !.cancel = TRUE, !.ver = @ + 1] ELSE builds[b]
  <2>1. builds' = [b \in DOMAIN builds |-> row(b)]
    BY <1>1 DEF Cancel
  <2>2. ASSUME NEW b \in DOMAIN builds
        PROVE  row(b) \in Rows /\ (row(b) = builds[b] \/ row(b).ver = builds[b].ver + 1)
    <3>1. builds[b] \in Rows /\ builds[b].ver + 1 \in Nat
      BY RowType
    <3>2. LET new == [builds[b] EXCEPT !.cancel = TRUE, !.ver = builds[b].ver + 1]
          IN  new \in Rows /\ new.ver = builds[b].ver + 1
      BY <3>1 DEF Rows
    <3>3. QED
      BY <3>1, <3>2
  <2> HIDE DEF row
  <2>3. DOMAIN builds = 1..Len(builds) /\ Len(builds) \in Nat
    BY DEF LeaseInv
  <2>4. builds' \in Seq(Rows) /\ DOMAIN builds' = DOMAIN builds
    BY <2>1, <2>2, <2>3
  <2>5. Advanced
    BY <2>1, <2>2, <2>4, ManyAdvance
  <2>6. QED
    BY <2>5, AloneKeeps DEF Cancel, LeaseInv
<1>2. CASE Unfinished = {}
  BY <1>2 DEF Cancel, LeaseInv
<1>3. QED
  BY <1>1, <1>2

LEMMA EnqueueStep ==
    ASSUME LeaseInv, Enqueue PROVE LeaseInv'
<1>1. NewBuild \in Rows
  BY DEF NewBuild, Rows
<1>2. /\ builds' \in Seq(Rows) /\ DOMAIN builds \subseteq DOMAIN builds'
      /\ \A b \in DOMAIN builds : builds'[b] = builds[b]
  BY <1>1 DEF Enqueue, LeaseInv
<1>3. Advanced
  <2>1. ASSUME NEW b \in DOMAIN builds PROVE builds[b].ver <= builds[b].ver
    BY RowType
  <2>2. QED
    BY <1>2, <2>1 DEF Advanced
<1>4. QED
  BY <1>3, AloneKeeps DEF Enqueue, LeaseInv

-----------------------------------------------------------------------------
(* The actions that write no build                                         *)

LEMMA LoadKeeps ==
    ASSUME LeaseInv, NEW w \in Workers, Load(w) PROVE LeaseInv'
<1> DEFINE g == [held[w] EXCEPT !.pc = "lease", !.seen = cand.state, !.cver = cand.ver]
<1>1. Same /\ held[w].pc # "idle"
  BY DEF Load, Same, Step
<1>2. CASE held' = [held EXCEPT ![w].pc = "lease", ![w].seen = cand.state, ![w].cver = cand.ver]
  <2>1. Sound(g, builds)
    BY <1>1 DEF LeaseInv, Sound, Shape, Fields
  <2>2. QED
    BY <1>1, <1>2, <2>1, Quiet
<1>3. QED
  BY <1>1, <1>2, EndKeeps DEF Load

LEMMA MonitorKeeps ==
    ASSUME LeaseInv, NEW w \in Workers, Monitor(w) PROVE LeaseInv'
<1>1. Same /\ held[w].pc # "idle"
  BY DEF Monitor, Same, Working
<1>2. PICK cause \in {"lost", "cancelled"} : held' = [held EXCEPT ![w].cause = cause]
  BY DEF Monitor
<1> DEFINE g == [held[w] EXCEPT !.cause = cause]
<1>3. Sound(g, builds)
  BY <1>1 DEF LeaseInv, Sound, Shape, Fields
<1>4. QED
  BY <1>1, <1>2, <1>3, Quiet

LEMMA DecideKeeps ==
    ASSUME LeaseInv, NEW w \in Workers, Decide(w) PROVE LeaseInv'
<1>1. Same /\ held[w].pc # "idle"
  BY DEF Decide, Same, Step
<1>2. ASSUME NEW s \in Ready(held[w].b),
             held' = [held EXCEPT ![w].pc = "step", ![w].step = s, ![w].rec = steps[held[w].b][s]]
      PROVE  LeaseInv'
  <2> DEFINE g == [held[w] EXCEPT !.pc = "step", !.step = s, !.rec = steps[held[w].b][s]]
  <2>1. Sound(g, builds)
    BY <1>1 DEF LeaseInv, Sound, Shape, Fields
  <2>2. QED
    BY <1>1, <1>2, <2>1, Quiet
<1>3. QED
  BY <1>1, <1>2, EndKeeps, LeaveKeeps DEF Decide

LEMMA ExecKeeps ==
    ASSUME LeaseInv, NEW w \in Workers, Exec(w) PROVE LeaseInv'
<1>1. Same /\ held[w].pc # "idle"
  BY DEF Exec, Same, Step
<1>2. ASSUME NEW r, held' = [held EXCEPT ![w].pc = "result", ![w].out = r] PROVE LeaseInv'
  <2> DEFINE g == [held[w] EXCEPT !.pc = "result", !.out = r]
  <2>1. Sound(g, builds)
    BY <1>1 DEF LeaseInv, Sound, Shape, Fields
  <2>2. QED
    BY <1>1, <1>2, <2>1, Quiet
<1>3. QED
  BY <1>1, <1>2, GoKeeps, LeaveKeeps DEF Exec

LEMMA FinalCheckKeeps ==
    ASSUME LeaseInv, NEW w \in Workers, FinalCheck(w) PROVE LeaseInv'
<1> DEFINE g == [held[w] EXCEPT !.pc = "write", !.ver = builds[held[w].b].ver]
<1>1. Same /\ held[w].pc # "idle"
  BY DEF FinalCheck, Same, Step
<1>2. CASE Current(w)
  <2>1. Sound(g, builds)
    BY <1>1, <1>2, Checked DEF LeaseInv, Current
  <2>2. held' = [held EXCEPT ![w] = g]
    BY <1>2 DEF FinalCheck
  <2> HIDE DEF g
  <2>3. QED
    BY <1>1, <2>1, <2>2, Quiet
<1>3. CASE ~Current(w)
  BY <1>1, <1>3, ContinueKeeps DEF FinalCheck
<1>4. QED
  BY <1>2, <1>3

LEMMA CheckKeeps ==
    ASSUME LeaseInv, NEW w \in Workers, Lease(w) \/ Plan(w) \/ CheckStep(w) \/ CheckResult(w)
    PROVE  LeaseInv'
<1>1. Same /\ held[w].pc # "idle"
  BY DEF Lease, Plan, CheckStep, CheckResult, Same, Step
<1>2. QED
  BY <1>1, CheckLeaseKeeps DEF Lease, Plan, CheckStep, CheckResult

LEMMA StepWriteKeeps ==
    ASSUME LeaseInv, NEW w \in Workers, Begin(w) \/ Evidence(w) \/ Finish(w) \/ CancelStep(w)
    PROVE  LeaseInv'
<1>1. Same /\ held[w].pc # "idle"
  BY DEF Begin, Evidence, Finish, CancelStep, Same, Step
<1>2. CASE Begin(w)
  BY <1>1, <1>2, GoKeeps, WriteStepKeeps DEF Begin
<1>3. CASE Evidence(w)
  BY <1>1, <1>3, WriteStepKeeps DEF Evidence
<1>4. CASE Finish(w)
  BY <1>1, <1>4, WriteStepKeeps DEF Finish
<1>5. CASE CancelStep(w)
  BY <1>1, <1>5, EndKeeps DEF CancelStep
<1>6. QED
  BY <1>2, <1>3, <1>4, <1>5

LEMMA PlanKeeps ==
    ASSUME LeaseInv, NEW w \in Workers, MarkStarted(w) \/ Recover(w) \/ Record(w) \/ LocalError(w)
    PROVE  LeaseInv'
<1>1. Same /\ held[w].pc # "idle"
  BY DEF MarkStarted, Recover, Record, LocalError, Same, Step
<1>2. CASE MarkStarted(w)
  BY <1>1, <1>2, GoKeeps, EndKeeps DEF MarkStarted
<1>3. CASE Recover(w)
  BY <1>1, <1>3, GoKeeps, LeaveKeeps DEF Recover
<1>4. CASE Record(w)
  BY <1>1, <1>4, GoKeeps, EndKeeps, LeaveKeeps DEF Record
<1>5. CASE LocalError(w)
  BY <1>1, <1>5, EndKeeps DEF LocalError
<1>6. QED
  BY <1>2, <1>3, <1>4, <1>5

LEMMA RecordEndKeeps ==
    ASSUME LeaseInv, Same, NEW w \in Workers, held[w].pc # "idle", NEW closed, NEW key,
           NEW next \in {"failing", "blocking", "refusing"}, RecordEnd(w, closed, key, next)
    PROVE  LeaseInv'
<1> DEFINE g == [held[w] EXCEPT !.pc = next, !.cver = cand.ver + 1]
<1>1. CASE held' = [held EXCEPT ![w].pc = next, ![w].cver = cand.ver + 1]
  <2>1. Sound(g, builds)
    BY DEF LeaseInv, Sound, Shape, Fields
  <2>2. QED
    BY <1>1, <2>1, Quiet
<1>2. QED
  BY <1>1, LeaveKeeps DEF RecordEnd

LEMMA OutcomeKeeps ==
    ASSUME LeaseInv, NEW w \in Workers,
           FailEvidence(w) \/ BlockEvidence(w) \/ PolicyEvidence(w) \/ FailCandidate(w)
             \/ BlockCandidate(w) \/ PolicyBlock(w) \/ Advance(w) \/ AutoApprove(w)
    PROVE  LeaseInv'
<1>1. Same /\ held[w].pc # "idle"
  BY DEF FailEvidence, BlockEvidence, PolicyEvidence, RecordEnd, FailCandidate, BlockCandidate,
         PolicyBlock, Advance, AutoApprove, EndCandidate, Same, Step
<1>2. CASE Advance(w)
  <2>1. CASE UNCHANGED held
    BY <1>1, <2>1 DEF LeaseInv, Same
  <2>2. QED
    BY <1>1, <1>2, <2>1, GoKeeps, LeaveKeeps DEF Advance
<1>3. CASE FailEvidence(w) \/ BlockEvidence(w) \/ PolicyEvidence(w)
  BY <1>1, <1>3, RecordEndKeeps DEF FailEvidence, BlockEvidence, PolicyEvidence
<1>4. CASE FailCandidate(w) \/ BlockCandidate(w) \/ PolicyBlock(w) \/ AutoApprove(w)
  BY <1>1, <1>4, LeaveKeeps
     DEF FailCandidate, BlockCandidate, PolicyBlock, AutoApprove, EndCandidate
<1>5. QED
  BY <1>2, <1>3, <1>4

-----------------------------------------------------------------------------
LEMMA InitLease == Init => LeaseInv
<1> SUFFICES ASSUME Init PROVE LeaseInv
  OBVIOUS
<1>1. NewBuild \in Rows
  BY DEF NewBuild, Rows
<1>2. builds \in Seq(Rows) /\ claims \in Nat
  BY <1>1 DEF Init
<1>3. DOMAIN held = Workers /\ \A w \in Workers : held[w] = Idle
  BY DEF Init
<1>4. held = [w \in Workers |-> held[w]]
  BY DEF Init
<1>5. QED
  BY <1>2, <1>3, <1>4, IdleSound DEF LeaseInv

LEMMA NextLease == LeaseInv /\ [Next]_vars => LeaseInv'
<1> SUFFICES ASSUME LeaseInv, [Next]_vars PROVE LeaseInv'
  OBVIOUS
<1>1. ASSUME NEW w \in Workers, WorkerStep(w) PROVE LeaseInv'
  BY <1>1, LoadKeeps, CheckKeeps, StartStep, PlanKeeps, DecideKeeps, StepWriteKeeps, ExecKeeps,
     FinalCheckKeeps, FinalWriteStep, OutcomeKeeps DEF WorkerStep
<1>2. ASSUME NEW w \in Workers, Crash(w) PROVE LeaseInv'
  BY <1>2, LeaveKeeps DEF Crash, Same
<1>3. ASSUME UNCHANGED <<builds, claims, held>> PROVE LeaseInv'
  BY <1>3 DEF LeaseInv
<1>4. ASSUME NEW b \in DOMAIN builds, Expire(b) \/ Suspend(b) PROVE LeaseInv'
  BY <1>3, <1>4 DEF Expire, Suspend, RunOut
<1>5. CASE Retry \/ EnqueueFails \/ UNCHANGED vars
  BY <1>3, <1>5 DEF Retry, EnqueueFails, vars
<1>6. QED
  BY <1>1, <1>2, <1>4, <1>5, ReclaimStep, ClaimStep, PlanKeeps, MonitorKeeps, CancelKeeps,
     EnqueueStep DEF Next

-----------------------------------------------------------------------------
(* What one step may do to the state of a build under a live lease         *)

OwnerEnds ==
  \A b \in DOMAIN builds :
    /\ builds[b].state \in Active /\ b \in fresh
    /\ builds'[b].state # builds[b].state
    => \E w \in Workers : /\ held[w].b = b /\ held[w].token = builds[b].token
                         /\ held'[w] # held[w]

LEMMA MoverEnds ==
    ASSUME LeaseInv, NEW w \in Workers, held[w].pc \in {"start", "write"}, NEW to,
           MayMoveBuild(held[w].b, held[w].ver, to), MoveBuild(held[w].b, to), held'[w] # held[w]
    PROVE  OwnerEnds
<1>1. held[w].b \in DOMAIN builds /\ builds[held[w].b].token = held[w].token
  BY MoverOwns
<1>2. \A b \in DOMAIN builds : b # held[w].b => builds'[b] = builds[b]
  BY DEF MoveBuild, LeaseInv
<1>3. QED
  BY <1>1, <1>2 DEF OwnerEnds

(* The memory of a worker that moves on differs from the one it had.       *)
LEMMA Moved ==
    ASSUME LeaseInv, NEW w \in Workers, NEW pc, pc # held[w].pc, Go(w, pc) \/ (Leave(w) /\ pc = "idle")
    PROVE  held'[w] # held[w]
<1>1. CASE Go(w, pc)
  <2>1. held'[w] = [held[w] EXCEPT !.pc = pc]
    BY <1>1 DEF Go, LeaseInv
  <2>2. [held[w] EXCEPT !.pc = pc].pc = pc
    BY DEF LeaseInv, Sound, Shape, Fields
  <2>3. QED
    BY <2>1, <2>2
<1>2. CASE Leave(w) /\ pc = "idle"
  <2>1. held'[w] = Idle
    BY <1>2 DEF Leave, LeaseInv
  <2>2. QED
    BY <1>2, <2>1 DEF Idle
<1>3. QED
  BY <1>1, <1>2

LEMMA StateKept ==
    ASSUME \A b \in DOMAIN builds : builds[b].state \in Active /\ b \in fresh =>
             builds'[b].state = builds[b].state
    PROVE  OwnerEnds
  BY DEF OwnerEnds

LEMMA StepEnds == LeaseInv /\ [Next]_vars => OwnerEnds
<1> SUFFICES ASSUME LeaseInv, [Next]_vars PROVE OwnerEnds
  OBVIOUS
<1>1. ASSUME UNCHANGED builds PROVE OwnerEnds
  BY <1>1 DEF OwnerEnds
<1>2. ASSUME NEW w \in Workers, Start(w) PROVE OwnerEnds
  <2>1. CASE UNCHANGED builds
    BY <1>1, <2>1
  <2>2. CASE MayMoveBuild(held[w].b, held[w].ver, "running") /\ MoveBuild(held[w].b, "running") /\ Go(w, "mark")
    BY <1>2, <2>2, Moved, MoverEnds DEF Start, Step
  <2>3. QED
    BY <1>2, <2>1, <2>2 DEF Start
<1>3. ASSUME NEW w \in Workers, FinalWrite(w) PROVE OwnerEnds
  <2> DEFINE to == Target(held[w].end)
  <2> DEFINE ok == MayMoveBuild(held[w].b, held[w].ver, to)
  <2> DEFINE next == After(held[w].end, ok)
  <2>1. CASE ~ok
    BY <1>1, <1>3, <2>1 DEF FinalWrite
  <2>2. CASE ok
    <3>1. held[w].pc = "write" /\ next # "write"
      BY <1>3 DEF FinalWrite, Step, After
    <3>2. Go(w, next) \/ (Leave(w) /\ next = "idle")
      BY <1>3, <2>2 DEF FinalWrite, Continue
    <3>3. held'[w] # held[w]
      BY <3>1, <3>2, Moved
    <3>4. MoveBuild(held[w].b, to)
      BY <1>3, <2>2 DEF FinalWrite
    <3>5. QED
      BY <2>2, <3>1, <3>3, <3>4, MoverEnds
  <2>3. QED
    BY <2>1, <2>2
<1>4. ASSUME NEW w \in Workers, Claim(w) PROVE OwnerEnds
  <2>1. PICK b \in DOMAIN builds :
          /\ Claimable(b)
          /\ builds' = [builds EXCEPT ![b].state = "claimed", ![b].token = claims + 1, ![b].ver = @ + 1]
    BY <1>4 DEF Claim
  <2>2. \A c \in DOMAIN builds : c # b => builds'[c] = builds[c]
    BY <2>1 DEF LeaseInv
  <2>3. builds[b].state \notin Active
    BY <2>1 DEF Claimable, Active
  <2>4. QED
    BY <2>2, <2>3, StateKept
<1>5. ASSUME NEW w \in Workers, Reclaim(w) PROVE OwnerEnds
  <2>1. \A b \in DOMAIN builds : b \in fresh => builds'[b] = builds[b]
    BY <1>5 DEF Reclaim, Stale
  <2>2. QED
    BY <2>1, StateKept
<1>6. ASSUME Cancel PROVE OwnerEnds
  <2>1. CASE UNCHANGED builds
    BY <1>1, <2>1
  <2>2. CASE Unfinished # {}
    <3> SUFFICES ASSUME NEW b \in DOMAIN builds PROVE builds'[b].state = builds[b].state
      BY StateKept
    <3>1. builds[b] \in Rows
      BY RowType
    <3>2. [builds[b] EXCEPT !.cancel = TRUE, !.ver = @ + 1].state = builds[b].state
      BY <3>1 DEF Rows
    <3>3. QED
      BY <1>6, <2>2, <3>2 DEF Cancel
  <2>3. QED
    BY <1>6, <2>1, <2>2 DEF Cancel
<1>7. ASSUME Enqueue PROVE OwnerEnds
  <2>1. \A b \in DOMAIN builds : builds'[b] = builds[b]
    BY <1>7 DEF Enqueue, LeaseInv
  <2>2. QED
    BY <2>1, StateKept
<1>8. ASSUME NEW w \in Workers, WorkerStep(w), ~Start(w), ~FinalWrite(w) PROVE UNCHANGED builds
  BY <1>8 DEF WorkerStep, Load, Lease, MarkStarted, Plan, Recover, Decide, CheckStep, Begin, Exec,
     CancelStep, CheckResult, Evidence, Finish, Record, FinalCheck, FailEvidence, BlockEvidence,
     PolicyEvidence, RecordEnd, FailCandidate, BlockCandidate, PolicyBlock, Advance, AutoApprove,
     EndCandidate
<1>9. ASSUME NEW w \in Workers, Monitor(w) \/ LocalError(w) \/ Crash(w) PROVE UNCHANGED builds
  BY <1>9 DEF Monitor, LocalError, Crash
<1>10. ASSUME NEW b \in DOMAIN builds, Expire(b) \/ Suspend(b) PROVE UNCHANGED builds
  BY <1>10 DEF Expire, Suspend, RunOut
<1>11. CASE Retry \/ EnqueueFails \/ UNCHANGED vars
  BY <1>1, <1>11 DEF Retry, EnqueueFails, vars
<1>12. QED
  BY <1>1, <1>2, <1>3, <1>4, <1>5, <1>6, <1>7, <1>8, <1>9, <1>10, <1>11 DEF Next

(* Versions and lease tokens stay consistent with what every worker        *)
(* remembers (HeartbeatBuildRun, TransitionBuildRun).                      *)
THEOREM LeaseInvariant == Spec => []LeaseInv
<1>1. QED
  BY InitLease, NextLease, PTL DEF Spec

(* While its lease is live a build is ended only by the worker it was      *)
(* leased to (finalizeBuild, ReclaimStaleBuildRuns).                       *)
THEOREM EndedByOwnerHolds == Spec => EndedByOwner
<1>1. LeaseInv /\ [Next]_vars => [OwnerEnds]_vars
  BY StepEnds
<1>2. EndedByOwner <=> [][OwnerEnds]_vars
  BY PTL DEF EndedByOwner, OwnerEnds
<1>3. QED
  BY <1>1, <1>2, LeaseInvariant, PTL DEF Spec

-----------------------------------------------------------------------------
(* What a build, its plan and the candidate have to do with each other     *)
(*                                                                         *)
(* BuildInv adds to the four properties what they rest on: what a worker   *)
(* remembers of its plan and of a cancellation (MemorySound), and that the *)
(* candidate is blocked, or queued again, only when its attempts so far    *)
(* have come to their end (Attempts).                                      *)

Pcs == {"idle", "load", "lease", "start", "mark", "plan", "recover", "decide", "step", "begin",
        "exec", "result", "evidence", "finish", "record", "cancelstep", "final", "write",
        "fail", "failing", "block", "blocking", "outcome", "refusing", "approve"}
CandStates == {"queued", "building", "testing", "security_review", "awaiting_approval",
               "approved", "blocked", "rejected", "failed"}
Keys == {"build-started", "policy-decision", "failure-evidence", "failed", "cancellation-evidence",
         "blocked", "policy-block-evidence", "policy-blocked", "auto-approved"}
StepRows == [state : DOMAIN StepMoves, att : Nat, ver : Nat,
             out : Outcomes \cup {"none", "ok", "failed", "unreconciled"}]
Memory == [pc : Pcs, b : Nat, token : Nat, ver : Nat, seen : CandStates \cup {"none"}, cver : Nat,
           step : Steps \cup {None}, rec : StepRows,
           out : Outcomes \cup {"none", "ok", "failed", "unreconciled"},
           cause : {"none", "lost", "cancelled"},
           end : {"none", "completed", "failed", "cancelled", "refused"}]

Typed ==
  /\ cand \in [state : CandStates, ver : Nat, policy : Outcomes \cup {"none"}, keys : SUBSET Keys]
  /\ builds \in Seq(Rows) /\ steps \in Seq([Steps -> StepRows]) /\ Len(steps) = Len(builds)
  /\ held \in [Workers -> Memory] /\ claims \in Nat /\ retry \in Nat

(* The attempt of a step that a worker works on is the newest one, as far  *)
(* as its version says.                                                    *)
Older(rec, row) ==
  rec.att < row.att \/ (rec.att = row.att /\ (rec.ver < row.ver \/ rec = row))

InStep    == {"step", "begin", "exec", "result", "evidence", "finish", "cancelstep"}
Executing == InStep \ {"step", "begin"}

PlanSound(h, plan) ==
  /\ h.pc \in InStep => /\ h.step \in Steps /\ Older(h.rec, plan[h.step])
                        /\ \A d \in Needs[h.step] : plan[d].state = "completed"
  /\ h.pc \in Executing => h.rec.state = "running"
  /\ h.pc \in {"result", "evidence", "finish"} => h.out \in Results(h.step)
  /\ h.pc = "record" => h.out \in Decisions
  /\ h.pc \in {"final", "write"} /\ h.end = "completed" =>
       \A s \in Steps : plan[s].state = "completed"

Live(b, row, leased) == b \in leased /\ row.state \in Active
Dead(b, row, leased) ==
  row.state \in Terminal \/ (row.cancel /\ (b \notin leased \/ row.state = "queued"))

\* The worker has seen under its lease that the build is to be cancelled.
Cancelling(h) == \/ h.pc \in {"final", "write"} /\ h.end = "cancelled"
                 \/ h.pc \in Working /\ h.cause = "cancelled"

BuildSound(h, row, leased) ==
  /\ h.pc \in {"load", "lease", "start", "mark"} => h.cause = "none"
  /\ h.pc = "cancelstep" => h.cause = "cancelled"
  /\ h.pc \in {"outcome", "refusing", "approve"} => row.state = "completed"
  /\ Cancelling(h) =>
       row.cancel /\ (Live(h.b, row, leased) => row.token = h.token)
  /\ h.pc = "write" /\ h.end = "cancelled" /\ Live(h.b, row, leased) => h.ver = row.ver
  /\ h.pc \in {"block", "blocking"} => row.cancel /\ ~Live(h.b, row, leased)

MemorySound(h, rows, plans, leased) ==
  h.pc # "idle" => /\ h.b \in DOMAIN rows
                   /\ PlanSound(h, plans[h.b])
                   /\ BuildSound(h, rows[h.b], leased)

\* The candidate has been blocked since build b was queued.
Passed(b) == b < Len(builds) \/ retry # 0 \/ cand.state = "blocked"

Attempts ==
  /\ retry # 0 => cand.state # "blocked"
  /\ \A b \in DOMAIN builds :
       /\ builds[b].state = "completed" => ~builds[b].cancel
       /\ Passed(b) => /\ Dead(b, builds[b], fresh)
                       /\ builds[b].state = "completed" => "policy-blocked" \in cand.keys
                       /\ builds[b].cancel => "blocked" \in cand.keys

BuildInv ==
  /\ Typed
  /\ \A w \in Workers : MemorySound(held[w], builds, steps, fresh)
  /\ CompletedHasPlan /\ DependenciesFirst
  /\ Attempts
  /\ ApprovableIsEvident

Newer(row, row2) == row.att < row2.att \/ (row.att = row2.att /\ row.ver < row2.ver)

PlanFollows(plan, plan2) ==
  \A s \in Steps : /\ plan2[s] = plan[s] \/ Newer(plan[s], plan2[s])
                   /\ plan[s].state = "completed" => plan2[s] = plan[s]

RowFollows(b, row, leased, row2, leased2) ==
  /\ row.state = "completed" => row2.state = "completed"
  /\ row.cancel => /\ row2.cancel
                   /\ Live(b, row2, leased2) =>
                        Live(b, row, leased) /\ row2.token = row.token /\ row2.ver = row.ver

LEMMA RowTypes ==
    ASSUME Typed, NEW b \in DOMAIN builds
    PROVE  /\ builds[b] \in Rows /\ b \in DOMAIN steps /\ steps[b] \in [Steps -> StepRows]
           /\ b \in Nat /\ b >= 1 /\ b <= Len(builds)
  BY DEF Typed

LEMMA PlanKept ==
    ASSUME NEW h \in Memory, NEW plan \in [Steps -> StepRows], NEW plan2 \in [Steps -> StepRows],
           PlanSound(h, plan), PlanFollows(plan, plan2)
    PROVE  PlanSound(h, plan2)
<1>1. ASSUME h.pc \in InStep
      PROVE  /\ h.step \in Steps /\ Older(h.rec, plan2[h.step])
             /\ \A d \in Needs[h.step] : plan2[d].state = "completed"
  <2>1. /\ h.step \in Steps /\ Older(h.rec, plan[h.step])
        /\ \A d \in Needs[h.step] : plan[d].state = "completed"
    BY <1>1 DEF PlanSound
  <2>2. \A d \in Needs[h.step] : d \in Steps
    BY <2>1, ReleaseAssumption DEF ReleaseAssumption
  <2>3. h.rec \in StepRows /\ plan[h.step] \in StepRows /\ plan2[h.step] \in StepRows
    BY <2>1 DEF Memory
  <2>4. Older(h.rec, plan2[h.step])
    BY <2>1, <2>3 DEF Older, PlanFollows, Newer, StepRows
  <2>5. QED
    BY <2>1, <2>2, <2>4 DEF PlanFollows
<1>2. (\A s \in Steps : plan[s].state = "completed") => \A s \in Steps : plan2[s].state = "completed"
  BY DEF PlanFollows
<1>3. QED
  BY <1>1, <1>2 DEF PlanSound

LEMMA BuildKept ==
    ASSUME NEW h \in Memory, NEW row \in Rows, NEW row2 \in Rows, NEW leased, NEW leased2,
           BuildSound(h, row, leased), RowFollows(h.b, row, leased, row2, leased2)
    PROVE  BuildSound(h, row2, leased2)
<1>1. h.pc \in {"outcome", "refusing", "approve"} => row2.state = "completed"
  BY DEF BuildSound, RowFollows
<1>2. Cancelling(h) => row2.cancel /\ (Live(h.b, row2, leased2) => row2.token = h.token)
  BY DEF BuildSound, RowFollows
<1>3. h.pc = "write" /\ h.end = "cancelled" /\ Live(h.b, row2, leased2) => h.ver = row2.ver
  BY DEF BuildSound, RowFollows, Cancelling
<1>4. h.pc \in {"block", "blocking"} => row2.cancel /\ ~Live(h.b, row2, leased2)
  BY DEF BuildSound, RowFollows
<1>5. /\ h.pc \in {"load", "lease", "start", "mark"} => h.cause = "none"
      /\ h.pc = "cancelstep" => h.cause = "cancelled"
  BY DEF BuildSound
<1>6. QED
  BY <1>1, <1>2, <1>3, <1>4, <1>5 DEF BuildSound

LEMMA MemoriesKept ==
    ASSUME BuildInv, Typed',
           \A b \in DOMAIN builds :
             /\ b \in DOMAIN builds' /\ PlanFollows(steps[b], steps'[b])
             /\ RowFollows(b, builds[b], fresh, builds'[b], fresh'),
           NEW v \in Workers, held'[v] = held[v]
    PROVE  MemorySound(held'[v], builds', steps', fresh')
<1> SUFFICES ASSUME held[v].pc # "idle"
             PROVE  MemorySound(held[v], builds', steps', fresh')
  BY DEF MemorySound
<1>1. PICK h \in Memory : h = held[v]
  BY DEF BuildInv, Typed
<1>2. h.b \in DOMAIN builds /\ PlanSound(h, steps[h.b]) /\ BuildSound(h, builds[h.b], fresh)
  BY <1>1 DEF BuildInv, MemorySound
<1>3. h.b \in DOMAIN builds' /\ PlanFollows(steps[h.b], steps'[h.b])
      /\ RowFollows(h.b, builds[h.b], fresh, builds'[h.b], fresh')
  BY <1>2
<1>4. builds[h.b] \in Rows /\ steps[h.b] \in [Steps -> StepRows]
  BY <1>2, RowTypes DEF BuildInv
<1>5. builds'[h.b] \in Rows /\ steps'[h.b] \in [Steps -> StepRows]
  BY <1>3 DEF Typed
<1>6. PlanSound(h, steps'[h.b])
  BY <1>2, <1>3, <1>4, <1>5, PlanKept
<1>7. BuildSound(h, builds'[h.b], fresh')
  BY <1>2, <1>3, <1>4, <1>5, BuildKept
<1>8. QED
  BY <1>1, <1>3, <1>6, <1>7 DEF MemorySound

LEMMA NothingMoved ==
    ASSUME Typed, UNCHANGED <<builds, steps, fresh>>
    PROVE  \A b \in DOMAIN builds :
             /\ b \in DOMAIN builds' /\ PlanFollows(steps[b], steps'[b])
             /\ RowFollows(b, builds[b], fresh, builds'[b], fresh')
  BY DEF PlanFollows, RowFollows

(* A step that only changes what one worker remembers.                     *)
LEMMA RemembersKeeps ==
    ASSUME BuildInv, NEW w \in Workers, NEW g \in Memory, MemorySound(g, builds, steps, fresh),
           held' = [held EXCEPT ![w] = g], UNCHANGED <<cand, builds, steps, fresh, claims, retry>>
    PROVE  BuildInv'
<1>1. Typed'
  BY DEF BuildInv, Typed
<1>2. ASSUME NEW v \in Workers PROVE MemorySound(held'[v], builds', steps', fresh')
  <2>1. held'[v] = held[v] \/ held'[v] = g
    BY DEF BuildInv, Typed
  <2>2. QED
    BY <1>1, <2>1, MemoriesKept, NothingMoved DEF BuildInv
<1>3. Attempts'
  BY DEF BuildInv, Attempts, Passed
<1>4. CompletedHasPlan' /\ DependenciesFirst' /\ ApprovableIsEvident'
  BY DEF BuildInv, CompletedHasPlan, DependenciesFirst, ApprovableIsEvident
<1>5. QED
  BY <1>1, <1>2, <1>3, <1>4 DEF BuildInv

(* What a worker that is not idle remembers, and the rows of its build.    *)
LEMMA Own ==
    ASSUME BuildInv, NEW w \in Workers, held[w].pc # "idle"
    PROVE  /\ held[w] \in Memory /\ held[w].b \in DOMAIN builds
           /\ builds[held[w].b] \in Rows /\ steps[held[w].b] \in [Steps -> StepRows]
           /\ PlanSound(held[w], steps[held[w].b])
           /\ BuildSound(held[w], builds[held[w].b], fresh)
<1>1. held[w].b \in DOMAIN builds
  BY DEF BuildInv, MemorySound
<1>2. QED
  BY <1>1, RowTypes DEF BuildInv, MemorySound, Typed

LEMMA IdleTyped == Idle \in Memory /\ Idle.pc = "idle"
<1>1. NewStep \in StepRows
  BY DEF NewStep, StepRows, StepMoves, BuildMoves
<1>2. QED
  BY <1>1 DEF Idle, Memory, Pcs

LEMMA LeaveSound ==
    ASSUME BuildInv, NEW w \in Workers, Leave(w),
           UNCHANGED <<cand, builds, steps, fresh, claims, retry>>
    PROVE  BuildInv'
<1>1. MemorySound(Idle, builds, steps, fresh)
  BY IdleTyped DEF MemorySound
<1>2. QED
  BY <1>1, IdleTyped, RemembersKeeps DEF Leave

(* A worker turns to the end of its build.                                 *)
Ending(h, end) == [h EXCEPT !.pc = "final", !.end = end]

LEMMA EndingSound ==
    ASSUME NEW h \in Memory, NEW plan \in [Steps -> StepRows], NEW row \in Rows, NEW leased,
           NEW end \in {"completed", "failed", "cancelled", "refused"},
           end = "completed" => \A s \in Steps : plan[s].state = "completed",
           end = "cancelled" => row.cancel /\ (Live(h.b, row, leased) => row.token = h.token)
    PROVE  LET g == Ending(h, end)
           IN  g \in Memory /\ g.b = h.b /\ g.pc = "final" /\ PlanSound(g, plan) /\ BuildSound(g, row, leased)
<1> DEFINE g == [h EXCEPT !.pc = "final", !.end = end]
<1>1. g \in Memory /\ g.pc = "final" /\ g.end = end /\ g.b = h.b /\ g.token = h.token
  <2>1. g.pc = "final" /\ g.end = end /\ g.b = h.b /\ g.token = h.token
    BY DEF Memory
  <2>2. "final" \in Pcs /\ end \in {"none", "completed", "failed", "cancelled", "refused"}
    BY DEF Pcs
  <2>3. g \in Memory
    BY <2>2 DEF Memory
  <2>4. QED
    BY <2>1, <2>3
<1>0. g = Ending(h, end)
  BY DEF Ending
<1> HIDE DEF g
<1>2. PlanSound(g, plan)
  BY <1>1 DEF PlanSound, InStep, Executing
<1>3. BuildSound(g, row, leased)
  BY <1>1 DEF BuildSound, Cancelling, Working
<1>4. QED
  BY <1>0, <1>1, <1>2, <1>3

LEMMA EndSound ==
    ASSUME BuildInv, NEW w \in Workers, held[w].pc # "idle",
           NEW end \in {"completed", "failed", "cancelled", "refused"}, End(w, end),
           end = "completed" => \A s \in Steps : steps[held[w].b][s].state = "completed",
           end = "cancelled" =>
             /\ builds[held[w].b].cancel
             /\ Live(held[w].b, builds[held[w].b], fresh) => builds[held[w].b].token = held[w].token,
           UNCHANGED <<cand, builds, steps, fresh, claims, retry>>
    PROVE  BuildInv'
<1> DEFINE g == Ending(held[w], end)
<1>1. g \in Memory /\ g.b = held[w].b /\ g.pc = "final" /\ PlanSound(g, steps[held[w].b])
      /\ BuildSound(g, builds[held[w].b], fresh)
  BY Own, EndingSound
<1>2. held' = [held EXCEPT ![w] = g]
  BY DEF End, Ending
<1> HIDE DEF g
<1>3. MemorySound(g, builds, steps, fresh)
  BY <1>1, Own DEF MemorySound
<1>4. QED
  BY <1>1, <1>2, <1>3, RemembersKeeps

(* The same work goes on elsewhere.                                        *)
LEMMA GoSound ==
    ASSUME BuildInv, NEW w \in Workers, held[w].pc # "idle", NEW g \in Memory,
           held' = [held EXCEPT ![w] = g], g.b = held[w].b,
           PlanSound(g, steps[held[w].b]), BuildSound(g, builds[held[w].b], fresh),
           UNCHANGED <<cand, builds, steps, fresh, claims, retry>>
    PROVE  BuildInv'
<1>1. MemorySound(g, builds, steps, fresh)
  BY Own DEF MemorySound
<1>2. QED
  BY <1>1, RemembersKeeps

(* A worker at any stage moves on, having learnt nothing that binds it.    *)
LEMMA CheckLeaseSound ==
    ASSUME BuildInv, NEW w \in Workers, NEW next,
           <<held[w].pc, next>> \in {<<"lease", "start">>, <<"plan", "recover">>,
                                     <<"step", "begin">>, <<"result", "evidence">>},
           CheckLease(w, next), UNCHANGED <<cand, builds, steps, fresh, claims, retry>>
    PROVE  BuildInv'
<1>1. PICK h \in Memory, row \in Rows, plan \in [Steps -> StepRows] :
        /\ h = held[w] /\ row = builds[h.b] /\ plan = steps[h.b] /\ h.b \in DOMAIN builds
        /\ PlanSound(h, plan) /\ BuildSound(h, row, fresh)
  BY Own
<1>2. CASE Leave(w)
  BY <1>2, LeaveSound
<1>3. CASE End(w, "cancelled") /\ Current(w) /\ row.cancel
  <2>1. row.token = h.token
    BY <1>1, <1>3 DEF Current
  <2>2. QED
    BY <1>1, <1>3, <2>1, EndSound
<1>4. CASE held' = [held EXCEPT ![w].pc = next, ![w].ver = builds[h.b].ver] /\ h.cause = "none"
  <2>1. PICK v \in Nat : v = builds[h.b].ver
    BY <1>1 DEF Rows
  <2> DEFINE g == [h EXCEPT !.pc = next, !.ver = v]
  <2>2. held' = [held EXCEPT ![w] = g]
    BY <1>1, <1>4, <2>1
  <2>3. g \in Memory /\ g.pc = next /\ g.b = h.b /\ g.step = h.step /\ g.rec = h.rec
        /\ g.out = h.out /\ g.cause = "none"
    BY <1>4 DEF Memory, Pcs
  <2> HIDE DEF g
  <2>4. PlanSound(g, plan)
    BY <1>1, <2>3 DEF PlanSound, InStep, Executing
  <2>5. BuildSound(g, row, fresh)
    BY <1>1, <2>3 DEF BuildSound, Cancelling, Working
  <2>6. QED
    BY <1>1, <2>2, <2>3, <2>4, <2>5, GoSound
<1>5. QED
  BY <1>1, <1>2, <1>3, <1>4 DEF CheckLease

LEMMA ChecksSound ==
    ASSUME BuildInv, NEW w \in Workers, Lease(w) \/ Plan(w) \/ CheckStep(w) \/ CheckResult(w)
    PROVE  BuildInv'
  BY CheckLeaseSound DEF Lease, Plan, CheckStep, CheckResult, Step

LEMMA LoadSound ==
    ASSUME BuildInv, NEW w \in Workers, Load(w) PROVE BuildInv'
<1>1. PICK h \in Memory, row \in Rows, plan \in [Steps -> StepRows] :
        /\ h = held[w] /\ row = builds[h.b] /\ plan = steps[h.b] /\ h.pc = "load"
        /\ PlanSound(h, plan) /\ BuildSound(h, row, fresh)
  BY Own DEF Load, Step
<1>2. UNCHANGED <<cand, builds, steps, fresh, claims, retry>>
  BY DEF Load
<1>3. CASE held' = [held EXCEPT ![w].pc = "lease", ![w].seen = cand.state, ![w].cver = cand.ver]
  <2>1. PICK s \in CandStates, v \in Nat : s = cand.state /\ v = cand.ver
    BY DEF BuildInv, Typed
  <2> DEFINE g == [h EXCEPT !.pc = "lease", !.seen = s, !.cver = v]
  <2>2. held' = [held EXCEPT ![w] = g]
    BY <1>1, <1>3, <2>1
  <2>3. g \in Memory /\ g.pc = "lease" /\ g.b = h.b /\ g.cause = h.cause
    BY ZenonT(30) DEF Memory, Pcs
  <2> HIDE DEF g
  <2>4. PlanSound(g, plan) /\ BuildSound(g, row, fresh)
    BY <1>1, <2>3 DEF PlanSound, BuildSound, InStep, Executing, Cancelling, Working
  <2>5. QED
    BY <1>1, <1>2, <2>2, <2>3, <2>4, GoSound
<1>4. CASE End(w, "failed")
  BY <1>1, <1>2, <1>4, EndSound
<1>5. QED
  BY <1>3, <1>4 DEF Load

LEMMA MonitorSound ==
    ASSUME BuildInv, NEW w \in Workers, Monitor(w) PROVE BuildInv'
<1>1. PICK h \in Memory, row \in Rows, plan \in [Steps -> StepRows] :
        /\ h = held[w] /\ row = builds[h.b] /\ plan = steps[h.b] /\ h.pc \in Working /\ h.cause = "none"
        /\ PlanSound(h, plan) /\ BuildSound(h, row, fresh)
  BY Own DEF Monitor, Working
<1>2. UNCHANGED <<cand, builds, steps, fresh, claims, retry>>
  BY DEF Monitor
<1>3. PICK cause \in {"lost", "cancelled"} :
        /\ held' = [held EXCEPT ![w].cause = cause]
        /\ cause = "cancelled" => Current(w) /\ row.cancel
  BY <1>1 DEF Monitor
<1> DEFINE g == [h EXCEPT !.cause = cause]
<1>4. held' = [held EXCEPT ![w] = g]
  BY <1>1, <1>3
<1>5. g \in Memory /\ g.pc = h.pc /\ g.b = h.b /\ g.step = h.step /\ g.rec = h.rec
      /\ g.out = h.out /\ g.cause = cause /\ g.token = h.token
  BY DEF Memory
<1> HIDE DEF g
<1>6. PlanSound(g, plan)
  BY <1>1, <1>5 DEF PlanSound, Working
<1>7. cause = "cancelled" => row.token = h.token /\ row.cancel
  BY <1>1, <1>3 DEF Current
<1>8. BuildSound(g, row, fresh)
  BY <1>1, <1>5, <1>7 DEF BuildSound, Cancelling, Working
<1>9. QED
  BY <1>1, <1>2, <1>4, <1>5, <1>6, <1>8, GoSound DEF Working

LEMMA LocalErrorSound ==
    ASSUME BuildInv, NEW w \in Workers, LocalError(w) PROVE BuildInv'
  BY EndSound DEF LocalError

LEMMA DecideSound ==
    ASSUME BuildInv, NEW w \in Workers, Decide(w) PROVE BuildInv'
<1>1. PICK h \in Memory, row \in Rows, plan \in [Steps -> StepRows] :
        /\ h = held[w] /\ row = builds[h.b] /\ plan = steps[h.b] /\ h.pc = "decide"
        /\ PlanSound(h, plan) /\ BuildSound(h, row, fresh)
  BY Own DEF Decide, Step
<1>2. UNCHANGED <<cand, builds, steps, fresh, claims, retry>>
  BY DEF Decide
<1>3. CASE AllDone(h.b) /\ End(w, "completed")
  <2>1. \A s \in Steps : plan[s].state = "completed"
    BY <1>1, <1>3 DEF AllDone, Done
  <2>2. QED
    BY <1>1, <1>2, <1>3, <2>1, EndSound
<1>4. CASE h.cause = "cancelled" /\ End(w, "cancelled")
  <2>1. row.cancel /\ (Live(h.b, row, fresh) => row.token = h.token)
    BY <1>1, <1>4 DEF BuildSound, Cancelling, Working
  <2>2. QED
    BY <1>1, <1>2, <1>4, <2>1, EndSound
<1>5. ASSUME h.cause = "none", NEW s \in Ready(h.b),
             held' = [held EXCEPT ![w].pc = "step", ![w].step = s, ![w].rec = steps[h.b][s]]
      PROVE  BuildInv'
  <2>1. s \in Steps /\ plan[s] \in StepRows /\ \A d \in Needs[s] : plan[d].state = "completed"
    BY <1>1, <1>5 DEF Ready, Done
  <2>2. PICK r \in StepRows : r = plan[s]
    BY <2>1
  <2> DEFINE g == [h EXCEPT !.pc = "step", !.step = s, !.rec = r]
  <2>3. held' = [held EXCEPT ![w] = g]
    BY <1>1, <1>5, <2>2
  <2>4. g \in Memory /\ g.pc = "step" /\ g.b = h.b /\ g.step = s /\ g.rec = r /\ g.cause = "none"
    BY <1>5, <2>1 DEF Memory, Pcs
  <2> HIDE DEF g
  <2>5. PlanSound(g, plan)
    BY <2>1, <2>2, <2>4 DEF PlanSound, InStep, Executing, Older
  <2>6. BuildSound(g, row, fresh)
    BY <1>1, <2>4 DEF BuildSound, Cancelling, Working
  <2>7. QED
    BY <1>1, <1>2, <2>3, <2>4, <2>5, <2>6, GoSound
<1>6. CASE Leave(w)
  BY <1>2, <1>6, LeaveSound
<1>7. CASE End(w, "failed")
  BY <1>1, <1>2, <1>7, EndSound
<1>8. QED
  BY <1>1, <1>3, <1>4, <1>5, <1>6, <1>7 DEF Decide

LEMMA ExecSound ==
    ASSUME BuildInv, NEW w \in Workers, Exec(w) PROVE BuildInv'
<1>1. PICK h \in Memory, row \in Rows, plan \in [Steps -> StepRows] :
        /\ h = held[w] /\ row = builds[h.b] /\ plan = steps[h.b] /\ h.pc = "exec"
        /\ PlanSound(h, plan) /\ BuildSound(h, row, fresh)
  BY Own DEF Exec, Step
<1>2. UNCHANGED <<cand, builds, steps, fresh, claims, retry>>
  BY DEF Exec
<1>3. ASSUME NEW r \in Results(h.step), h.cause = "none",
             held' = [held EXCEPT ![w].pc = "result", ![w].out = r]
      PROVE  BuildInv'
  <2>1. r \in Outcomes \cup {"none", "ok", "failed", "unreconciled"}
    BY ReleaseAssumption DEF Results, ReleaseAssumption
  <2> DEFINE g == [h EXCEPT !.pc = "result", !.out = r]
  <2>2. held' = [held EXCEPT ![w] = g]
    BY <1>1, <1>3
  <2>3. g \in Memory /\ g.pc = "result" /\ g.b = h.b /\ g.step = h.step /\ g.rec = h.rec
        /\ g.out = r /\ g.cause = "none"
    BY ZenonT(30), <1>3, <2>1 DEF Memory, Pcs
  <2> HIDE DEF g
  <2>4. PlanSound(g, plan)
    BY <1>1, <2>3 DEF PlanSound, InStep, Executing
  <2>5. BuildSound(g, row, fresh)
    BY <1>1, <2>3 DEF BuildSound, Cancelling, Working
  <2>6. QED
    BY <1>1, <1>2, <2>2, <2>3, <2>4, <2>5, GoSound
<1>4. CASE h.cause = "cancelled" /\ Go(w, "cancelstep")
  <2> DEFINE g == [h EXCEPT !.pc = "cancelstep"]
  <2>1. held' = [held EXCEPT ![w] = g]
    BY <1>1, <1>4 DEF Go
  <2>2. g \in Memory /\ g.pc = "cancelstep" /\ g.b = h.b /\ g.step = h.step /\ g.rec = h.rec
        /\ g.cause = h.cause /\ g.token = h.token
    BY DEF Memory, Pcs
  <2> HIDE DEF g
  <2>3. PlanSound(g, plan)
    BY <1>1, <2>2 DEF PlanSound, InStep, Executing
  <2>4. BuildSound(g, row, fresh)
    BY <1>1, <1>4, <2>2 DEF BuildSound, Cancelling, Working
  <2>5. QED
    BY <1>1, <1>2, <2>1, <2>2, <2>3, <2>4, GoSound
<1>5. CASE Leave(w)
  BY <1>2, <1>5, LeaveSound
<1>6. QED
  BY <1>1, <1>3, <1>4, <1>5 DEF Exec

LEMMA FinalCheckSound ==
    ASSUME BuildInv, NEW w \in Workers, FinalCheck(w) PROVE BuildInv'
<1>1. PICK h \in Memory, row \in Rows, plan \in [Steps -> StepRows] :
        /\ h = held[w] /\ row = builds[h.b] /\ plan = steps[h.b] /\ h.pc = "final"
        /\ PlanSound(h, plan) /\ BuildSound(h, row, fresh)
  BY Own DEF FinalCheck, Step
<1>2. UNCHANGED <<cand, builds, steps, fresh, claims, retry>>
  BY DEF FinalCheck
<1>3. CASE Current(w)
  <2>1. held' = [held EXCEPT ![w].pc = "write", ![w].ver = builds[held[w].b].ver]
    BY <1>3 DEF FinalCheck
  <2>2. PICK v \in Nat : v = row.ver
    BY DEF Rows
  <2> DEFINE g == [h EXCEPT !.pc = "write", !.ver = v]
  <2>3. held' = [held EXCEPT ![w] = g]
    BY <1>1, <2>1, <2>2
  <2>4. g \in Memory /\ g.pc = "write" /\ g.b = h.b /\ g.end = h.end /\ g.ver = v /\ g.token = h.token
    BY DEF Memory, Pcs
  <2> HIDE DEF g
  <2>5. PlanSound(g, plan)
    BY <1>1, <2>4 DEF PlanSound, InStep, Executing
  <2>6. BuildSound(g, row, fresh)
    BY <1>1, <2>2, <2>4 DEF BuildSound, Cancelling, Working
  <2>7. QED
    BY <1>1, <1>2, <2>3, <2>4, <2>5, <2>6, GoSound
<1>4. CASE ~Current(w)
  <2>1. PICK next \in {"idle", "block", "fail"} :
          /\ IF next = "idle" THEN Leave(w) ELSE Go(w, next)
          /\ next = "block" => h.end = "cancelled"
    BY <1>1, <1>4 DEF FinalCheck, Continue, After
  <2>2. CASE next = "idle"
    BY <1>2, <2>1, <2>2, LeaveSound
  <2>3. CASE next # "idle"
    <3> DEFINE g == [h EXCEPT !.pc = next]
    <3>1. held' = [held EXCEPT ![w] = g]
      BY <1>1, <2>1, <2>3 DEF Go
    <3>2. g \in Memory /\ g.pc = next /\ g.b = h.b
      BY DEF Memory, Pcs
    <3> HIDE DEF g
    <3>3. PlanSound(g, plan)
      BY <2>3, <3>2 DEF PlanSound, InStep, Executing
    <3>4. ~(Live(h.b, row, fresh) /\ row.token = h.token)
      BY <1>1, <1>4 DEF Current, Live
    <3>5. BuildSound(g, row, fresh)
      BY <1>1, <2>1, <2>3, <3>2, <3>4 DEF BuildSound, Cancelling, Working
    <3>6. QED
      BY <1>1, <1>2, <3>1, <3>2, <3>3, <3>5, GoSound
  <2>4. QED
    BY <2>2, <2>3
<1>5. QED
  BY <1>3, <1>4

-----------------------------------------------------------------------------
(* The steps that move the candidate                                       *)

LEMMA MoveTyped ==
    ASSUME Typed, NEW to \in CandStates, NEW keys \in SUBSET Keys, MoveCandidate(to, keys)
    PROVE  /\ cand' \in [state : CandStates, ver : Nat, policy : Outcomes \cup {"none"}, keys : SUBSET Keys]
           /\ cand'.state = to /\ cand'.policy = cand.policy /\ cand'.keys = cand.keys \cup keys
<1>0. cand.ver + 1 \in Nat /\ cand.keys \cup keys \in SUBSET Keys
  BY DEF Typed
<1>1. PICK ver \in Nat, all \in SUBSET Keys : ver = cand.ver + 1 /\ all = cand.keys \cup keys
  BY <1>0
<1>2. cand' = [cand EXCEPT !.state = to, !.ver = ver, !.keys = all]
  BY <1>1 DEF MoveCandidate
<1>3. QED
  BY <1>1, <1>2 DEF Typed

(* What blocks the candidate is an attempt that has come to its end.       *)
Ended(b) ==
  /\ Dead(b, builds[b], fresh)
  /\ builds[b].state = "completed" => "policy-blocked" \in cand'.keys
  /\ builds[b].cancel => "blocked" \in cand'.keys

LEMMA CandidateKeeps ==
    ASSUME BuildInv, UNCHANGED <<builds, steps, fresh, claims>>, retry' \in Nat,
           cand' \in [state : CandStates, ver : Nat, policy : Outcomes \cup {"none"}, keys : SUBSET Keys],
           cand.keys \subseteq cand'.keys, held' \in [Workers -> Memory],
           \A w \in Workers : held'[w] = held[w] \/ MemorySound(held'[w], builds, steps, fresh),
           \A b \in DOMAIN builds : Passed(b)' => Passed(b) \/ Ended(b),
           retry' # 0 => cand'.state # "blocked", ApprovableIsEvident'
    PROVE  BuildInv'
<1>1. Typed'
  BY DEF BuildInv, Typed
<1>2. ASSUME NEW w \in Workers PROVE MemorySound(held'[w], builds', steps', fresh')
  BY <1>1, MemoriesKept, NothingMoved DEF BuildInv
<1>3. Attempts'
  <2> SUFFICES ASSUME NEW b \in DOMAIN builds
               PROVE  /\ builds[b].state = "completed" => ~builds[b].cancel
                      /\ Passed(b)' => Ended(b)
    BY DEF Attempts, Ended, Passed
  <2>1. QED
    BY DEF BuildInv, Attempts, Ended
<1>4. CompletedHasPlan' /\ DependenciesFirst'
  BY DEF BuildInv, CompletedHasPlan, DependenciesFirst
<1>5. QED
  BY <1>1, <1>2, <1>3, <1>4 DEF BuildInv

LEMMA LeaveTyped ==
    ASSUME BuildInv, NEW w \in Workers, Leave(w)
    PROVE  /\ held' \in [Workers -> Memory]
           /\ \A v \in Workers : held'[v] = held[v] \/ MemorySound(held'[v], builds, steps, fresh)
<1>1. MemorySound(Idle, builds, steps, fresh)
  BY IdleTyped DEF MemorySound
<1>2. QED
  BY <1>1, IdleTyped DEF Leave, BuildInv, Typed

LEMMA EndCandidateSound ==
    ASSUME BuildInv, NEW w \in Workers, NEW to \in CandStates, NEW key \in Keys,
           Leave(w), UNCHANGED <<builds, steps, fresh, claims, retry>>,
           \/ UNCHANGED cand
           \/ key \notin cand.keys /\ MayMoveCandidate(to) /\ MoveCandidate(to, {key}),
           to # "awaiting_approval",
           to = "blocked" /\ key \notin cand.keys => retry = 0,
           to = "blocked" /\ key \notin cand.keys =>
             \A b \in DOMAIN builds : Passed(b) \/ /\ Dead(b, builds[b], fresh)
                                                   /\ builds[b].state = "completed" => key = "policy-blocked"
                                                   /\ builds[b].cancel => key = "blocked"
    PROVE  BuildInv'
<1>1. Leave(w) /\ UNCHANGED <<builds, steps, fresh, claims, retry>>
  OBVIOUS
<1>2. CASE UNCHANGED cand
  BY <1>1, <1>2, LeaveSound
<1>3. CASE key \notin cand.keys /\ MayMoveCandidate(to) /\ MoveCandidate(to, {key})
  <2>1. /\ cand' \in [state : CandStates, ver : Nat, policy : Outcomes \cup {"none"}, keys : SUBSET Keys]
        /\ cand'.state = to /\ cand'.policy = cand.policy /\ cand'.keys = cand.keys \cup {key}
    BY <1>3, MoveTyped DEF BuildInv
  <2>2. ApprovableIsEvident'
    <3>1. CASE to = "approved"
      <4>1. cand.state \in CandStates
        BY DEF BuildInv, Typed
      <4>2. cand.state = "awaiting_approval"
        BY <1>3, <3>1, <4>1 DEF MayMoveCandidate, CandidateMoves, CandStates
      <4>3. QED
        BY <1>1, <2>1, <4>2 DEF BuildInv, ApprovableIsEvident
    <3>2. CASE to # "approved"
      BY <2>1, <3>2 DEF ApprovableIsEvident
    <3>3. QED
      BY <3>1, <3>2
  <2>3. ASSUME NEW b \in DOMAIN builds, Passed(b)' PROVE Passed(b) \/ Ended(b)
    <3>1. CASE to # "blocked"
      BY <1>1, <2>1, <2>3, <3>1 DEF Passed
    <3>2. CASE to = "blocked"
      BY <1>3, <2>1, <3>2 DEF Ended
    <3>3. QED
      BY <3>1, <3>2
  <2>4. retry' \in Nat /\ (retry' # 0 => cand'.state # "blocked")
    BY <1>1, <1>3, <2>1 DEF BuildInv, Typed
  <2>5. QED
    BY <1>1, <2>1, <2>2, <2>3, <2>4, LeaveTyped, CandidateKeeps
<1>4. QED
  BY <1>2, <1>3

(* The evidence of an end: the candidate stays in its state.               *)
LEMMA RecordEndSound ==
    ASSUME BuildInv, NEW w \in Workers, NEW closed, NEW key \in Keys,
           NEW next \in {"failing", "blocking", "refusing"}, RecordEnd(w, closed, key, next),
           held[w].pc # "idle",
           next = "blocking" => held[w].pc = "block",
           next = "refusing" => held[w].pc = "outcome"
    PROVE  BuildInv'
<1>1. PICK h \in Memory, row \in Rows, plan \in [Steps -> StepRows] :
        /\ h = held[w] /\ row = builds[h.b] /\ plan = steps[h.b]
        /\ h.b \in DOMAIN builds /\ PlanSound(h, plan) /\ BuildSound(h, row, fresh)
  BY Own
<1>2. UNCHANGED <<builds, steps, fresh, claims, retry>>
  BY DEF RecordEnd
<1>3. CASE Leave(w) /\ UNCHANGED cand
  BY <1>2, <1>3, LeaveSound
<1>4. CASE /\ cand' = [cand EXCEPT !.ver = @ + 1, !.keys = @ \cup {key}]
           /\ held' = [held EXCEPT ![w].pc = next, ![w].cver = cand.ver + 1]
  <2>1. cand.ver + 1 \in Nat /\ cand.keys \cup {key} \in SUBSET Keys
    BY DEF BuildInv, Typed
  <2>2. PICK ver \in Nat, all \in SUBSET Keys : ver = cand.ver + 1 /\ all = cand.keys \cup {key}
    BY <2>1
  <2>3. cand' = [cand EXCEPT !.ver = ver, !.keys = all]
    BY <1>4, <2>2
  <2>4. /\ cand' \in [state : CandStates, ver : Nat, policy : Outcomes \cup {"none"}, keys : SUBSET Keys]
        /\ cand'.state = cand.state /\ cand'.policy = cand.policy /\ cand'.keys = all
    BY <2>2, <2>3 DEF BuildInv, Typed
  <2> DEFINE g == [h EXCEPT !.pc = next, !.cver = ver]
  <2>5. held' = [held EXCEPT ![w] = g]
    BY <1>1, <1>4, <2>2
  <2>6. /\ g \in Memory /\ g.pc = next /\ g.b = h.b /\ g.cause = h.cause /\ g.token = h.token
    BY DEF Memory, Pcs
  <2> HIDE DEF g
  <2>7. PlanSound(g, plan)
    BY <2>6 DEF PlanSound, InStep, Executing
  <2>8. BuildSound(g, row, fresh)
    BY <1>1, <2>6 DEF BuildSound, Cancelling, Working
  <2>9. MemorySound(g, builds, steps, fresh)
    BY <1>1, <2>6, <2>7, <2>8 DEF MemorySound
  <2>10. /\ held' \in [Workers -> Memory]
         /\ \A v \in Workers : held'[v] = held[v] \/ MemorySound(held'[v], builds, steps, fresh)
    BY <2>5, <2>6, <2>9 DEF BuildInv, Typed
  <2>11. /\ ApprovableIsEvident' /\ \A b \in DOMAIN builds : Passed(b)' => Passed(b)
         /\ retry' \in Nat /\ (retry' # 0 => cand'.state # "blocked")
    BY <1>2, <2>4 DEF BuildInv, Typed, ApprovableIsEvident, Passed, Attempts
  <2>12. QED
    BY <1>2, <2>2, <2>4, <2>10, <2>11, CandidateKeeps
<1>5. QED
  BY <1>3, <1>4 DEF RecordEnd

LEMMA LastAttempt ==
    ASSUME BuildInv, NEW b \in DOMAIN builds, NEW c \in DOMAIN builds, ~Passed(b), c # b
    PROVE  Passed(c)
<1>1. Len(builds) \in Nat /\ b \in 1..Len(builds) /\ c \in 1..Len(builds)
  BY DEF BuildInv, Typed
<1>2. QED
  BY <1>1 DEF Passed

LEMMA EvidenceEndSound ==
    ASSUME BuildInv, NEW w \in Workers, FailEvidence(w) \/ BlockEvidence(w) \/ PolicyEvidence(w)
    PROVE  BuildInv'
<1>1. CASE FailEvidence(w)
  BY <1>1, RecordEndSound DEF FailEvidence, Step, Keys
<1>2. CASE BlockEvidence(w)
  BY <1>2, RecordEndSound DEF BlockEvidence, Step, Keys
<1>3. CASE PolicyEvidence(w)
  BY <1>3, RecordEndSound DEF PolicyEvidence, Step, Keys
<1>4. QED
  BY <1>1, <1>2, <1>3

LEMMA FailSound ==
    ASSUME BuildInv, NEW w \in Workers, FailCandidate(w) PROVE BuildInv'
  BY EndCandidateSound DEF FailCandidate, EndCandidate, CandStates, Keys

LEMMA BlockSound ==
    ASSUME BuildInv, NEW w \in Workers, BlockCandidate(w) PROVE BuildInv'
<1>1. PICK b \in DOMAIN builds, row \in Rows :
        b = held[w].b /\ row = builds[b] /\ row.cancel /\ ~Live(b, row, fresh)
  BY Own DEF BlockCandidate, Step, BuildSound
<1>2. Dead(b, row, fresh)
  BY <1>1 DEF Live, Dead, Rows, Active, Terminal
<1>3. ASSUME "blocked" \notin cand.keys PROVE ~Passed(b)
  BY <1>1, <1>3 DEF BuildInv, Attempts
<1>4. ASSUME "blocked" \notin cand.keys, NEW c \in DOMAIN builds, ~Passed(c)
      PROVE  Dead(c, builds[c], fresh) /\ builds[c].state # "completed"
  <2>1. ~Passed(b)
    BY <1>3, <1>4
  <2>2. c = b
    BY <1>4, <2>1, LastAttempt
  <2>3. QED
    BY <1>1, <1>2, <2>2 DEF BuildInv, Attempts
<1>5. QED
  BY <1>3, <1>4, EndCandidateSound DEF BlockCandidate, EndCandidate, CandStates, Keys, Passed

LEMMA PolicyBlockSound ==
    ASSUME BuildInv, NEW w \in Workers, PolicyBlock(w) PROVE BuildInv'
<1>1. PICK b \in DOMAIN builds : b = held[w].b /\ builds[b].state = "completed"
  BY Own DEF PolicyBlock, Step, BuildSound
<1>2. Dead(b, builds[b], fresh)
  BY <1>1 DEF Dead, Terminal
<1>3. ASSUME "policy-blocked" \notin cand.keys PROVE ~Passed(b)
  BY <1>1, <1>3 DEF BuildInv, Attempts
<1>4. ASSUME "policy-blocked" \notin cand.keys, NEW c \in DOMAIN builds, ~Passed(c)
      PROVE  Dead(c, builds[c], fresh) /\ ~builds[c].cancel
  <2>1. ~Passed(b)
    BY <1>3, <1>4
  <2>2. c = b
    BY <1>4, <2>1, LastAttempt
  <2>3. QED
    BY <1>1, <1>2, <2>2 DEF BuildInv, Attempts
<1>5. QED
  BY <1>3, <1>4, EndCandidateSound DEF PolicyBlock, EndCandidate, CandStates, Keys, Passed

LEMMA AutoApproveSound ==
    ASSUME BuildInv, NEW w \in Workers, AutoApprove(w) PROVE BuildInv'
<1>1. cand.state = "awaiting_approval" => MayMoveCandidate("approved")
  BY DEF MayMoveCandidate, CandidateMoves
<1>2. QED
  BY <1>1, EndCandidateSound DEF AutoApprove, CandStates, Keys

LEMMA AdvanceSound ==
    ASSUME BuildInv, NEW w \in Workers, Advance(w) PROVE BuildInv'
<1>1. PICK h \in Memory, row \in Rows, plan \in [Steps -> StepRows] :
        /\ h = held[w] /\ row = builds[h.b] /\ plan = steps[h.b] /\ h.pc = "outcome"
        /\ h.b \in DOMAIN builds /\ PlanSound(h, plan) /\ BuildSound(h, row, fresh)
  BY Own DEF Advance, Step
<1>2. UNCHANGED <<builds, steps, fresh, claims, retry>>
  BY DEF Advance
<1>3. row.state = "completed"
  BY <1>1 DEF BuildSound
<1>4. CASE cand.state \in DOMAIN Advances /\ MayAdvance
           /\ MoveCandidate(Advances[cand.state], {}) /\ UNCHANGED held
  <2>1. PICK to \in CandStates :
          /\ to = Advances[cand.state] /\ to \notin {"blocked", "approved"}
          /\ to = "awaiting_approval" => cand.policy # "none"
    BY <1>4 DEF Advances, MayAdvance, CandStates
  <2>2. /\ cand' \in [state : CandStates, ver : Nat, policy : Outcomes \cup {"none"}, keys : SUBSET Keys]
        /\ cand'.state = to /\ cand'.policy = cand.policy /\ cand'.keys = cand.keys \cup {}
    BY <1>4, <2>1, MoveTyped DEF BuildInv
  <2>3. ApprovableIsEvident'
    BY <1>1, <1>2, <1>3, <2>1, <2>2 DEF ApprovableIsEvident, Advance, Decision
  <2>4. \A b \in DOMAIN builds : Passed(b)' => Passed(b)
    BY <1>2, <2>1, <2>2 DEF Passed
  <2>5. retry' \in Nat /\ held' \in [Workers -> Memory]
    BY <1>2, <1>4 DEF BuildInv, Typed
  <2>6. QED
    BY <1>2, <1>4, <2>1, <2>2, <2>3, <2>4, <2>5, CandidateKeeps
<1>5. CASE UNCHANGED cand /\ Go(w, "approve")
  <2> DEFINE g == [h EXCEPT !.pc = "approve"]
  <2>1. held' = [held EXCEPT ![w] = g]
    BY <1>1, <1>5 DEF Go
  <2>2. g \in Memory /\ g.pc = "approve" /\ g.b = h.b
    BY DEF Memory, Pcs
  <2> HIDE DEF g
  <2>3. PlanSound(g, plan) /\ BuildSound(g, row, fresh)
    BY <1>3, <2>2 DEF PlanSound, BuildSound, InStep, Executing, Cancelling, Working
  <2>4. QED
    BY <1>1, <1>2, <1>5, <2>1, <2>2, <2>3, GoSound
<1>6. CASE UNCHANGED cand /\ Leave(w)
  BY <1>2, <1>6, LeaveSound
<1>7. QED
  BY <1>4, <1>5, <1>6 DEF Advance

(* A worker that goes on, while the candidate may move too.                *)
LEMMA GoTyped ==
    ASSUME BuildInv, NEW w \in Workers, held[w].pc \in {"mark", "record"}, Go(w, "plan")
    PROVE  /\ held' \in [Workers -> Memory]
           /\ \A v \in Workers : held'[v] = held[v] \/ MemorySound(held'[v], builds, steps, fresh)
<1>1. PICK h \in Memory, row \in Rows, plan \in [Steps -> StepRows] :
        /\ h = held[w] /\ row = builds[h.b] /\ plan = steps[h.b]
        /\ h.b \in DOMAIN builds /\ PlanSound(h, plan) /\ BuildSound(h, row, fresh)
  BY Own
<1> DEFINE g == [h EXCEPT !.pc = "plan"]
<1>2. held' = [held EXCEPT ![w] = g]
  BY <1>1 DEF Go
<1>3. g \in Memory /\ g.pc = "plan" /\ g.b = h.b /\ g.cause = h.cause /\ g.token = h.token
  BY DEF Memory, Pcs
<1> HIDE DEF g
<1>4. PlanSound(g, plan)
  BY <1>3 DEF PlanSound, InStep, Executing
<1>5. BuildSound(g, row, fresh)
  BY <1>1, <1>3 DEF BuildSound, Cancelling, Working
<1>6. MemorySound(g, builds, steps, fresh)
  BY <1>1, <1>3, <1>4, <1>5 DEF MemorySound
<1>7. QED
  BY <1>2, <1>3, <1>6 DEF BuildInv, Typed

LEMMA StillSound ==
    ASSUME BuildInv, UNCHANGED <<cand, builds, steps, fresh, claims, retry>>,
           held' \in [Workers -> Memory],
           \A v \in Workers : held'[v] = held[v] \/ MemorySound(held'[v], builds, steps, fresh)
    PROVE  BuildInv'
<1>1. /\ ApprovableIsEvident' /\ \A b \in DOMAIN builds : Passed(b)' => Passed(b)
      /\ retry' # 0 => cand'.state # "blocked"
  BY DEF BuildInv, ApprovableIsEvident, Passed, Attempts
<1>2. QED
  BY <1>1, CandidateKeeps DEF BuildInv, Typed

LEMMA MarkSound ==
    ASSUME BuildInv, NEW w \in Workers, MarkStarted(w) PROVE BuildInv'
<1>1. UNCHANGED <<builds, steps, fresh, claims, retry>> /\ held[w].pc = "mark"
  BY DEF MarkStarted, Step
<1>2. CASE Go(w, "plan") /\ UNCHANGED cand
  BY <1>1, <1>2, GoTyped, StillSound
<1>3. CASE Go(w, "plan") /\ MoveCandidate("building", {"build-started"})
  <2>1. /\ cand' \in [state : CandStates, ver : Nat, policy : Outcomes \cup {"none"}, keys : SUBSET Keys]
        /\ cand'.state = "building" /\ cand'.keys = cand.keys \cup {"build-started"}
    BY <1>3, MoveTyped DEF BuildInv, CandStates, Keys
  <2>2. ApprovableIsEvident' /\ \A b \in DOMAIN builds : Passed(b)' => Passed(b)
    BY <1>1, <2>1 DEF ApprovableIsEvident, Passed
  <2>3. retry' \in Nat
    BY <1>1 DEF BuildInv, Typed
  <2>4. QED
    BY <1>1, <1>3, <2>1, <2>2, <2>3, GoTyped, CandidateKeeps
<1>4. CASE End(w, "refused") /\ UNCHANGED cand
  BY <1>1, <1>4, EndSound
<1>5. QED
  BY <1>2, <1>3, <1>4 DEF MarkStarted

LEMMA RecordSound ==
    ASSUME BuildInv, NEW w \in Workers, Record(w) PROVE BuildInv'
<1>1. UNCHANGED <<builds, steps, fresh, claims, retry>> /\ held[w].pc = "record"
  BY DEF Record, Step
<1>2. CASE Go(w, "plan") /\ UNCHANGED cand
  BY <1>1, <1>2, GoTyped, StillSound
<1>3. CASE /\ Go(w, "plan")
           /\ cand' = [cand EXCEPT !.policy = held[w].out, !.ver = @ + 1,
                                   !.keys = @ \cup {"policy-decision"}]
  <2>1. held[w].out \in Outcomes
    BY <1>1, Own, ReleaseAssumption DEF PlanSound, ReleaseAssumption
  <2>2. cand.ver + 1 \in Nat /\ cand.keys \cup {"policy-decision"} \in SUBSET Keys
    BY DEF BuildInv, Typed, Keys
  <2>3. PICK out \in Outcomes, ver \in Nat, keys \in SUBSET Keys :
          out = held[w].out /\ ver = cand.ver + 1 /\ keys = cand.keys \cup {"policy-decision"}
    BY <2>1, <2>2
  <2>4. cand' = [cand EXCEPT !.policy = out, !.ver = ver, !.keys = keys]
    BY <1>3, <2>3
  <2>5. /\ cand' \in [state : CandStates, ver : Nat, policy : Outcomes \cup {"none"}, keys : SUBSET Keys]
        /\ cand'.state = cand.state /\ cand'.policy = out /\ cand'.keys = keys
    BY <2>3, <2>4 DEF BuildInv, Typed
  <2>6. out # "none"
    BY DEF Outcomes
  <2>7. ApprovableIsEvident' /\ \A b \in DOMAIN builds : Passed(b)' => Passed(b)
    BY <1>1, <2>5, <2>6 DEF BuildInv, ApprovableIsEvident, Passed
  <2>8. /\ retry' \in Nat /\ cand.keys \subseteq cand'.keys
        /\ retry' # 0 => cand'.state # "blocked"
    BY <1>1, <2>3, <2>5 DEF BuildInv, Typed, Attempts
  <2>9. QED
    BY <1>1, <1>3, <2>5, <2>7, <2>8, GoTyped, CandidateKeeps
<1>4. CASE End(w, "failed") /\ UNCHANGED cand
  BY <1>1, <1>4, EndSound
<1>5. CASE Leave(w) /\ UNCHANGED cand
  BY <1>1, <1>5, LeaveSound
<1>6. QED
  BY <1>2, <1>3, <1>4, <1>5 DEF Record

(* The requests of the operator that move the candidate only.              *)
LEMMA RetrySound ==
    ASSUME BuildInv, Retry PROVE BuildInv'
<1>1. /\ cand' \in [state : CandStates, ver : Nat, policy : Outcomes \cup {"none"}, keys : SUBSET Keys]
      /\ cand'.state = "queued" /\ cand'.keys = cand.keys \cup {}
  BY MoveTyped DEF Retry, BuildInv, CandStates
<1>2. retry' \in Nat
  BY DEF Retry, BuildInv, Typed
<1>3. ApprovableIsEvident' /\ \A b \in DOMAIN builds : Passed(b)' => Passed(b)
  BY <1>1 DEF Retry, MayRetry, ApprovableIsEvident, Passed
<1>4. QED
  BY <1>1, <1>2, <1>3, CandidateKeeps DEF Retry, BuildInv, Typed

LEMMA EnqueueFailsSound ==
    ASSUME BuildInv, EnqueueFails PROVE BuildInv'
<1>1. UNCHANGED <<builds, steps, fresh, claims, held>> /\ retry' = 0 /\ retry # 0
  BY DEF EnqueueFails
<1>2. /\ cand' \in [state : CandStates, ver : Nat, policy : Outcomes \cup {"none"}, keys : SUBSET Keys]
      /\ cand.keys \subseteq cand'.keys /\ (cand'.state = "blocked" \/ cand' = cand)
  <2>1. CASE UNCHANGED cand
    BY <2>1 DEF BuildInv, Typed
  <2>2. CASE MoveCandidate("blocked", {})
    BY <2>2, MoveTyped DEF BuildInv, CandStates
  <2>3. QED
    BY <2>1, <2>2 DEF EnqueueFails
<1>3. ApprovableIsEvident' /\ \A b \in DOMAIN builds : Passed(b)' => Passed(b)
  BY <1>1, <1>2 DEF BuildInv, ApprovableIsEvident, Passed
<1>4. QED
  BY <1>1, <1>2, <1>3, CandidateKeeps DEF BuildInv, Typed

LEMMA RejectSound ==
    ASSUME BuildInv, MoveCandidate("rejected", {}), UNCHANGED <<builds, steps, fresh, claims, held, retry>>
    PROVE  BuildInv'
<1>1. /\ cand' \in [state : CandStates, ver : Nat, policy : Outcomes \cup {"none"}, keys : SUBSET Keys]
      /\ cand'.state = "rejected" /\ cand'.keys = cand.keys \cup {}
  BY MoveTyped DEF BuildInv, CandStates
<1>2. ApprovableIsEvident' /\ \A b \in DOMAIN builds : Passed(b)' => Passed(b)
  BY <1>1 DEF ApprovableIsEvident, Passed
<1>3. QED
  BY <1>1, <1>2, CandidateKeeps DEF BuildInv, Typed

-----------------------------------------------------------------------------
(* The steps that write a step of the plan                                 *)

Ordered(plan) ==
  \A s \in Steps : plan[s].state \in {"running", "completed"} =>
    \A d \in Needs[s] : plan[d].state = "completed"

LEMMA StepsKeep ==
    ASSUME BuildInv, NEW b \in DOMAIN builds, NEW plan2 \in [Steps -> StepRows],
           PlanFollows(steps[b], plan2), Ordered(plan2), steps' = [steps EXCEPT ![b] = plan2],
           UNCHANGED <<cand, builds, fresh, claims, retry>>,
           NEW w \in Workers, NEW g \in Memory, held' = [held EXCEPT ![w] = g],
           MemorySound(g, builds, steps', fresh)
    PROVE  BuildInv'
<1>1. Typed'
  BY DEF BuildInv, Typed
<1>2. \A c \in DOMAIN builds : steps'[c] = IF c = b THEN plan2 ELSE steps[c]
  BY DEF BuildInv, Typed
<1>3. \A c \in DOMAIN builds : PlanFollows(steps[c], steps'[c])
  BY <1>2 DEF PlanFollows
<1>4. \A c \in DOMAIN builds :
        /\ c \in DOMAIN builds' /\ PlanFollows(steps[c], steps'[c])
        /\ RowFollows(c, builds[c], fresh, builds'[c], fresh')
  BY <1>3 DEF RowFollows
<1>5. ASSUME NEW v \in Workers PROVE MemorySound(held'[v], builds', steps', fresh')
  <2>1. held'[v] = held[v] \/ held'[v] = g
    BY DEF BuildInv, Typed
  <2>2. QED
    BY <1>1, <1>4, <2>1, MemoriesKept
<1>6. ASSUME NEW c \in DOMAIN builds, builds[c].state = "completed", NEW s \in Steps
      PROVE  steps[c][s].state = "completed" /\ steps'[c][s] = steps[c][s]
  BY <1>3, <1>6 DEF BuildInv, CompletedHasPlan, PlanFollows
<1>7. CompletedHasPlan' /\ ApprovableIsEvident'
  BY <1>6, ReleaseAssumption DEF BuildInv, CompletedHasPlan, ApprovableIsEvident, ReleaseAssumption
<1>8. DependenciesFirst'
  BY <1>2 DEF BuildInv, DependenciesFirst, Ordered
<1>9. Attempts'
  BY DEF BuildInv, Attempts, Passed
<1>10. QED
  BY <1>1, <1>5, <1>7, <1>8, <1>9 DEF BuildInv

(* One step is written, under a version that is the newest.                *)
LEMMA OneStep ==
    ASSUME NEW plan \in [Steps -> StepRows], Ordered(plan), NEW s \in Steps, NEW r \in StepRows,
           plan[s].state # "completed", Newer(plan[s], r),
           r.state \in {"running", "completed"} => \A d \in Needs[s] : plan[d].state = "completed"
    PROVE  LET plan2 == [plan EXCEPT ![s] = r]
           IN  /\ plan2 \in [Steps -> StepRows] /\ PlanFollows(plan, plan2) /\ Ordered(plan2)
               /\ plan2[s] = r
<1> DEFINE plan2 == [plan EXCEPT ![s] = r]
<1>1. plan2 \in [Steps -> StepRows] /\ \A t \in Steps : plan2[t] = IF t = s THEN r ELSE plan[t]
  OBVIOUS
<1> HIDE DEF plan2
<1>2. \A t \in Steps : Needs[t] \subseteq Steps
  BY ReleaseAssumption DEF ReleaseAssumption
<1>3. PlanFollows(plan, plan2)
  BY <1>1 DEF PlanFollows
<1>4. Ordered(plan2)
  BY <1>1, <1>2 DEF Ordered
<1>5. QED
  BY <1>1, <1>3, <1>4 DEF plan2

LEMMA PlanOrdered ==
    ASSUME BuildInv, NEW b \in DOMAIN builds PROVE Ordered(steps[b])
  BY DEF BuildInv, DependenciesFirst, Ordered

LEMMA SameVersion ==
    ASSUME NEW rec \in StepRows, NEW row \in StepRows, Older(rec, row), row.att = rec.att, row.ver = rec.ver
    PROVE  rec = row
  BY DEF Older, StepRows

LEMMA WriteStepSound ==
    ASSUME BuildInv, NEW w \in Workers, held[w].pc \in InStep, NEW r \in StepRows,
           NEW allowed \in BOOLEAN, NEW next \in {"exec", "finish", "record", "plan"},
           WriteStep(w, allowed, r, next), UNCHANGED <<cand, builds, fresh, claims, retry>>,
           allowed => /\ steps[held[w].b][held[w].step].att = held[w].rec.att
                      /\ steps[held[w].b][held[w].step].ver = held[w].rec.ver
                      /\ held[w].rec = steps[held[w].b][held[w].step] => held[w].rec.state # "completed",
           r.att = held[w].rec.att, r.ver = held[w].rec.ver + 1,
           next \in Executing => r.state = "running",
           next = "finish" => held[w].out \in Results(held[w].step),
           next = "record" => held[w].out \in Decisions
    PROVE  BuildInv'
<1>1. PICK h \in Memory, row \in Rows, plan \in [Steps -> StepRows] :
        /\ h = held[w] /\ row = builds[h.b] /\ plan = steps[h.b] /\ h.pc \in InStep
        /\ h.b \in DOMAIN builds /\ PlanSound(h, plan) /\ BuildSound(h, row, fresh)
  BY Own DEF InStep
<1>2. CASE Leave(w) /\ UNCHANGED steps
  BY <1>2, LeaveSound
<1>3. CASE End(w, "failed") /\ UNCHANGED steps
  BY <1>3, EndSound DEF InStep
<1>4. CASE /\ allowed /\ h.cause = "none" /\ SetStep(h.b, h.step, r)
           /\ held' = [held EXCEPT ![w].pc = next, ![w].rec = r]
  <2> DEFINE plan2 == [plan EXCEPT ![h.step] = r]
  <2>1. /\ h.step \in Steps /\ Older(h.rec, plan[h.step])
        /\ \A d \in Needs[h.step] : plan[d].state = "completed"
    BY <1>1 DEF PlanSound
  <2>2. h.rec = plan[h.step] /\ plan[h.step].state # "completed"
    <3>1. h.rec \in StepRows /\ plan[h.step] \in StepRows
      BY <2>1 DEF Memory
    <3>2. QED
      BY <1>1, <1>4, <2>1, <3>1, SameVersion
  <2>3. Newer(plan[h.step], r)
    BY SMTT(30), <1>1, <2>1, <2>2 DEF Newer, StepRows
  <2>4. plan2 \in [Steps -> StepRows] /\ PlanFollows(plan, plan2) /\ Ordered(plan2) /\ plan2[h.step] = r
    BY <1>1, <2>1, <2>2, <2>3, OneStep, PlanOrdered
  <2>5. steps' = [steps EXCEPT ![h.b] = plan2]
    BY <1>1, <1>4 DEF SetStep
  <2> HIDE DEF plan2
  <2>6. steps'[h.b] = plan2
    BY <1>1, <2>5 DEF BuildInv, Typed
  <2> DEFINE g == [h EXCEPT !.pc = next, !.rec = r]
  <2>7. held' = [held EXCEPT ![w] = g]
    BY <1>1, <1>4
  <2>8. g \in Memory /\ g.pc = next /\ g.b = h.b /\ g.step = h.step /\ g.rec = r
        /\ g.out = h.out /\ g.cause = "none"
    BY <1>4 DEF Memory, Pcs
  <2> HIDE DEF g
  <2>9. \A d \in Needs[h.step] : plan2[d].state = "completed"
    BY <2>1, <2>4, ReleaseAssumption DEF PlanFollows, ReleaseAssumption
  <2>10. PlanSound(g, plan2)
    BY <1>1, <2>1, <2>4, <2>8, <2>9 DEF PlanSound, InStep, Executing, Older
  <2>11. BuildSound(g, row, fresh)
    BY <1>1, <2>8 DEF BuildSound, Cancelling, Working
  <2>12. MemorySound(g, builds, steps', fresh)
    BY <1>1, <2>6, <2>8, <2>10, <2>11 DEF MemorySound
  <2>13. QED
    BY <1>1, <2>4, <2>5, <2>7, <2>8, <2>12, StepsKeep
<1>5. QED
  BY <1>1, <1>2, <1>3, <1>4 DEF WriteStep

LEMMA BeginSound ==
    ASSUME BuildInv, NEW w \in Workers, Begin(w) PROVE BuildInv'
<1>1. PICK h \in Memory, row \in Rows, plan \in [Steps -> StepRows] :
        /\ h = held[w] /\ row = builds[h.b] /\ plan = steps[h.b] /\ h.pc = "begin"
        /\ PlanSound(h, plan) /\ BuildSound(h, row, fresh)
  BY Own DEF Begin, Step
<1>2. UNCHANGED <<cand, builds, fresh, claims, retry>>
  BY DEF Begin
<1>3. CASE h.rec.state = "running" /\ Go(w, "exec") /\ UNCHANGED steps
  <2> DEFINE g == [h EXCEPT !.pc = "exec"]
  <2>1. held' = [held EXCEPT ![w] = g]
    BY <1>1, <1>3 DEF Go
  <2>2. g \in Memory /\ g.pc = "exec" /\ g.b = h.b /\ g.step = h.step /\ g.rec = h.rec
        /\ g.cause = h.cause /\ g.token = h.token
    BY DEF Memory, Pcs
  <2> HIDE DEF g
  <2>3. PlanSound(g, plan)
    BY <1>1, <1>3, <2>2 DEF PlanSound, InStep, Executing
  <2>4. BuildSound(g, row, fresh)
    BY <1>1, <2>2 DEF BuildSound, Cancelling, Working
  <2>5. QED
    BY <1>1, <1>2, <1>3, <2>1, <2>2, <2>3, <2>4, GoSound
<1>4. CASE h.rec.state # "running"
  <2> DEFINE allowed == MayMoveStep(h.b, h.step, h.rec, "running")
  <2>1. PICK rec \in StepRows : rec = h.rec
    BY DEF Memory
  <2>2. PICK ver \in Nat : ver = rec.ver + 1
    BY <2>1 DEF StepRows
  <2> DEFINE r == [rec EXCEPT !.state = "running", !.ver = ver]
  <2>3. WriteStep(w, allowed, r, "exec")
    BY <1>1, <1>4, <2>1, <2>2 DEF Begin
  <2>4. r \in StepRows /\ r.att = rec.att /\ r.ver = ver /\ r.state = "running"
    BY DEF StepRows, StepMoves, BuildMoves
  <2>5. allowed => /\ plan[h.step].att = rec.att /\ plan[h.step].ver = rec.ver
                   /\ rec = plan[h.step] => rec.state # "completed"
    BY <1>1, <2>1 DEF MayMoveStep, StepMoves, BuildMoves
  <2>6. allowed \in BOOLEAN
    BY DEF MayMoveStep
  <2> HIDE DEF r, allowed
  <2>7. QED
    BY <1>1, <1>2, <2>1, <2>2, <2>3, <2>4, <2>5, <2>6, WriteStepSound DEF InStep
<1>5. QED
  BY <1>1, <1>3, <1>4 DEF Begin

LEMMA EvidenceSound ==
    ASSUME BuildInv, NEW w \in Workers, Evidence(w) PROVE BuildInv'
<1>1. PICK h \in Memory, row \in Rows, plan \in [Steps -> StepRows] :
        /\ h = held[w] /\ row = builds[h.b] /\ plan = steps[h.b] /\ h.pc = "evidence"
        /\ PlanSound(h, plan) /\ BuildSound(h, row, fresh)
  BY Own DEF Evidence, Step
<1>2. UNCHANGED <<cand, builds, fresh, claims, retry>>
  BY DEF Evidence
<1> DEFINE allowed == steps[h.b][h.step].att = h.rec.att /\ steps[h.b][h.step].ver = h.rec.ver
<1>3. PICK rec \in StepRows, out \in Outcomes \cup {"none", "ok", "failed", "unreconciled"} :
        rec = h.rec /\ out = h.out
  BY DEF Memory
<1>4. PICK ver \in Nat : ver = rec.ver + 1
  BY <1>3 DEF StepRows
<1> DEFINE r == [rec EXCEPT !.out = out, !.ver = ver]
<1>5. WriteStep(w, allowed, r, "finish")
  BY <1>1, <1>3, <1>4 DEF Evidence
<1>6. r \in StepRows /\ r.att = rec.att /\ r.ver = ver /\ r.state = rec.state
  BY DEF StepRows
<1>7. rec.state = "running" /\ h.out \in Results(h.step)
  BY <1>1, <1>3 DEF PlanSound, Executing, InStep
<1>8. allowed \in BOOLEAN /\ allowed => /\ plan[h.step].att = rec.att /\ plan[h.step].ver = rec.ver
                                        /\ rec.state # "completed"
  BY <1>1, <1>3, <1>7
<1>9. allowed \in BOOLEAN
  OBVIOUS
<1> HIDE DEF r, allowed
<1>10. QED
  BY <1>1, <1>2, <1>3, <1>4, <1>5, <1>6, <1>7, <1>8, <1>9, WriteStepSound DEF InStep

LEMMA FinishSound ==
    ASSUME BuildInv, NEW w \in Workers, Finish(w) PROVE BuildInv'
<1>1. PICK h \in Memory, row \in Rows, plan \in [Steps -> StepRows] :
        /\ h = held[w] /\ row = builds[h.b] /\ plan = steps[h.b] /\ h.pc = "finish"
        /\ PlanSound(h, plan) /\ BuildSound(h, row, fresh)
  BY Own DEF Finish, Step
<1>2. UNCHANGED <<cand, builds, fresh, claims, retry>>
  BY DEF Finish
<1> DEFINE to == IF Bad(h.out) THEN "failed" ELSE "completed"
<1> DEFINE next == IF to = "completed" /\ h.step = PolicyStep THEN "record" ELSE "plan"
<1> DEFINE allowed == MayMoveStep(h.b, h.step, h.rec, to)
<1>3. PICK rec \in StepRows : rec = h.rec
  BY DEF Memory
<1>4. PICK ver \in Nat : ver = rec.ver + 1
  BY <1>3 DEF StepRows
<1>5. PICK state \in {"failed", "completed"} : state = to
  OBVIOUS
<1> DEFINE r == [rec EXCEPT !.state = state, !.ver = ver]
<1>6. WriteStep(w, allowed, r, next)
  BY <1>1, <1>3, <1>4, <1>5 DEF Finish
<1>7. r \in StepRows /\ r.att = rec.att /\ r.ver = ver
  BY DEF StepRows, StepMoves, BuildMoves
<1>8. rec.state = "running" /\ h.out \in Results(h.step)
  BY <1>1, <1>3 DEF PlanSound, Executing, InStep
<1>9. /\ next \in {"record", "plan"}
      /\ next = "record" => h.out \in Decisions
  BY <1>8 DEF Results, Bad
<1>10. allowed => plan[h.step].att = rec.att /\ plan[h.step].ver = rec.ver
  BY <1>1, <1>3 DEF MayMoveStep
<1>11. allowed \in BOOLEAN
  BY DEF MayMoveStep
<1> HIDE DEF r, allowed, next, to
<1>12. QED
  BY <1>1, <1>2, <1>3, <1>4, <1>6, <1>7, <1>8, <1>9, <1>10, <1>11, WriteStepSound DEF InStep, Executing

LEMMA CancelStepSound ==
    ASSUME BuildInv, NEW w \in Workers, CancelStep(w) PROVE BuildInv'
<1>1. PICK h \in Memory, row \in Rows, plan \in [Steps -> StepRows] :
        /\ h = held[w] /\ row = builds[h.b] /\ plan = steps[h.b] /\ h.pc = "cancelstep"
        /\ h.b \in DOMAIN builds /\ PlanSound(h, plan) /\ BuildSound(h, row, fresh)
  BY Own DEF CancelStep, Step
<1>2. UNCHANGED <<cand, builds, fresh, claims, retry>> /\ End(w, "cancelled")
  BY DEF CancelStep
<1>3. row.cancel /\ (Live(h.b, row, fresh) => row.token = h.token)
  BY <1>1 DEF BuildSound, Cancelling, Working
<1>4. CASE UNCHANGED steps
  BY <1>1, <1>2, <1>3, <1>4, EndSound
<1>5. CASE /\ MayMoveStep(h.b, h.step, h.rec, "cancelled")
           /\ SetStep(h.b, h.step, [plan[h.step] EXCEPT !.state = "cancelled", !.ver = @ + 1])
  <2>1. h.step \in Steps
    BY <1>1 DEF PlanSound, InStep
  <2>2. PICK old \in StepRows : old = plan[h.step]
    BY <2>1
  <2>3. PICK ver \in Nat : ver = old.ver + 1
    BY DEF StepRows
  <2> DEFINE r == [old EXCEPT !.state = "cancelled", !.ver = ver]
  <2> DEFINE plan2 == [plan EXCEPT ![h.step] = r]
  <2>4. r \in StepRows /\ r.state = "cancelled" /\ r.att = old.att /\ r.ver = ver
    BY DEF StepRows, StepMoves, BuildMoves
  <2>5. steps' = [steps EXCEPT ![h.b] = plan2]
    BY <1>1, <1>5, <2>2, <2>3 DEF SetStep
  <2> HIDE DEF r
  <2>6. old.state # "completed"
    BY <1>1, <1>5, <2>2 DEF MayMoveStep, StepMoves, BuildMoves
  <2>7. Newer(plan[h.step], r)
    BY <2>2, <2>3, <2>4 DEF Newer, StepRows
  <2>8. plan2 \in [Steps -> StepRows] /\ PlanFollows(plan, plan2) /\ Ordered(plan2)
    BY <1>1, <2>1, <2>2, <2>4, <2>6, <2>7, OneStep, PlanOrdered
  <2> HIDE DEF plan2
  <2>9. steps'[h.b] = plan2
    BY <1>1, <2>5 DEF BuildInv, Typed
  <2> DEFINE g == Ending(h, "cancelled")
  <2>10. g \in Memory /\ g.b = h.b /\ g.pc = "final" /\ PlanSound(g, plan2) /\ BuildSound(g, row, fresh)
    BY <1>3, <2>8, EndingSound
  <2>11. held' = [held EXCEPT ![w] = g]
    BY <1>1, <1>2 DEF End, Ending
  <2> HIDE DEF g
  <2>12. MemorySound(g, builds, steps', fresh)
    BY <1>1, <2>9, <2>10 DEF MemorySound
  <2>13. QED
    BY <1>1, <1>2, <2>5, <2>8, <2>10, <2>11, <2>12, StepsKeep
<1>6. QED
  BY <1>1, <1>4, <1>5 DEF CancelStep

LEMMA RecoverSound ==
    ASSUME BuildInv, NEW w \in Workers, Recover(w) PROVE BuildInv'
<1>1. PICK h \in Memory, row \in Rows, plan \in [Steps -> StepRows] :
        /\ h = held[w] /\ row = builds[h.b] /\ plan = steps[h.b] /\ h.pc = "recover"
        /\ h.b \in DOMAIN builds /\ PlanSound(h, plan) /\ BuildSound(h, row, fresh)
  BY Own DEF Recover, Step
<1>2. UNCHANGED <<cand, builds, fresh, claims, retry>>
  BY DEF Recover
<1>3. CASE Leave(w) /\ UNCHANGED steps
  BY <1>2, <1>3, LeaveSound
<1> DEFINE again(s) == [NewStep EXCEPT !.att = plan[s].att + 1]
<1> DEFINE plan2 == [s \in Steps |-> IF Retryable(plan[s]) THEN again(s) ELSE plan[s]]
<1>4. CASE h.cause = "none" /\ Go(w, "decide") /\ steps' = [steps EXCEPT ![h.b] = plan2]
  <2>1. ASSUME NEW s \in Steps
        PROVE  again(s) \in StepRows /\ again(s).state = "queued" /\ again(s).att = plan[s].att + 1
    <3>1. plan[s].att + 1 \in Nat
      BY DEF StepRows
    <3>2. QED
      BY <3>1 DEF NewStep, StepRows, StepMoves, BuildMoves
  <2>2. \A s \in Steps : plan2[s] = IF Retryable(plan[s]) THEN again(s) ELSE plan[s]
    OBVIOUS
  <2>3. plan2 \in [Steps -> StepRows]
    BY <2>1
  <2> HIDE DEF again, plan2
  <2>4. PlanFollows(plan, plan2)
    <3> SUFFICES ASSUME NEW s \in Steps
                 PROVE  /\ plan2[s] = plan[s] \/ Newer(plan[s], plan2[s])
                        /\ plan[s].state = "completed" => plan2[s] = plan[s]
      BY DEF PlanFollows
    <3>1. plan[s].att < plan[s].att + 1
      BY DEF StepRows
    <3>2. QED
      BY <2>1, <2>2, <3>1 DEF Newer, Retryable
  <2>5. Ordered(plan2)
    <3>1. Ordered(plan)
      BY <1>1, PlanOrdered
    <3>2. QED
      BY <2>1, <2>2, <2>4, <3>1, ReleaseAssumption DEF Ordered, PlanFollows, ReleaseAssumption
  <2>6. steps'[h.b] = plan2
    BY <1>1, <1>4 DEF BuildInv, Typed
  <2> DEFINE g == [h EXCEPT !.pc = "decide"]
  <2>7. held' = [held EXCEPT ![w] = g]
    BY <1>1, <1>4 DEF Go
  <2>8. g \in Memory /\ g.pc = "decide" /\ g.b = h.b /\ g.cause = "none"
    BY <1>4 DEF Memory, Pcs
  <2> HIDE DEF g
  <2>9. PlanSound(g, plan2) /\ BuildSound(g, row, fresh)
    BY <2>8 DEF PlanSound, BuildSound, InStep, Executing, Cancelling, Working
  <2>10. MemorySound(g, builds, steps', fresh)
    BY <1>1, <2>6, <2>8, <2>9 DEF MemorySound
  <2>11. QED
    BY <1>1, <1>2, <1>4, <2>3, <2>4, <2>5, <2>7, <2>8, <2>10, StepsKeep
<1>5. QED
  BY <1>1, <1>3, <1>4 DEF Recover

-----------------------------------------------------------------------------
(* The steps that write a build or take a lease from it                    *)

LEMMA BuildsMove ==
    ASSUME BuildInv, UNCHANGED <<cand, steps, retry>>, claims' \in Nat,
           builds' \in Seq(Rows), Len(builds') = Len(builds), held' \in [Workers -> Memory],
           \A v \in Workers : held'[v] = held[v] \/ MemorySound(held'[v], builds', steps, fresh'),
           \A c \in DOMAIN builds :
             /\ RowFollows(c, builds[c], fresh, builds'[c], fresh')
             /\ builds'[c].state = "completed" =>
                  /\ ~builds'[c].cancel
                  /\ builds[c].state = "completed" \/ \A s \in Steps : steps[c][s].state = "completed"
             /\ Passed(c) => /\ Dead(c, builds'[c], fresh')
                             /\ builds'[c].state = "completed" => builds[c].state = "completed"
                             /\ builds'[c].cancel => builds[c].cancel
    PROVE  BuildInv'
<1>1. Typed' /\ DOMAIN builds' = DOMAIN builds
  BY DEF BuildInv, Typed
<1>2. \A c \in DOMAIN builds :
        /\ c \in DOMAIN builds' /\ PlanFollows(steps[c], steps'[c])
        /\ RowFollows(c, builds[c], fresh, builds'[c], fresh')
  BY <1>1 DEF PlanFollows
<1>3. ASSUME NEW v \in Workers PROVE MemorySound(held'[v], builds', steps', fresh')
  BY <1>1, <1>2, MemoriesKept
<1>4. CompletedHasPlan' /\ DependenciesFirst'
  BY <1>1 DEF BuildInv, CompletedHasPlan, DependenciesFirst
<1>5. ApprovableIsEvident'
  BY <1>1 DEF BuildInv, ApprovableIsEvident, RowFollows
<1>6. Attempts'
  BY <1>1 DEF BuildInv, Attempts, Passed
<1>7. QED
  BY <1>1, <1>3, <1>4, <1>5, <1>6 DEF BuildInv

(* Only one row moves.                                                     *)
LEMMA OneBuild ==
    ASSUME BuildInv, UNCHANGED <<cand, steps, retry>>, claims' \in Nat,
           NEW b \in DOMAIN builds, NEW row2 \in Rows, builds' = [builds EXCEPT ![b] = row2],
           fresh' \in {fresh, fresh \cup {b}},
           held' \in [Workers -> Memory],
           \A v \in Workers : held'[v] = held[v] \/ MemorySound(held'[v], builds', steps, fresh'),
           RowFollows(b, builds[b], fresh, row2, fresh'),
           row2.state = "completed" =>
             /\ ~row2.cancel
             /\ builds[b].state = "completed" \/ \A s \in Steps : steps[b][s].state = "completed",
           Passed(b) => /\ Dead(b, row2, fresh')
                        /\ row2.state = "completed" => builds[b].state = "completed"
                        /\ row2.cancel => builds[b].cancel
    PROVE  BuildInv'
<1>1. builds' \in Seq(Rows) /\ Len(builds') = Len(builds)
      /\ \A c \in DOMAIN builds : builds'[c] = IF c = b THEN row2 ELSE builds[c]
  BY DEF BuildInv, Typed
<1>2. ASSUME NEW c \in DOMAIN builds
      PROVE  /\ RowFollows(c, builds[c], fresh, builds'[c], fresh')
             /\ builds'[c].state = "completed" =>
                  /\ ~builds'[c].cancel
                  /\ builds[c].state = "completed" \/ \A s \in Steps : steps[c][s].state = "completed"
             /\ Passed(c) => /\ Dead(c, builds'[c], fresh')
                             /\ builds'[c].state = "completed" => builds[c].state = "completed"
                             /\ builds'[c].cancel => builds[c].cancel
  <2>1. CASE c = b
    BY <1>1, <2>1
  <2>2. CASE c # b
    <3>1. builds'[c] = builds[c] /\ (c \in fresh' <=> c \in fresh)
      BY <1>1, <2>2
    <3>2. RowFollows(c, builds[c], fresh, builds'[c], fresh')
      BY <3>1 DEF RowFollows, Live
    <3>3. Passed(c) => Dead(c, builds'[c], fresh')
      BY <3>1 DEF BuildInv, Attempts, Dead
    <3>4. QED
      BY <3>1, <3>2, <3>3 DEF BuildInv, Attempts
  <2>3. QED
    BY <2>1, <2>2
<1>3. QED
  BY <1>1, <1>2, BuildsMove

LEMMA MovedTyped ==
    ASSUME NEW row \in Rows, NEW to \in {"running", "completed", "failed", "cancelled"}
    PROVE  MovedBuild(row, to) \in Rows /\ MovedBuild(row, to).state = to
           /\ MovedBuild(row, to).cancel = row.cancel
<1>1. PICK ver \in Nat, token \in Nat :
        ver = row.ver + 1 /\ token = (IF to \in Terminal THEN 0 ELSE row.token)
  <2>1. row.ver + 1 \in Nat /\ row.token \in Nat
    BY DEF Rows
  <2>2. QED
    BY <2>1
<1>2. MovedBuild(row, to) = [row EXCEPT !.state = to, !.ver = ver, !.token = token]
  BY <1>1 DEF MovedBuild
<1>3. QED
  BY <1>2 DEF Rows

LEMMA StartSound ==
    ASSUME BuildInv, NEW w \in Workers, Start(w) PROVE BuildInv'
<1>1. PICK h \in Memory, row \in Rows, plan \in [Steps -> StepRows] :
        /\ h = held[w] /\ row = builds[h.b] /\ plan = steps[h.b] /\ h.pc = "start"
        /\ h.b \in DOMAIN builds /\ PlanSound(h, plan) /\ BuildSound(h, row, fresh)
  BY Own DEF Start, Step
<1>2. UNCHANGED <<cand, steps, fresh, claims, retry>>
  BY DEF Start
<1>3. CASE Leave(w) /\ UNCHANGED builds
  BY <1>2, <1>3, LeaveSound
<1>4. CASE MayMoveBuild(h.b, h.ver, "running") /\ MoveBuild(h.b, "running") /\ Go(w, "mark")
  <2>1. ~row.cancel /\ row.state = "claimed"
    BY <1>1, <1>4 DEF MayMoveBuild, BuildMoves, Rows
  <2>2. PICK row2 \in Rows : row2 = MovedBuild(row, "running") /\ row2.state = "running" /\ ~row2.cancel
    BY <2>1, MovedTyped
  <2>3. builds' = [builds EXCEPT ![h.b] = row2]
    BY <1>1, <1>4, <2>2 DEF MoveBuild
  <2> DEFINE g == [h EXCEPT !.pc = "mark"]
  <2>4. held' = [held EXCEPT ![w] = g]
    BY <1>1, <1>4 DEF Go
  <2>5. g \in Memory /\ g.pc = "mark" /\ g.b = h.b /\ g.cause = "none"
    BY <1>1 DEF Memory, Pcs, BuildSound
  <2> HIDE DEF g
  <2>6. PlanSound(g, plan) /\ BuildSound(g, row2, fresh)
    BY <2>5 DEF PlanSound, BuildSound, InStep, Executing, Cancelling, Working
  <2>7. builds'[h.b] = row2 /\ h.b \in DOMAIN builds'
    BY <1>1, <2>3 DEF BuildInv, Typed
  <2>8. MemorySound(g, builds', steps, fresh)
    BY <1>1, <2>5, <2>6, <2>7 DEF MemorySound
  <2>9. /\ held' \in [Workers -> Memory] /\ claims' \in Nat
        /\ \A v \in Workers : held'[v] = held[v] \/ held'[v] = g
    BY <1>2, <2>4, <2>5 DEF BuildInv, Typed
  <2>10. ~Passed(h.b)
    BY <1>1, <2>1 DEF BuildInv, Attempts, Dead, Terminal
  <2>11. RowFollows(h.b, row, fresh, row2, fresh')
    BY <2>1 DEF RowFollows
  <2>12. QED
    BY <1>1, <1>2, <2>2, <2>3, <2>8, <2>9, <2>10, <2>11, OneBuild
<1>5. QED
  BY <1>1, <1>3, <1>4 DEF Start

(* What is next after the final write of a build.                          *)
LEMMA ContinueTyped ==
    ASSUME NEW h \in Memory, h.pc = "write", NEW plan, NEW row \in Rows, NEW leased, NEW next,
           NEW g, g = [h EXCEPT !.pc = next], next \in {"outcome", "block", "fail"},
           next = "outcome" => row.state = "completed",
           next = "block" => row.cancel /\ ~Live(h.b, row, leased)
    PROVE  g \in Memory /\ g.pc = next /\ g.b = h.b /\ PlanSound(g, plan) /\ BuildSound(g, row, leased)
<1>1. g \in Memory /\ g.pc = next /\ g.b = h.b
  BY DEF Memory, Pcs
<1>2. PlanSound(g, plan)
  BY <1>1 DEF PlanSound, InStep, Executing
<1>3. BuildSound(g, row, leased)
  BY <1>1 DEF BuildSound, Cancelling, Working
<1>4. QED
  BY <1>1, <1>2, <1>3

LEMMA FinalWriteSound ==
    ASSUME BuildInv, NEW w \in Workers, FinalWrite(w) PROVE BuildInv'
<1>1. PICK h \in Memory, row \in Rows, plan \in [Steps -> StepRows] :
        /\ h = held[w] /\ row = builds[h.b] /\ plan = steps[h.b] /\ h.pc = "write"
        /\ h.b \in DOMAIN builds /\ PlanSound(h, plan) /\ BuildSound(h, row, fresh)
  BY Own DEF FinalWrite, Step
<1>2. UNCHANGED <<cand, steps, fresh, claims, retry>>
  BY DEF FinalWrite
<1> DEFINE to == Target(h.end)
<1> DEFINE ok == MayMoveBuild(h.b, h.ver, to)
<1> DEFINE next == After(h.end, ok)
<1> DEFINE g == IF next = "idle" THEN Idle ELSE [h EXCEPT !.pc = next]
<1>3. held' = [held EXCEPT ![w] = g]
  BY <1>1 DEF FinalWrite, Continue, Go, Leave
<1>4. next \in {"idle", "outcome", "block", "fail"}
      /\ (next = "outcome" => ok /\ h.end = "completed") /\ (next = "block" => h.end = "cancelled")
  BY DEF After
<1>5. next # "idle" => g = [h EXCEPT !.pc = next]
  OBVIOUS
<1>6. h.end = "cancelled" => row.cancel /\ (Live(h.b, row, fresh) => ok)
  <2>1. SUFFICES ASSUME h.end = "cancelled" PROVE row.cancel /\ (Live(h.b, row, fresh) => ok)
    OBVIOUS
  <2>2. row.cancel /\ (Live(h.b, row, fresh) => h.ver = row.ver)
    BY <1>1, <2>1 DEF BuildSound, Cancelling
  <2>3. Live(h.b, row, fresh) => "cancelled" \in BuildMoves[row.state]
    BY DEF Live, Active, BuildMoves
  <2>4. QED
    BY <1>1, <2>1, <2>2, <2>3 DEF MayMoveBuild, Target
<1>7. CASE ~ok
  <2>1. UNCHANGED builds
    BY <1>1, <1>7 DEF FinalWrite
  <2>2. CASE next = "idle"
    BY <1>2, <1>3, <2>1, <2>2, LeaveSound DEF Leave
  <2>3. CASE next # "idle"
    <3>1. next = "outcome" => row.state = "completed"
      BY <1>4, <1>7
    <3>2. next = "block" => row.cancel /\ ~Live(h.b, row, fresh)
      BY <1>4, <1>6, <1>7
    <3>3. next \in {"outcome", "block", "fail"} /\ g = [h EXCEPT !.pc = next]
      BY <1>4, <1>5, <2>3
    <3>4. g \in Memory /\ g.pc = next /\ g.b = h.b /\ PlanSound(g, plan) /\ BuildSound(g, row, fresh)
      <4> HIDE DEF g, next, ok
      <4>1. h.pc = "write"
        BY <1>1
      <4>2. QED
        BY <3>1, <3>2, <3>3, <4>1, ContinueTyped
    <3> HIDE DEF g
    <3>5. QED
      BY <1>1, <1>2, <1>3, <2>1, <3>4, GoSound
  <2>4. QED
    BY <2>2, <2>3
<1>8. CASE ok
  <2>1. /\ to \in {"completed", "failed", "cancelled"} /\ row.state \notin Terminal
        /\ row.cancel => to = "cancelled"
    <3>1. to \in BuildMoves[row.state] /\ (row.cancel => to = "cancelled")
      BY <1>1, <1>8 DEF MayMoveBuild
    <3>2. row.state \in {"queued", "claimed", "running", "completed", "failed", "cancelled"}
      BY DEF Rows
    <3>3. to # "running"
      BY DEF Target, Memory
    <3> HIDE DEF to, ok
    <3>4. to \in {"completed", "failed", "cancelled"} /\ row.state \notin Terminal
      BY <3>1, <3>2, <3>3 DEF BuildMoves, Terminal
    <3>5. QED
      BY <3>1, <3>4
  <2>2. PICK row2 \in Rows : row2 = MovedBuild(row, to) /\ row2.state = to /\ row2.cancel = row.cancel
    BY <2>1, MovedTyped
  <2>3. builds' = [builds EXCEPT ![h.b] = row2]
    BY <1>1, <1>8, <2>2 DEF FinalWrite, MoveBuild
  <2>4. builds'[h.b] = row2 /\ h.b \in DOMAIN builds'
    BY <1>1, <2>3 DEF BuildInv, Typed
  <2>5. ~Live(h.b, row2, fresh)
    BY <2>1, <2>2 DEF Live, Active
  <2>6. g \in Memory /\ MemorySound(g, builds', steps, fresh)
    <3>1. CASE next = "idle"
      BY <3>1, IdleTyped DEF MemorySound
    <3>2. CASE next # "idle"
      <4>1. next = "outcome" => row2.state = "completed"
        BY <1>4, <2>2 DEF Target
      <4>2. next = "block" => row2.cancel /\ ~Live(h.b, row2, fresh)
        BY <1>4, <1>6, <2>2, <2>5
      <4>3. g \in Memory /\ g.pc = next /\ g.b = h.b /\ PlanSound(g, plan) /\ BuildSound(g, row2, fresh)
        <5> HIDE DEF g, next, ok
        <5>1. h.pc = "write" /\ next \in {"outcome", "block", "fail"} /\ g = [h EXCEPT !.pc = next]
          BY <1>1, <1>4, <1>5, <3>2
        <5>2. QED
          BY <4>1, <4>2, <5>1, ContinueTyped
      <4> HIDE DEF g
      <4>4. QED
        BY <1>1, <2>4, <4>3 DEF MemorySound
    <3>3. QED
      BY <3>1, <3>2
  <2> HIDE DEF g
  <2>7. /\ held' \in [Workers -> Memory] /\ claims' \in Nat
        /\ \A v \in Workers : held'[v] = held[v] \/ held'[v] = g
    BY <1>2, <1>3, <2>6 DEF BuildInv, Typed
  <2>8. RowFollows(h.b, row, fresh, row2, fresh)
    BY <2>1, <2>2, <2>5 DEF RowFollows, Terminal
  <2>9. row2.state = "completed" => ~row2.cancel /\ \A s \in Steps : plan[s].state = "completed"
    <3>1. to = "completed" => h.end = "completed"
      BY DEF Target
    <3>2. QED
      BY <1>1, <2>1, <2>2, <3>1 DEF PlanSound
  <2>10. Passed(h.b) => row.cancel
    BY <1>1, <2>1 DEF BuildInv, Attempts, Dead
  <2>11. Passed(h.b) => /\ Dead(h.b, row2, fresh)
                        /\ row2.state = "completed" => row.state = "completed"
                        /\ row2.cancel => row.cancel
    BY <2>1, <2>2, <2>10 DEF Dead, Terminal
  <2>12. QED
    BY <1>1, <1>2, <2>2, <2>3, <2>6, <2>7, <2>8, <2>9, <2>11, OneBuild
<1>9. QED
  BY <1>7, <1>8

LEMMA ClaimSound ==
    ASSUME BuildInv, NEW w \in Workers, Claim(w) PROVE BuildInv'
<1>1. PICK b \in DOMAIN builds :
        /\ Claimable(b) /\ claims' = claims + 1 /\ fresh' = fresh \cup {b}
        /\ builds' = [builds EXCEPT ![b].state = "claimed", ![b].token = claims + 1, ![b].ver = @ + 1]
        /\ held' = [held EXCEPT ![w] = [Idle EXCEPT !.pc = "load", !.b = b, !.token = claims + 1]]
  BY DEF Claim
<1>2. UNCHANGED <<cand, steps, retry>>
  BY DEF Claim
<1>3. PICK row \in Rows : row = builds[b] /\ row.state = "queued" /\ ~row.cancel
  BY <1>1, RowTypes DEF BuildInv, Claimable
<1>4. claims + 1 \in Nat /\ row.ver + 1 \in Nat /\ b \in Nat
  BY <1>1, RowTypes DEF BuildInv, Typed, Rows
<1>5. PICK token \in Nat, ver \in Nat : token = claims + 1 /\ ver = row.ver + 1
  BY <1>4
<1> DEFINE row2 == [row EXCEPT !.state = "claimed", !.token = token, !.ver = ver]
<1>6. row2 \in Rows /\ row2.state = "claimed" /\ ~row2.cancel
  BY <1>3 DEF Rows
<1>7. builds' = [builds EXCEPT ![b] = row2]
  BY <1>1, <1>3, <1>5
<1> DEFINE g == [Idle EXCEPT !.pc = "load", !.b = b, !.token = token]
<1>8. g \in Memory /\ g.pc = "load" /\ g.b = b /\ g.cause = "none"
  <2>1. Idle \in Memory /\ Idle.cause = "none"
    BY IdleTyped DEF Idle
  <2>2. QED
    BY <1>4, <2>1 DEF Memory, Pcs
<1>9. held' = [held EXCEPT ![w] = g]
  BY <1>1, <1>5
<1> HIDE DEF g, row2
<1>10. PlanSound(g, steps[b]) /\ BuildSound(g, row2, fresh')
  BY <1>8 DEF PlanSound, BuildSound, InStep, Executing, Cancelling, Working
<1>11. builds'[b] = row2 /\ b \in DOMAIN builds'
  BY <1>7 DEF BuildInv, Typed
<1>12. MemorySound(g, builds', steps, fresh')
  BY <1>8, <1>10, <1>11 DEF MemorySound
<1>13. /\ held' \in [Workers -> Memory] /\ claims' \in Nat
       /\ \A v \in Workers : held'[v] = held[v] \/ held'[v] = g
  BY <1>1, <1>4, <1>8, <1>9 DEF BuildInv, Typed
<1>14. ~Passed(b)
  BY <1>3 DEF BuildInv, Attempts, Dead, Terminal
<1>15. RowFollows(b, row, fresh, row2, fresh')
  BY <1>3 DEF RowFollows
<1>16. fresh' \in {fresh, fresh \cup {b}}
  BY <1>1
<1>17. row2.state # "completed"
  BY <1>6
<1>18. QED
  BY <1>2, <1>3, <1>6, <1>7, <1>12, <1>13, <1>14, <1>15, <1>16, <1>17, OneBuild

LEMMA ReclaimSound ==
    ASSUME BuildInv, NEW w \in Workers, Reclaim(w) PROVE BuildInv'
<1> DEFINE again(b) == [builds[b] EXCEPT !.state = IF builds[b].cancel THEN "cancelled" ELSE "queued",
                                         !.token = 0, !.ver = @ + 1]
<1>1. /\ builds' = [b \in DOMAIN builds |-> IF b \notin Stale THEN builds[b] ELSE again(b)]
      /\ UNCHANGED <<cand, steps, fresh, claims, held, retry>>
  BY DEF Reclaim
<1>2. ASSUME NEW b \in DOMAIN builds
      PROVE  /\ builds[b] \in Rows /\ again(b) \in Rows /\ again(b).cancel = builds[b].cancel
             /\ again(b).state = IF builds[b].cancel THEN "cancelled" ELSE "queued"
  <2>1. PICK row \in Rows : row = builds[b]
    BY RowTypes DEF BuildInv
  <2>2. PICK ver \in Nat : ver = row.ver + 1
    BY DEF Rows
  <2>3. PICK state \in {"cancelled", "queued"} : state = IF row.cancel THEN "cancelled" ELSE "queued"
    OBVIOUS
  <2> DEFINE new == [row EXCEPT !.state = state, !.token = 0, !.ver = ver]
  <2>4. again(b) = new
    BY <2>1, <2>2, <2>3
  <2>5. new \in Rows /\ new.state = state /\ new.cancel = row.cancel
    BY <2>3 DEF Rows
  <2> HIDE DEF again, new
  <2>6. QED
    BY <2>1, <2>3, <2>4, <2>5
<1> HIDE DEF again
<1>3. builds' \in Seq(Rows) /\ Len(builds') = Len(builds)
  <2>1. Len(builds) \in Nat /\ DOMAIN builds = 1..Len(builds)
    BY DEF BuildInv, Typed
  <2>2. QED
    BY <1>1, <1>2, <2>1
<1>4. ASSUME NEW c \in DOMAIN builds
      PROVE  /\ RowFollows(c, builds[c], fresh, builds'[c], fresh')
             /\ builds'[c].state = "completed" =>
                  /\ ~builds'[c].cancel
                  /\ builds[c].state = "completed" \/ \A s \in Steps : steps[c][s].state = "completed"
             /\ Passed(c) => /\ Dead(c, builds'[c], fresh')
                             /\ builds'[c].state = "completed" => builds[c].state = "completed"
                             /\ builds'[c].cancel => builds[c].cancel
  <2>1. CASE c \notin Stale
    <3>1. builds'[c] = builds[c]
      BY <1>1, <2>1
    <3>2. QED
      BY <1>1, <3>1 DEF BuildInv, Attempts, RowFollows
  <2>2. CASE c \in Stale
    <3>1. builds'[c] = again(c)
      BY <1>1, <2>2
    <3>2. builds[c].state \in Active
      BY <2>2 DEF Stale
    <3>3. RowFollows(c, builds[c], fresh, builds'[c], fresh')
      BY <1>2, <3>1, <3>2 DEF RowFollows, Live, Active
    <3>4. Passed(c) => builds[c].cancel
      BY <3>2 DEF BuildInv, Attempts, Dead, Active, Terminal
    <3>5. QED
      BY <1>2, <3>1, <3>3, <3>4 DEF Dead, Terminal
  <2>3. QED
    BY <2>1, <2>2
<1>5. claims' \in Nat /\ held' \in [Workers -> Memory]
  BY <1>1 DEF BuildInv, Typed
<1>6. QED
  BY <1>1, <1>3, <1>4, <1>5, BuildsMove

LEMMA CancelSound ==
    ASSUME BuildInv, Cancel PROVE BuildInv'
<1>1. UNCHANGED <<steps, fresh, claims, held, retry>>
  BY DEF Cancel
<1>2. CASE Unfinished = {}
  BY <1>1, <1>2, RejectSound DEF Cancel
<1>3. CASE Unfinished # {}
  <2> DEFINE asked(b) == [builds[b] EXCEPT !.cancel = TRUE, !.ver = @ + 1]
  <2>1. builds' = [b \in DOMAIN builds |-> IF b \in Unfinished THEN asked(b) ELSE builds[b]] /\ UNCHANGED cand
    BY <1>3 DEF Cancel
  <2>2. ASSUME NEW b \in DOMAIN builds
        PROVE  builds[b] \in Rows /\ asked(b) \in Rows /\ asked(b).cancel /\ asked(b).state = builds[b].state
    <3>1. PICK row \in Rows : row = builds[b]
      BY RowTypes DEF BuildInv
    <3>2. PICK ver \in Nat : ver = row.ver + 1
      BY DEF Rows
    <3>3. asked(b) = [row EXCEPT !.cancel = TRUE, !.ver = ver]
      BY <3>1, <3>2
    <3> HIDE DEF asked
    <3>4. QED
      BY <3>1, <3>3 DEF Rows
  <2> HIDE DEF asked
  <2>3. builds' \in Seq(Rows) /\ Len(builds') = Len(builds)
    <3>1. Len(builds) \in Nat /\ DOMAIN builds = 1..Len(builds)
      BY DEF BuildInv, Typed
    <3>2. QED
      BY <2>1, <2>2, <3>1
  <2>4. ASSUME NEW c \in DOMAIN builds
        PROVE  /\ RowFollows(c, builds[c], fresh, builds'[c], fresh')
               /\ builds'[c].state = "completed" =>
                    /\ ~builds'[c].cancel
                    /\ builds[c].state = "completed" \/ \A s \in Steps : steps[c][s].state = "completed"
               /\ Passed(c) => /\ Dead(c, builds'[c], fresh')
                               /\ builds'[c].state = "completed" => builds[c].state = "completed"
                               /\ builds'[c].cancel => builds[c].cancel
    <3>1. CASE c \notin Unfinished
      <4>1. builds'[c] = builds[c]
        BY <2>1, <3>1
      <4>2. QED
        BY <1>1, <4>1 DEF BuildInv, Attempts, RowFollows
    <3>2. CASE c \in Unfinished
      <4>1. builds'[c] = asked(c)
        BY <2>1, <3>2
      <4>2. builds[c].state \notin Terminal /\ ~builds[c].cancel
        BY <3>2 DEF Unfinished
      <4>3. ~Passed(c)
        BY <4>2 DEF BuildInv, Attempts, Dead
      <4>4. QED
        BY <2>2, <4>1, <4>2, <4>3 DEF RowFollows, Terminal
    <3>3. QED
      BY <3>1, <3>2
  <2>5. claims' \in Nat /\ held' \in [Workers -> Memory]
    BY <1>1 DEF BuildInv, Typed
  <2>6. QED
    BY <1>1, <2>1, <2>3, <2>4, <2>5, BuildsMove
<1>4. QED
  BY <1>2, <1>3

LEMMA RunOutSound ==
    ASSUME BuildInv, NEW b \in DOMAIN builds, RunOut(b) PROVE BuildInv'
<1>1. fresh' = fresh \ {b} /\ UNCHANGED <<cand, builds, steps, claims, held, retry>>
  BY DEF RunOut
<1>2. \A c \in DOMAIN builds : RowFollows(c, builds[c], fresh, builds[c], fresh')
  BY <1>1 DEF RowFollows, Live
<1>3. \A c \in DOMAIN builds : Passed(c) => Dead(c, builds[c], fresh')
  BY <1>1 DEF BuildInv, Attempts, Dead
<1>4. claims' \in Nat /\ held' \in [Workers -> Memory] /\ builds' \in Seq(Rows) /\ Len(builds') = Len(builds)
  BY <1>1 DEF BuildInv, Typed
<1>5. QED
  BY <1>1, <1>2, <1>3, <1>4, BuildsMove DEF BuildInv, Attempts

LEMMA EnqueueSound ==
    ASSUME BuildInv, Enqueue PROVE BuildInv'
<1>1. /\ retry # 0 /\ retry' = 0 /\ builds' = Append(builds, NewBuild) /\ steps' = Append(steps, NewPlan)
      /\ UNCHANGED <<cand, fresh, claims, held>>
  BY DEF Enqueue
<1>2. NewBuild \in Rows /\ NewBuild.state = "queued"
  BY DEF NewBuild, Rows
<1>3. NewStep \in StepRows /\ NewStep.state = "queued"
  BY DEF NewStep, StepRows, StepMoves, BuildMoves
<1>4. NewPlan \in [Steps -> StepRows] /\ \A s \in Steps : NewPlan[s].state = "queued"
  BY <1>3 DEF NewPlan
<1>5. PICK n \in Nat : n = Len(builds) /\ n = Len(steps) /\ DOMAIN builds = 1..n /\ DOMAIN steps = 1..n
  BY DEF BuildInv, Typed
<1>6. /\ builds' \in Seq(Rows) /\ steps' \in Seq([Steps -> StepRows]) /\ Len(builds') = n + 1
      /\ Len(steps') = n + 1 /\ DOMAIN builds' = 1..(n + 1)
      /\ builds'[n + 1] = NewBuild /\ steps'[n + 1] = NewPlan
      /\ \A c \in 1..n : builds'[c] = builds[c] /\ steps'[c] = steps[c]
  BY <1>1, <1>2, <1>4, <1>5 DEF BuildInv, Typed
<1>7. Typed'
  BY <1>1, <1>6 DEF BuildInv, Typed
<1>8. \A c \in DOMAIN builds :
        /\ c \in DOMAIN builds' /\ PlanFollows(steps[c], steps'[c])
        /\ RowFollows(c, builds[c], fresh, builds'[c], fresh')
  BY <1>1, <1>5, <1>6 DEF PlanFollows, RowFollows
<1>9. ASSUME NEW v \in Workers PROVE MemorySound(held'[v], builds', steps', fresh')
  BY <1>1, <1>7, <1>8, MemoriesKept
<1>10. \A c \in DOMAIN builds' : c \in DOMAIN builds \/ c = n + 1
  BY <1>5, <1>6
<1>11. CompletedHasPlan' /\ DependenciesFirst'
  BY <1>2, <1>4, <1>5, <1>6, <1>10 DEF BuildInv, CompletedHasPlan, DependenciesFirst
<1>12. ApprovableIsEvident'
  BY <1>1, <1>5, <1>6, <1>8 DEF BuildInv, ApprovableIsEvident
<1>13. Attempts'
  <2>1. retry' = 0 /\ cand'.state # "blocked"
    BY <1>1 DEF BuildInv, Attempts
  <2>2. ASSUME NEW c \in DOMAIN builds
        PROVE  /\ builds'[c].state = "completed" => ~builds'[c].cancel
               /\ /\ Dead(c, builds'[c], fresh')
                  /\ builds'[c].state = "completed" => "policy-blocked" \in cand'.keys
                  /\ builds'[c].cancel => "blocked" \in cand'.keys
    BY <1>1, <1>5, <1>6 DEF BuildInv, Attempts, Passed
  <2>3. ~(n + 1 < Len(builds'))
    BY <1>6
  <2>4. builds'[n + 1].state # "completed"
    BY <1>2, <1>6
  <2>5. QED
    BY <1>10, <2>1, <2>2, <2>3, <2>4 DEF Attempts, Passed
<1>14. QED
  BY <1>7, <1>9, <1>11, <1>12, <1>13 DEF BuildInv

-----------------------------------------------------------------------------
LEMMA InitBuild == Init => BuildInv
<1> SUFFICES ASSUME Init PROVE BuildInv
  OBVIOUS
<1>1. NewBuild \in Rows /\ NewBuild.state = "queued"
  BY DEF NewBuild, Rows
<1>2. NewStep \in StepRows /\ NewStep.state = "queued"
  BY DEF NewStep, StepRows, StepMoves, BuildMoves
<1>3. NewPlan \in [Steps -> StepRows] /\ \A s \in Steps : NewPlan[s].state = "queued"
  BY <1>2 DEF NewPlan
<1>4. Typed
  BY <1>1, <1>3, IdleTyped DEF Init, Typed, CandStates, Keys
<1>5. DOMAIN builds = {1} /\ Len(builds) = 1 /\ builds[1] = NewBuild /\ steps[1] = NewPlan
  BY DEF Init
<1>6. \A w \in Workers : MemorySound(held[w], builds, steps, fresh)
  BY IdleTyped DEF Init, MemorySound
<1>7. CompletedHasPlan /\ DependenciesFirst
  BY <1>1, <1>3, <1>5 DEF CompletedHasPlan, DependenciesFirst
<1>8. cand.state = "queued" /\ retry = 0
  BY DEF Init
<1>9. ApprovableIsEvident
  BY <1>8 DEF ApprovableIsEvident
<1>10. \A b \in DOMAIN builds : ~Passed(b) /\ builds[b].state # "completed"
  BY <1>1, <1>5, <1>8 DEF Passed
<1>11. Attempts
  BY <1>8, <1>10 DEF Attempts
<1>12. QED
  BY <1>4, <1>6, <1>7, <1>9, <1>11 DEF BuildInv

LEMMA NextBuild == BuildInv /\ [Next]_vars => BuildInv'
<1> SUFFICES ASSUME BuildInv, [Next]_vars PROVE BuildInv'
  OBVIOUS
<1>1. ASSUME NEW w \in Workers, WorkerStep(w) PROVE BuildInv'
  BY <1>1, LoadSound, ChecksSound, StartSound, MarkSound, RecoverSound, DecideSound, BeginSound,
     ExecSound, CancelStepSound, EvidenceSound, FinishSound, RecordSound, FinalCheckSound,
     FinalWriteSound, EvidenceEndSound, FailSound, BlockSound, PolicyBlockSound, AdvanceSound, AutoApproveSound
     DEF WorkerStep
<1>2. ASSUME NEW w \in Workers, Crash(w) PROVE BuildInv'
  BY <1>2, LeaveSound DEF Crash
<1>3. ASSUME NEW b \in DOMAIN builds, Expire(b) \/ Suspend(b) PROVE BuildInv'
  BY <1>3, RunOutSound DEF Expire, Suspend
<1>4. CASE UNCHANGED vars
  <2>1. UNCHANGED <<cand, builds, steps, fresh, claims, retry, held>>
    BY <1>4 DEF vars
  <2>2. held' \in [Workers -> Memory]
    BY <2>1 DEF BuildInv, Typed
  <2>3. QED
    BY <2>1, <2>2, StillSound
<1>5. QED
  BY <1>1, <1>2, <1>3, <1>4, ClaimSound, ReclaimSound, MonitorSound, LocalErrorSound, CancelSound,
     RetrySound, EnqueueSound, EnqueueFailsSound DEF Next

(* The rows, the plan and what every worker remembers of them.             *)
THEOREM BuildInvariant == Spec => []BuildInv
<1>1. QED
  BY InitBuild, NextBuild, PTL DEF Spec

(* A build is completed only when every step of its plan is, whoever ran   *)
(* or reconciled them (executePlan, finalizeBuild).                        *)
THEOREM CompletedHasPlanHolds == Spec => []CompletedHasPlan
<1>1. BuildInv => CompletedHasPlan
  BY DEF BuildInv
<1>2. QED
  BY <1>1, BuildInvariant, PTL

(* No step is started before the ones it depends on have completed         *)
(* (Plan.Ready, executeStep).                                              *)
THEOREM DependenciesFirstHolds == Spec => []DependenciesFirst
<1>1. BuildInv => DependenciesFirst
  BY DEF BuildInv
<1>2. QED
  BY <1>1, BuildInvariant, PTL

(* Two attempts of a candidate never run under live leases at once         *)
(* (RetryCandidate, markCandidateBlocked).                                 *)
THEOREM OneLiveBuildHolds == Spec => []OneLiveBuild
<1>1. BuildInv => OneLiveBuild
  <2> SUFFICES ASSUME BuildInv, NEW a \in DOMAIN builds, NEW b \in DOMAIN builds,
                      {a, b} \subseteq fresh, {builds[a].state, builds[b].state} \subseteq Active
               PROVE  a = b
    BY DEF OneLiveBuild
  <2>1. ~Dead(a, builds[a], fresh) /\ ~Dead(b, builds[b], fresh)
    BY DEF Dead, Active, Terminal
  <2>2. ~Passed(a) /\ ~Passed(b)
    BY <2>1 DEF BuildInv, Attempts
  <2>3. QED
    BY <2>2, LastAttempt
<1>2. QED
  BY <1>1, BuildInvariant, PTL

(* A candidate that may be approved has a completed build that its policy  *)
(* did not block, and carries a decision (markCandidateAwaitingApproval).  *)
THEOREM ApprovableIsEvidentHolds == Spec => []ApprovableIsEvident
<1>1. BuildInv => ApprovableIsEvident
  BY DEF BuildInv
<1>2. QED
  BY <1>1, BuildInvariant, PTL

-----------------------------------------------------------------------------
(* The types of the specification                                          *)
(*                                                                         *)
(* Typed gives the kinds of the fields.  Bounded gives their ranges: a     *)
(* token is one that was given out, a lease and a worker are those of a    *)
(* build that exists, and no step has more attempts than the budget.       *)

LeasesBounded ==
  /\ fresh \subseteq DOMAIN builds
  /\ \A b \in DOMAIN builds : builds[b].token <= claims
WorkersBounded == \A w \in Workers : held[w].b <= Len(builds) /\ held[w].token <= claims
AttemptsBounded == \A b \in DOMAIN builds : \A s \in Steps : steps[b][s].att \in 1..MaxStepAttempts

Bounded == LeasesBounded /\ WorkersBounded /\ AttemptsBounded

(* What a worker remembers to be its build and its lease: as before,       *)
(* nothing, or those it has just been given.                               *)
Keeps(g, h) == g.b = h.b /\ g.token = h.token
Remains(g, h) == Keeps(g, h) \/ g = Idle

LEMMA OneRemains ==
    ASSUME Typed, NEW w \in Workers, NEW g, Remains(g, held[w]), held' = [held EXCEPT ![w] = g]
    PROVE  \A v \in Workers : Remains(held'[v], held[v])
<1>1. \A v \in Workers : held'[v] = held[v] \/ (v = w /\ held'[v] = g)
  BY DEF Typed
<1>2. QED
  BY <1>1 DEF Remains, Keeps

LEMMA GoRemains ==
    ASSUME Typed, NEW w \in Workers, NEW pc, Go(w, pc)
    PROVE  \A v \in Workers : Remains(held'[v], held[v])
<1>1. PICK h \in Memory : h = held[w]
  BY DEF Typed
<1> DEFINE g == [h EXCEPT !.pc = pc]
<1>2. Keeps(g, h)
  BY DEF Keeps, Memory
<1>3. held' = [held EXCEPT ![w] = g]
  BY <1>1 DEF Go
<1> HIDE DEF g
<1>4. QED
  BY <1>1, <1>2, <1>3, OneRemains DEF Remains

LEMMA LeaveRemains ==
    ASSUME Typed, NEW w \in Workers, Leave(w)
    PROVE  \A v \in Workers : Remains(held'[v], held[v])
  BY OneRemains DEF Leave, Remains

LEMMA EndRemains ==
    ASSUME Typed, NEW w \in Workers, NEW end, End(w, end)
    PROVE  \A v \in Workers : Remains(held'[v], held[v])
<1>1. PICK h \in Memory : h = held[w]
  BY DEF Typed
<1> DEFINE g == [h EXCEPT !.pc = "final", !.end = end]
<1>2. Keeps(g, h)
  BY DEF Keeps, Memory
<1>3. held' = [held EXCEPT ![w] = g]
  BY <1>1 DEF End
<1> HIDE DEF g
<1>4. QED
  BY <1>1, <1>2, <1>3, OneRemains DEF Remains

LEMMA VersionRemains ==
    ASSUME Typed, NEW w \in Workers, NEW pc, NEW ver,
           held' = [held EXCEPT ![w].pc = pc, ![w].ver = ver]
    PROVE  \A v \in Workers : Remains(held'[v], held[v])
<1>1. PICK h \in Memory : h = held[w]
  BY DEF Typed
<1> DEFINE g == [h EXCEPT !.pc = pc, !.ver = ver]
<1>2. Keeps(g, h)
  BY DEF Keeps, Memory
<1>3. held' = [held EXCEPT ![w] = g]
  BY <1>1
<1> HIDE DEF g
<1>4. QED
  BY <1>1, <1>2, <1>3, OneRemains DEF Remains

LEMMA CheckLeaseRemains ==
    ASSUME Typed, NEW w \in Workers, NEW next, CheckLease(w, next)
    PROVE  \A v \in Workers : Remains(held'[v], held[v])
  BY LeaveRemains, EndRemains, VersionRemains DEF CheckLease

LEMMA WriteStepRemains ==
    ASSUME Typed, NEW w \in Workers, NEW allowed, NEW step, NEW next, WriteStep(w, allowed, step, next)
    PROVE  \A v \in Workers : Remains(held'[v], held[v])
<1>1. PICK h \in Memory : h = held[w]
  BY DEF Typed
<1>2. CASE held' = [held EXCEPT ![w].pc = next, ![w].rec = step]
  <2> DEFINE g == [h EXCEPT !.pc = next, !.rec = step]
  <2>1. Keeps(g, h)
    BY DEF Keeps, Memory
  <2>2. held' = [held EXCEPT ![w] = g]
    BY <1>1, <1>2
  <2> HIDE DEF g
  <2>3. QED
    BY <1>1, <2>1, <2>2, OneRemains DEF Remains
<1>3. QED
  BY <1>2, LeaveRemains, EndRemains DEF WriteStep

LEMMA LoadRemains ==
    ASSUME Typed, NEW w \in Workers, Load(w)
    PROVE  \A v \in Workers : Remains(held'[v], held[v])
<1>1. PICK h \in Memory : h = held[w]
  BY DEF Typed
<1>2. CASE held' = [held EXCEPT ![w].pc = "lease", ![w].seen = cand.state, ![w].cver = cand.ver]
  <2> DEFINE g == [h EXCEPT !.pc = "lease", !.seen = cand.state, !.cver = cand.ver]
  <2>1. Keeps(g, h)
    BY DEF Keeps, Memory
  <2>2. held' = [held EXCEPT ![w] = g]
    BY <1>1, <1>2
  <2> HIDE DEF g
  <2>3. QED
    BY <1>1, <2>1, <2>2, OneRemains DEF Remains
<1>3. QED
  BY <1>2, EndRemains DEF Load

LEMMA RecordEndRemains ==
    ASSUME Typed, NEW w \in Workers, NEW closed, NEW key, NEW next, RecordEnd(w, closed, key, next)
    PROVE  \A v \in Workers : Remains(held'[v], held[v])
<1>1. PICK h \in Memory : h = held[w]
  BY DEF Typed
<1>2. CASE held' = [held EXCEPT ![w].pc = next, ![w].cver = cand.ver + 1]
  <2> DEFINE g == [h EXCEPT !.pc = next, !.cver = cand.ver + 1]
  <2>1. Keeps(g, h)
    BY DEF Keeps, Memory
  <2>2. held' = [held EXCEPT ![w] = g]
    BY <1>1, <1>2
  <2> HIDE DEF g
  <2>3. QED
    BY <1>1, <2>1, <2>2, OneRemains DEF Remains
<1>3. QED
  BY <1>2, LeaveRemains DEF RecordEnd

LEMMA MonitorRemains ==
    ASSUME Typed, NEW w \in Workers, Monitor(w)
    PROVE  \A v \in Workers : Remains(held'[v], held[v])
<1>1. PICK h \in Memory : h = held[w]
  BY DEF Typed
<1>2. PICK cause \in {"lost", "cancelled"} : held' = [held EXCEPT ![w].cause = cause]
  BY DEF Monitor
<1> DEFINE g == [h EXCEPT !.cause = cause]
<1>3. Keeps(g, h)
  BY DEF Keeps, Memory
<1>4. held' = [held EXCEPT ![w] = g]
  BY <1>1, <1>2
<1> HIDE DEF g
<1>5. QED
  BY <1>1, <1>3, <1>4, OneRemains DEF Remains

LEMMA DecideRemains ==
    ASSUME Typed, NEW w \in Workers, Decide(w)
    PROVE  \A v \in Workers : Remains(held'[v], held[v])
<1>1. PICK h \in Memory : h = held[w]
  BY DEF Typed
<1>2. ASSUME NEW s \in Ready(h.b),
             held' = [held EXCEPT ![w].pc = "step", ![w].step = s, ![w].rec = steps[h.b][s]]
      PROVE  \A v \in Workers : Remains(held'[v], held[v])
  <2> DEFINE g == [h EXCEPT !.pc = "step", !.step = s, !.rec = steps[h.b][s]]
  <2>1. Keeps(g, h)
    BY DEF Keeps, Memory
  <2>2. held' = [held EXCEPT ![w] = g]
    BY <1>1, <1>2
  <2> HIDE DEF g
  <2>3. QED
    BY <1>1, <2>1, <2>2, OneRemains DEF Remains
<1>3. QED
  BY <1>1, <1>2, LeaveRemains, EndRemains DEF Decide

LEMMA ExecRemains ==
    ASSUME Typed, NEW w \in Workers, Exec(w)
    PROVE  \A v \in Workers : Remains(held'[v], held[v])
<1>1. PICK h \in Memory : h = held[w]
  BY DEF Typed
<1>2. ASSUME NEW r, held' = [held EXCEPT ![w].pc = "result", ![w].out = r]
      PROVE  \A v \in Workers : Remains(held'[v], held[v])
  <2> DEFINE g == [h EXCEPT !.pc = "result", !.out = r]
  <2>1. Keeps(g, h)
    BY DEF Keeps, Memory
  <2>2. held' = [held EXCEPT ![w] = g]
    BY <1>1, <1>2
  <2> HIDE DEF g
  <2>3. QED
    BY <1>1, <2>1, <2>2, OneRemains DEF Remains
<1>3. QED
  BY <1>2, GoRemains, LeaveRemains DEF Exec

LEMMA ContinueRemains ==
    ASSUME Typed, NEW w \in Workers, NEW written, Continue(w, written)
    PROVE  \A v \in Workers : Remains(held'[v], held[v])
  BY GoRemains, LeaveRemains DEF Continue

LEMMA WorkerRemains ==
    ASSUME Typed, NEW w \in Workers, WorkerStep(w) \/ Monitor(w) \/ LocalError(w) \/ Crash(w)
    PROVE  \A v \in Workers : Remains(held'[v], held[v])
<1> DEFINE Goal == \A v \in Workers : Remains(held'[v], held[v])
<1>1. CASE Lease(w) \/ Plan(w) \/ CheckStep(w) \/ CheckResult(w)
  BY <1>1, CheckLeaseRemains DEF Lease, Plan, CheckStep, CheckResult
<1>2. CASE Start(w) \/ Recover(w)
  BY <1>2, GoRemains, LeaveRemains DEF Start, Recover
<1>3. CASE MarkStarted(w) \/ LocalError(w) \/ Crash(w)
  BY <1>3, GoRemains, EndRemains, LeaveRemains DEF MarkStarted, LocalError, Crash
<1>4. CASE Record(w)
  BY <1>4, GoRemains, EndRemains, LeaveRemains DEF Record
<1>5. CASE Begin(w)
  BY <1>5, GoRemains, WriteStepRemains DEF Begin
<1>6. CASE Evidence(w) \/ Finish(w)
  BY <1>6, WriteStepRemains DEF Evidence, Finish
<1>7. CASE CancelStep(w)
  BY <1>7, EndRemains DEF CancelStep
<1>8. CASE FinalCheck(w)
  BY <1>8, ContinueRemains, VersionRemains DEF FinalCheck
<1>9. CASE FinalWrite(w)
  BY <1>9, ContinueRemains DEF FinalWrite
<1>10. CASE FailCandidate(w) \/ BlockCandidate(w) \/ PolicyBlock(w) \/ AutoApprove(w)
  BY <1>10, LeaveRemains DEF FailCandidate, BlockCandidate, PolicyBlock, AutoApprove, EndCandidate
<1>11. CASE Advance(w)
  <2>1. CASE UNCHANGED held
    BY <2>1 DEF Remains, Keeps
  <2>2. QED
    BY <1>11, <2>1, GoRemains, LeaveRemains DEF Advance
<1>12. CASE FailEvidence(w) \/ BlockEvidence(w) \/ PolicyEvidence(w)
  BY <1>12, RecordEndRemains DEF FailEvidence, BlockEvidence, PolicyEvidence
<1>13. QED
  BY <1>1, <1>2, <1>3, <1>4, <1>5, <1>6, <1>7, <1>8, <1>9, <1>10, <1>11, <1>12,
     LoadRemains, MonitorRemains, DecideRemains, ExecRemains DEF WorkerStep


(* What a step makes of the leases.                                        *)
LeasesFollow ==
  /\ claims <= claims' /\ fresh' \subseteq fresh \cup DOMAIN builds
  /\ Len(builds) <= Len(builds') /\ DOMAIN builds \subseteq DOMAIN builds'
  /\ \A b \in DOMAIN builds' :
       \/ builds'[b].token \in {0, claims'}
       \/ b \in DOMAIN builds /\ builds'[b].token = builds[b].token

LEMMA LeasesStay ==
    ASSUME Typed, UNCHANGED <<builds, claims>>, fresh' \subseteq fresh PROVE LeasesFollow
<1>1. claims <= claims /\ Len(builds) <= Len(builds)
  BY DEF Typed
<1>2. QED
  BY <1>1 DEF LeasesFollow

LEMMA MoveLeases ==
    ASSUME Typed, NEW b \in DOMAIN builds, NEW to, MoveBuild(b, to), UNCHANGED <<fresh, claims>>
    PROVE  LeasesFollow
<1>1. claims <= claims /\ Len(builds) <= Len(builds)
  BY DEF Typed
<1>2. PICK row \in Rows : row = builds[b]
  BY DEF Typed
<1> DEFINE token == IF to \in Terminal THEN 0 ELSE row.token
<1>3. MovedBuild(row, to) = [row EXCEPT !.state = to, !.ver = row.ver + 1, !.token = token]
  BY DEF MovedBuild
<1> HIDE DEF token
<1>4. MovedBuild(row, to).token = token
  BY <1>3 DEF Rows
<1>5. token \in {0, row.token}
  BY DEF token
<1>6. /\ Len(builds') = Len(builds) /\ DOMAIN builds' = DOMAIN builds
      /\ \A c \in DOMAIN builds : builds'[c] = IF c = b THEN MovedBuild(row, to) ELSE builds[c]
  BY <1>2 DEF MoveBuild, Typed
<1>7. QED
  BY <1>1, <1>2, <1>4, <1>5, <1>6 DEF LeasesFollow

LEMMA ClaimLeases ==
    ASSUME Typed, NEW w \in Workers, Claim(w) PROVE LeasesFollow
<1>1. PICK b \in DOMAIN builds :
        /\ claims' = claims + 1 /\ fresh' = fresh \cup {b}
        /\ builds' = [builds EXCEPT ![b].state = "claimed", ![b].token = claims + 1, ![b].ver = @ + 1]
  BY DEF Claim
<1>2. PICK row \in Rows : row = builds[b]
  BY DEF Typed
<1> DEFINE row2 == [row EXCEPT !.state = "claimed", !.token = claims + 1, !.ver = row.ver + 1]
<1>3. row2.token = claims + 1
  BY DEF Rows
<1>4. builds' = [builds EXCEPT ![b] = row2]
  BY <1>1, <1>2
<1> HIDE DEF row2
<1>5. /\ Len(builds') = Len(builds) /\ DOMAIN builds' = DOMAIN builds
      /\ \A c \in DOMAIN builds : builds'[c] = IF c = b THEN row2 ELSE builds[c]
  BY <1>4 DEF Typed
<1>6. claims <= claims + 1 /\ Len(builds) <= Len(builds)
  BY DEF Typed
<1>7. QED
  BY <1>1, <1>3, <1>5, <1>6 DEF LeasesFollow

LEMMA ReclaimLeases ==
    ASSUME Typed, NEW w \in Workers, Reclaim(w) PROVE LeasesFollow
<1> DEFINE again(b) == [builds[b] EXCEPT !.state = IF builds[b].cancel THEN "cancelled" ELSE "queued",
                                         !.token = 0, !.ver = @ + 1]
<1>1. /\ builds' = [b \in DOMAIN builds |-> IF b \notin Stale THEN builds[b] ELSE again(b)]
      /\ UNCHANGED <<fresh, claims>>
  BY DEF Reclaim
<1>2. ASSUME NEW b \in DOMAIN builds PROVE again(b).token = 0
  <2>1. PICK row \in Rows : row = builds[b]
    BY DEF Typed
  <2> DEFINE state == IF row.cancel THEN "cancelled" ELSE "queued"
  <2>2. again(b) = [row EXCEPT !.state = state, !.token = 0, !.ver = row.ver + 1]
    BY <2>1
  <2> HIDE DEF again, state
  <2>3. QED
    BY <2>1, <2>2 DEF Rows
<1> HIDE DEF again
<1>3. DOMAIN builds' = DOMAIN builds /\ Len(builds') = Len(builds)
  <2>1. PICK n \in Nat : n = Len(builds) /\ DOMAIN builds = 1..n
    BY DEF Typed
  <2>2. builds' = [b \in 1..n |-> IF b \notin Stale THEN builds[b] ELSE again(b)]
    BY <1>1, <2>1
  <2>3. QED
    BY <2>1, <2>2
<1>4. claims <= claims /\ Len(builds) <= Len(builds)
  BY DEF Typed
<1>5. QED
  BY <1>1, <1>2, <1>3, <1>4 DEF LeasesFollow

LEMMA CancelLeases ==
    ASSUME Typed, Cancel PROVE LeasesFollow
<1>1. UNCHANGED <<fresh, claims>>
  BY DEF Cancel
<1>2. CASE UNCHANGED builds
  BY <1>1, <1>2, LeasesStay
<1> DEFINE asked(b) == [builds[b] EXCEPT !.cancel = TRUE, !.ver = @ + 1]
<1>3. CASE builds' = [b \in DOMAIN builds |-> IF b \in Unfinished THEN asked(b) ELSE builds[b]]
  <2>1. ASSUME NEW b \in DOMAIN builds PROVE asked(b).token = builds[b].token
    <3>1. PICK row \in Rows : row = builds[b]
      BY DEF Typed
    <3>2. asked(b) = [row EXCEPT !.cancel = TRUE, !.ver = row.ver + 1]
      BY <3>1
    <3> HIDE DEF asked
    <3>3. QED
      BY <3>1, <3>2 DEF Rows
  <2> HIDE DEF asked
  <2>2. PICK n \in Nat : n = Len(builds) /\ DOMAIN builds = 1..n
    BY DEF Typed
  <2>3. builds' = [b \in 1..n |-> IF b \in Unfinished THEN asked(b) ELSE builds[b]]
    BY <1>3, <2>2
  <2>4. DOMAIN builds' = DOMAIN builds /\ Len(builds') = Len(builds)
    BY <2>2, <2>3
  <2>5. claims <= claims /\ Len(builds) <= Len(builds)
    BY DEF Typed
  <2>6. QED
    BY <1>1, <1>3, <2>1, <2>4, <2>5 DEF LeasesFollow
<1>4. QED
  BY <1>2, <1>3 DEF Cancel

LEMMA EnqueueLeases ==
    ASSUME Typed, Enqueue PROVE LeasesFollow
<1>1. PICK n \in Nat : n = Len(builds) /\ DOMAIN builds = 1..n
  BY DEF Typed
<1>2. /\ DOMAIN builds' = 1..(n + 1) /\ Len(builds') = n + 1 /\ builds'[n + 1] = NewBuild
      /\ \A c \in 1..n : builds'[c] = builds[c]
  BY <1>1 DEF Enqueue, Typed
<1>3. n <= n + 1 /\ claims <= claims
  BY DEF Typed
<1>4. UNCHANGED <<fresh, claims>> /\ NewBuild.token = 0
  BY DEF Enqueue, NewBuild
<1>5. QED
  BY <1>1, <1>2, <1>3, <1>4 DEF LeasesFollow

LEMMA WorkerLeases ==
    ASSUME BuildInv, NEW w \in Workers, WorkerStep(w) PROVE LeasesFollow
<1>1. Typed
  BY DEF BuildInv
<1>2. CASE Start(w)
  <2>1. held[w].b \in DOMAIN builds
    BY <1>2, Own DEF Start, Step
  <2>2. QED
    BY <1>1, <1>2, <2>1, MoveLeases, LeasesStay DEF Start
<1>3. CASE FinalWrite(w)
  <2>1. held[w].b \in DOMAIN builds
    BY <1>3, Own DEF FinalWrite, Step
  <2>2. QED
    BY <1>1, <1>3, <2>1, MoveLeases, LeasesStay DEF FinalWrite
<1>4. CASE Load(w) \/ Lease(w) \/ MarkStarted(w) \/ Plan(w) \/ Recover(w) \/ Decide(w)
           \/ CheckStep(w) \/ Begin(w) \/ Exec(w) \/ CancelStep(w)
  <2>1. UNCHANGED <<builds, fresh, claims>>
    BY <1>4 DEF Load, Lease, MarkStarted, Plan, Recover, Decide, CheckStep, Begin, Exec, CancelStep
  <2>2. QED
    BY <1>1, <2>1, LeasesStay
<1>5. CASE CheckResult(w) \/ Evidence(w) \/ Finish(w) \/ Record(w) \/ FinalCheck(w)
           \/ FailEvidence(w) \/ BlockEvidence(w) \/ PolicyEvidence(w)
           \/ FailCandidate(w) \/ BlockCandidate(w) \/ PolicyBlock(w) \/ Advance(w) \/ AutoApprove(w)
  <2>1. UNCHANGED <<builds, fresh, claims>>
    BY <1>5 DEF CheckResult, Evidence, Finish, Record, FinalCheck, EndCandidate,
                FailEvidence, BlockEvidence, PolicyEvidence, RecordEnd, FailCandidate, BlockCandidate, PolicyBlock, Advance, AutoApprove
  <2>2. QED
    BY <1>1, <2>1, LeasesStay
<1>6. QED
  BY <1>2, <1>3, <1>4, <1>5 DEF WorkerStep

LEMMA NextLeases == BuildInv /\ [Next]_vars => LeasesFollow
<1> SUFFICES ASSUME BuildInv, [Next]_vars PROVE LeasesFollow
  OBVIOUS
<1>1. Typed
  BY DEF BuildInv
<1>2. ASSUME NEW w \in Workers, Monitor(w) \/ LocalError(w) \/ Crash(w) PROVE LeasesFollow
  <2>1. UNCHANGED <<builds, fresh, claims>>
    BY <1>2 DEF Monitor, LocalError, Crash
  <2>2. QED
    BY <1>1, <2>1, LeasesStay
<1>3. ASSUME NEW b \in DOMAIN builds, Expire(b) \/ Suspend(b) PROVE LeasesFollow
  <2>1. UNCHANGED <<builds, claims>> /\ fresh' \subseteq fresh
    BY <1>3 DEF Expire, Suspend, RunOut
  <2>2. QED
    BY <1>1, <2>1, LeasesStay
<1>4. CASE Retry \/ EnqueueFails \/ UNCHANGED vars
  <2>1. UNCHANGED <<builds, fresh, claims>>
    BY <1>4 DEF Retry, EnqueueFails, vars
  <2>2. QED
    BY <1>1, <2>1, LeasesStay
<1>5. QED
  BY <1>1, <1>2, <1>3, <1>4, WorkerLeases, ClaimLeases, ReclaimLeases, CancelLeases, EnqueueLeases
     DEF Next

(* What a worker remembers stays within what there is.                     *)
LEMMA ClaimHeld ==
    ASSUME Typed, NEW w \in Workers, Claim(w), NEW v \in Workers
    PROVE  held'[v] = held[v] \/ (held'[v].b \in DOMAIN builds /\ held'[v].token = claims')
<1>1. PICK b \in DOMAIN builds :
        /\ claims' = claims + 1
        /\ held' = [held EXCEPT ![w] = [Idle EXCEPT !.pc = "load", !.b = b, !.token = claims + 1]]
  BY DEF Claim
<1> DEFINE g == [Idle EXCEPT !.pc = "load", !.b = b, !.token = claims + 1]
<1>2. g.b = b /\ g.token = claims + 1
  BY DEF Idle
<1>3. held' = [held EXCEPT ![w] = g]
  BY <1>1
<1> HIDE DEF g
<1>4. held'[v] = held[v] \/ held'[v] = g
  BY <1>3 DEF Typed
<1>5. QED
  BY <1>1, <1>2, <1>4

LEMMA NextHeld ==
    ASSUME Typed, [Next]_vars, NEW v \in Workers
    PROVE  \/ Remains(held'[v], held[v])
           \/ held'[v].b \in DOMAIN builds /\ held'[v].token = claims'
<1>1. ASSUME NEW w \in Workers, Claim(w)
      PROVE  \/ Remains(held'[v], held[v])
             \/ held'[v].b \in DOMAIN builds /\ held'[v].token = claims'
  BY <1>1, ClaimHeld DEF Remains, Keeps
<1>2. ASSUME NEW w \in Workers, Reclaim(w) PROVE UNCHANGED held
  BY <1>2 DEF Reclaim
<1>3. ASSUME NEW b \in DOMAIN builds, Expire(b) \/ Suspend(b) PROVE UNCHANGED held
  BY <1>3 DEF Expire, Suspend, RunOut
<1>4. CASE Cancel \/ Retry \/ Enqueue \/ EnqueueFails \/ UNCHANGED vars
  BY <1>4 DEF Cancel, Retry, Enqueue, EnqueueFails, vars, Remains, Keeps
<1>5. UNCHANGED held => Remains(held'[v], held[v])
  BY DEF Remains, Keeps
<1>6. QED
  BY <1>1, <1>2, <1>3, <1>4, <1>5, WorkerRemains DEF Next

(* The attempts of the steps.                                              *)
InBudget(plan) == \A s \in Steps : plan[s].att \in 1..MaxStepAttempts

LEMMA SetBudget ==
    ASSUME Typed, AttemptsBounded, NEW b \in DOMAIN builds, NEW s \in Steps, NEW r,
           SetStep(b, s, r), r.att = steps[b][s].att, NEW c \in DOMAIN builds
    PROVE  InBudget(steps'[c])
<1>1. steps'[c] = steps[c] \/ (c = b /\ steps'[c] = [steps[b] EXCEPT ![s] = r])
  BY DEF SetStep, Typed
<1>2. steps[b] \in [Steps -> StepRows] /\ InBudget(steps[b]) /\ InBudget(steps[c])
  BY RowTypes DEF AttemptsBounded, InBudget
<1>3. InBudget([steps[b] EXCEPT ![s] = r])
  BY <1>2 DEF InBudget
<1>4. QED
  BY <1>1, <1>2, <1>3

LEMMA WriteBudget ==
    ASSUME BuildInv, AttemptsBounded, NEW w \in Workers, held[w].pc \in InStep,
           NEW allowed, NEW next, NEW r, r.att = held[w].rec.att,
           allowed => steps[held[w].b][held[w].step].att = held[w].rec.att,
           WriteStep(w, allowed, r, next), NEW c \in DOMAIN builds
    PROVE  InBudget(steps'[c])
<1>1. held[w].b \in DOMAIN builds /\ held[w].step \in Steps
  BY Own DEF InStep, PlanSound
<1>2. UNCHANGED steps => InBudget(steps'[c])
  BY DEF AttemptsBounded, InBudget
<1>3. CASE allowed /\ SetStep(held[w].b, held[w].step, r)
  BY <1>1, <1>3, SetBudget DEF BuildInv
<1>4. QED
  BY <1>2, <1>3 DEF WriteStep

LEMMA RecoverBudget ==
    ASSUME BuildInv, AttemptsBounded, NEW w \in Workers, Recover(w), NEW c \in DOMAIN builds
    PROVE  InBudget(steps'[c])
<1>1. PICK h \in Memory, plan \in [Steps -> StepRows] :
        h = held[w] /\ plan = steps[h.b] /\ h.b \in DOMAIN builds
  BY Own DEF Recover, Step
<1>2. UNCHANGED steps => InBudget(steps'[c])
  BY DEF AttemptsBounded, InBudget
<1> DEFINE again(s) == [NewStep EXCEPT !.att = plan[s].att + 1]
<1> DEFINE plan2 == [s \in Steps |-> IF Retryable(plan[s]) THEN again(s) ELSE plan[s]]
<1>3. CASE steps' = [steps EXCEPT ![h.b] = plan2]
  <2>1. ASSUME NEW s \in Steps PROVE again(s).att = plan[s].att + 1
    BY DEF NewStep
  <2>2. \A s \in Steps : plan2[s] = IF Retryable(plan[s]) THEN again(s) ELSE plan[s]
    OBVIOUS
  <2> HIDE DEF again, plan2
  <2>3. InBudget(plan) /\ InBudget(steps[c])
    BY <1>1 DEF AttemptsBounded, InBudget
  <2>4. InBudget(plan2)
    BY <2>1, <2>2, <2>3, ReleaseAssumption DEF InBudget, Retryable, ReleaseAssumption
  <2>5. steps'[c] = steps[c] \/ steps'[c] = plan2
    BY <1>1, <1>3 DEF BuildInv, Typed
  <2>6. QED
    BY <2>3, <2>4, <2>5
<1>4. QED
  BY <1>1, <1>2, <1>3 DEF Recover

LEMMA WorkerBudget ==
    ASSUME BuildInv, AttemptsBounded, NEW w \in Workers, WorkerStep(w), NEW c \in DOMAIN builds
    PROVE  InBudget(steps'[c])
<1>1. UNCHANGED steps => InBudget(steps'[c])
  BY DEF AttemptsBounded, InBudget
<1>2. held[w] \in Memory
  BY DEF BuildInv, Typed
<1>3. held[w].rec \in StepRows
  BY <1>2 DEF Memory
<1>4. CASE Begin(w)
  <2>1. [held[w].rec EXCEPT !.state = "running", !.ver = @ + 1].att = held[w].rec.att
    BY <1>3 DEF StepRows
  <2>2. held[w].pc \in InStep
    BY <1>4 DEF Begin, Step, InStep
  <2>3. QED
    BY <1>1, <1>4, <2>1, <2>2, WriteBudget DEF Begin, MayMoveStep
<1>5. CASE Evidence(w)
  <2>1. [held[w].rec EXCEPT !.out = held[w].out, !.ver = @ + 1].att = held[w].rec.att
    BY <1>3 DEF StepRows
  <2>2. held[w].pc \in InStep
    BY <1>5 DEF Evidence, Step, InStep
  <2>3. QED
    BY <1>5, <2>1, <2>2, WriteBudget DEF Evidence
<1>6. CASE Finish(w)
  <2>1. PICK to, next : WriteStep(w, MayMoveStep(held[w].b, held[w].step, held[w].rec, to),
                                  [held[w].rec EXCEPT !.state = to, !.ver = @ + 1], next)
    BY <1>6 DEF Finish
  <2>2. [held[w].rec EXCEPT !.state = to, !.ver = @ + 1].att = held[w].rec.att
    BY <1>3 DEF StepRows
  <2>3. held[w].pc \in InStep
    BY <1>6 DEF Finish, Step, InStep
  <2>4. QED
    BY <2>1, <2>2, <2>3, WriteBudget DEF MayMoveStep
<1>7. CASE CancelStep(w)
  <2>1. PICK b \in DOMAIN builds, s \in Steps : b = held[w].b /\ s = held[w].step
    BY <1>7, Own DEF CancelStep, Step, PlanSound, InStep
  <2>2. CASE SetStep(b, s, [steps[b][s] EXCEPT !.state = "cancelled", !.ver = @ + 1])
    <3>1. steps[b][s] \in StepRows
      BY RowTypes DEF BuildInv
    <3>2. [steps[b][s] EXCEPT !.state = "cancelled", !.ver = @ + 1].att = steps[b][s].att
      BY <3>1 DEF StepRows
    <3>3. QED
      BY <2>2, <3>2, SetBudget DEF BuildInv
  <2>3. QED
    BY <1>1, <1>7, <2>1, <2>2 DEF CancelStep
<1>8. CASE Load(w) \/ Lease(w) \/ Start(w) \/ MarkStarted(w) \/ Plan(w) \/ Decide(w)
           \/ CheckStep(w) \/ Exec(w) \/ CheckResult(w) \/ Record(w)
  BY <1>1, <1>8 DEF Load, Lease, Start, MarkStarted, Plan, Decide, CheckStep, Exec, CheckResult, Record
<1>9. CASE FinalCheck(w) \/ FinalWrite(w) \/ FailCandidate(w) \/ BlockCandidate(w)
           \/ PolicyBlock(w) \/ Advance(w) \/ AutoApprove(w)
           \/ FailEvidence(w) \/ BlockEvidence(w) \/ PolicyEvidence(w)
  BY <1>1, <1>9 DEF FinalCheck, FinalWrite, FailEvidence, BlockEvidence, PolicyEvidence, RecordEnd,
                    FailCandidate, BlockCandidate, PolicyBlock, Advance, AutoApprove, EndCandidate
<1>10. QED
  BY <1>4, <1>5, <1>6, <1>7, <1>8, <1>9, RecoverBudget DEF WorkerStep

LEMMA NewBudget == InBudget(NewPlan)
<1>1. 1 \in 1..MaxStepAttempts
  BY ReleaseAssumption DEF ReleaseAssumption
<1>2. \A s \in Steps : NewPlan[s].att = 1
  BY DEF NewPlan, NewStep
<1>3. QED
  BY <1>1, <1>2 DEF InBudget

LEMMA NextBudget == BuildInv /\ BuildInv' /\ AttemptsBounded /\ [Next]_vars => AttemptsBounded'
<1> SUFFICES ASSUME BuildInv, BuildInv', AttemptsBounded, [Next]_vars, NEW c \in DOMAIN builds'
             PROVE  InBudget(steps'[c])
  BY DEF AttemptsBounded, InBudget
<1>1. c \in DOMAIN builds /\ UNCHANGED steps => InBudget(steps'[c])
  BY DEF AttemptsBounded, InBudget
<1>2. CASE Enqueue
  <2>1. PICK n \in Nat : n = Len(builds) /\ DOMAIN builds = 1..n /\ Len(steps) = n
    BY DEF BuildInv, Typed
  <2>2. /\ DOMAIN builds' = 1..(n + 1) /\ steps'[n + 1] = NewPlan
        /\ \A d \in 1..n : steps'[d] = steps[d]
    BY <1>2, <2>1 DEF Enqueue, BuildInv, Typed
  <2>3. QED
    BY <2>1, <2>2, NewBudget DEF AttemptsBounded, InBudget
<1>3. CASE ~Enqueue
  <2>1. c \in DOMAIN builds
    <3>1. CASE UNCHANGED steps \/ Len(steps') = Len(steps)
      BY <3>1 DEF BuildInv, Typed
    <3>2. ASSUME NEW w \in Workers, WorkerStep(w) PROVE Len(steps') = Len(steps)
      <4>1. CASE Begin(w) \/ Evidence(w) \/ Finish(w)
        BY <4>1 DEF Begin, Evidence, Finish, WriteStep, SetStep, BuildInv, Typed
      <4>2. CASE CancelStep(w) \/ Recover(w)
        BY <4>2 DEF CancelStep, Recover, SetStep, BuildInv, Typed
      <4>3. CASE Load(w) \/ Lease(w) \/ Start(w) \/ MarkStarted(w) \/ Plan(w) \/ Decide(w)
                 \/ CheckStep(w) \/ Exec(w) \/ CheckResult(w) \/ Record(w)
        BY <4>3 DEF Load, Lease, Start, MarkStarted, Plan, Decide, CheckStep, Exec, CheckResult, Record
      <4>4. CASE FinalCheck(w) \/ FinalWrite(w) \/ FailCandidate(w) \/ BlockCandidate(w)
                 \/ PolicyBlock(w) \/ Advance(w) \/ AutoApprove(w)
                 \/ FailEvidence(w) \/ BlockEvidence(w) \/ PolicyEvidence(w)
        BY <4>4 DEF FinalCheck, FinalWrite, FailEvidence, BlockEvidence, PolicyEvidence, RecordEnd,
                    FailCandidate, BlockCandidate, PolicyBlock, Advance, AutoApprove, EndCandidate
      <4>5. QED
        BY <3>2, <4>1, <4>2, <4>3, <4>4 DEF WorkerStep
    <3>3. ASSUME NEW w \in Workers, Reclaim(w) \/ Claim(w) \/ Monitor(w) \/ LocalError(w) \/ Crash(w)
          PROVE  UNCHANGED steps
      BY <3>3 DEF Reclaim, Claim, Monitor, LocalError, Crash
    <3>4. ASSUME NEW b \in DOMAIN builds, Expire(b) \/ Suspend(b) PROVE UNCHANGED steps
      BY <3>4 DEF Expire, Suspend, RunOut
    <3>5. CASE Cancel \/ Retry \/ EnqueueFails \/ UNCHANGED vars
      BY <3>1, <3>5 DEF Cancel, Retry, EnqueueFails, vars
    <3>6. QED
      BY <1>3, <3>1, <3>2, <3>3, <3>4, <3>5 DEF Next
  <2>2. ASSUME NEW w \in Workers, Reclaim(w) \/ Claim(w) \/ Monitor(w) \/ LocalError(w) \/ Crash(w)
        PROVE  UNCHANGED steps
    BY <2>2 DEF Reclaim, Claim, Monitor, LocalError, Crash
  <2>3. ASSUME NEW b \in DOMAIN builds, Expire(b) \/ Suspend(b) PROVE UNCHANGED steps
    BY <2>3 DEF Expire, Suspend, RunOut
  <2>4. CASE Cancel \/ Retry \/ EnqueueFails \/ UNCHANGED vars
    BY <1>1, <2>1, <2>4 DEF Cancel, Retry, EnqueueFails, vars
  <2>5. QED
    BY <1>1, <1>3, <2>1, <2>2, <2>3, <2>4, WorkerBudget DEF Next
<1>4. QED
  BY <1>2, <1>3

TypeInv == BuildInv /\ Bounded

LEMMA InitTypes == Init => TypeInv
<1> SUFFICES ASSUME Init PROVE TypeInv
  OBVIOUS
<1>1. /\ DOMAIN builds = {1} /\ Len(builds) = 1 /\ builds[1].token = 0 /\ steps[1] = NewPlan
      /\ claims = 0 /\ fresh = {} /\ \A w \in Workers : held[w].b = 0 /\ held[w].token = 0
  BY DEF Init, NewBuild, Idle
<1>2. QED
  BY <1>1, InitBuild, NewBudget
     DEF TypeInv, Bounded, LeasesBounded, WorkersBounded, AttemptsBounded, InBudget

LEMMA NextTypes == TypeInv /\ [Next]_vars => TypeInv'
<1> SUFFICES ASSUME TypeInv, [Next]_vars PROVE TypeInv'
  OBVIOUS
<1>1. BuildInv /\ BuildInv' /\ LeasesFollow
  BY NextBuild, NextLeases DEF TypeInv
<1>2. Typed /\ Typed'
  BY <1>1 DEF BuildInv
<1>3. /\ claims \in Nat /\ claims' \in Nat /\ claims <= claims' /\ 0 <= claims'
      /\ Len(builds) \in Nat /\ Len(builds') \in Nat /\ Len(builds) <= Len(builds')
      /\ DOMAIN builds = 1..Len(builds)
  BY <1>1, <1>2 DEF Typed, LeasesFollow
<1>4. LeasesBounded'
  <2>1. fresh' \subseteq DOMAIN builds'
    BY <1>1 DEF LeasesFollow, TypeInv, Bounded, LeasesBounded
  <2>2. ASSUME NEW b \in DOMAIN builds' PROVE builds'[b].token <= claims'
    <3>1. CASE builds'[b].token \in {0, claims'}
      BY <1>3, <3>1
    <3>2. CASE b \in DOMAIN builds /\ builds'[b].token = builds[b].token
      <4>1. builds[b].token <= claims
        BY <3>2 DEF TypeInv, Bounded, LeasesBounded
      <4>2. builds[b].token \in Nat
        BY <1>2, <3>2, RowTypes DEF Rows
      <4>3. QED
        BY <1>3, <3>2, <4>1, <4>2
    <3>3. QED
      BY <1>1, <3>1, <3>2 DEF LeasesFollow
  <2>3. QED
    BY <2>1, <2>2 DEF LeasesBounded
<1>5. WorkersBounded'
  <2> SUFFICES ASSUME NEW v \in Workers PROVE held'[v].b <= Len(builds') /\ held'[v].token <= claims'
    BY DEF WorkersBounded
  <2>1. PICK h \in Memory, g \in Memory : h = held[v] /\ g = held'[v]
    BY <1>2 DEF Typed
  <2>2. /\ h.b \in Nat /\ h.token \in Nat /\ g.b \in Nat /\ g.token \in Nat
        /\ h.b <= Len(builds) /\ h.token <= claims
    BY <2>1 DEF Memory, TypeInv, Bounded, WorkersBounded
  <2>3. \/ g.b = h.b /\ g.token = h.token
        \/ g.b = 0 /\ g.token = 0
        \/ g.b \in DOMAIN builds /\ g.token = claims'
    BY <1>2, <2>1, NextHeld DEF Remains, Keeps, Idle
  <2>4. QED
    BY <1>3, <2>1, <2>2, <2>3
<1>6. AttemptsBounded'
  BY <1>1, NextBudget DEF TypeInv, Bounded
<1>7. QED
  BY <1>1, <1>4, <1>5, <1>6 DEF TypeInv, Bounded

(* Rows, tokens, leases and attempts keep their types: no step has more    *)
(* attempts than the budget (recoverOrRetrySteps), and no worker or row    *)
(* names a lease that was not given out (ClaimNextBuildRun).               *)
THEOREM ReleaseTypeHolds == Spec => []TypeOK
<1>1. TypeInv => TypeOK
  <2> SUFFICES ASSUME TypeInv PROVE TypeOK
    OBVIOUS
  <2>1. Typed /\ LeasesBounded /\ WorkersBounded /\ AttemptsBounded
    BY DEF TypeInv, BuildInv, Bounded
  <2>2. DOMAIN CandidateMoves = CandStates
    BY DEF CandidateMoves, CandStates
  <2>3. ASSUME NEW b \in DOMAIN builds
        PROVE  builds[b] \in [state : DOMAIN BuildMoves, ver : Nat, token : 0..claims, cancel : BOOLEAN]
    <3>1. builds[b] \in Rows /\ builds[b].token <= claims
      BY <2>1, RowTypes DEF LeasesBounded
    <3>2. builds[b].token \in 0..claims
      BY <2>1, <3>1 DEF Rows, Typed
    <3>3. DOMAIN BuildMoves = {"queued", "claimed", "running", "completed", "failed", "cancelled"}
      BY DEF BuildMoves
    <3>4. QED
      BY <3>1, <3>2, <3>3 DEF Rows
  <2>4. ASSUME NEW w \in Workers PROVE held[w].b \in 0..Len(builds) /\ held[w].token \in 0..claims
    <3>1. PICK h \in Memory : h = held[w]
      BY <2>1 DEF Typed
    <3>2. h.b \in Nat /\ h.token \in Nat
      BY DEF Memory
    <3>3. QED
      BY <2>1, <3>1, <3>2 DEF WorkersBounded, Typed
  <2>5. QED
    BY <2>1, <2>2, <2>3, <2>4 DEF TypeOK, Typed, Keys, LeasesBounded, AttemptsBounded
<1>2. QED
  BY <1>1, InitTypes, NextTypes, PTL DEF Spec

=============================================================================
