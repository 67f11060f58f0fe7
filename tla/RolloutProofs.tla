---------------------------- MODULE RolloutProofs --------------------------
(***************************************************************************)
(* For every number of cohorts and every set of controllers, snapshots and *)
(* bounds: the new release is deployed cohort after cohort, the prior one  *)
(* restored in the reverse order, and a rollout that ended has its cohorts *)
(* deployed as their rows say.                                             *)
(*                                                                         *)
(* A call that deploys is fenced by nothing.  What orders it is what the   *)
(* controller read before: a cohort it saw completed never leaves the      *)
(* states that follow (Done), and one it saw rolled back stays so.  That   *)
(* in turn rests on what a stale controller can still write, since its     *)
(* cohort writes are compared with the cohort's version only.              *)
(*                                                                         *)
(* Where the deployment ends (EndInv, in the second half) rests on who may *)
(* still call the runtime.  While no replaced controller has, only the     *)
(* owner does; the others write rows they know, of cohorts that the owner  *)
(* has read as going the same way.                                         *)
(***************************************************************************)
EXTENDS Rollout, TLAPS, WellFoundedInduction

Early    == {"pending", "preparing", "canary"}
BackOnly == {"rolling_back", "rolled_back", "failed"}
Done     == {"completed"} \cup Restoring

\* The rollout has passed its canary, and a resume does not lead before it.
Past == /\ roll \notin Early
        /\ roll = "paused" => boundary \notin Early /\ asked \notin Early

Judging == {"health", "record", "settle"}
Work    == {"assign", "deploy", "readback", "status", "accept"} \cup Judging
Active  == Work \cup {"lifecycle", "move"}

Memory ==
  [pc : Active \cup {"idle", "end", "load"}, ok : BOOLEAN, st : RolloutStates, cur : BOOLEAN,
   copy : [Cohorts -> CohortStates], known : SUBSET Cohorts, c : Cohorts,
   act : {"none", "pause", "resume", "cancel"}, todo : SUBSET Cohorts,
   to : RolloutStates \cup {"none"},
   seen : CohortStates \cup {"none", "bad", "pending", "converged"}]

\* What a judged cohort may become.
Outcome(h) == CASE Back(h)         -> {"rolled_back", "reconciliation_failed"}
                [] h.st = "canary" -> {"healthy"}
                [] OTHER           -> {"completed"}

(* The memory of a pass by itself: where it is, in which state of the      *)
(* rollout, and that the cohorts before the one it works on have arrived.  *)
Placed(h) ==
  /\ h.st \in Resumable \cup {"paused", "rolling_back"}
  /\ h.st = "paused"  => h.pc = "lifecycle" /\ h.to = "none"
  /\ h.st = "pending" => h.pc \in {"lifecycle", "move"} /\ h.to # "none"
  /\ ~Back(h) => \A c \in Cohorts : h.copy[c] \notin Restoring
  /\ h.st \in Early => \A c \in Cohorts : h.copy[c] # "completed"
  /\ h.pc \in Work =>
       IF Back(h)
       THEN /\ h.copy[h.c] # "rolled_back"
            /\ \A c \in Cohorts : h.c < c => h.copy[c] = "rolled_back"
       ELSE \A c \in Cohorts : c < h.c => h.copy[c] = "completed"
  /\ h.pc = "assign" => h.copy[h.c] \notin Accepted(h)
  /\ h.pc \in {"deploy", "readback", "status", "accept"} => h.copy[h.c] = Assigning(h)
  /\ h.pc \in Judging => h.st # "preparing"
  /\ h.to \in {"completed", "rolled_back"} => h.pc = "move" /\ \A c \in Cohorts : h.copy[c] = h.to
  /\ h.pc = "settle"  => h.seen \in Outcome(h)

(* The memory of a pass against the rows: rl and rw are the states of the  *)
(* rollout and of the cohorts, past is Past.                               *)
Faithful(h, rl, rw, past) ==
  /\ h.cur => h.st = rl
  /\ h.pc # "move" => \A c \in h.known : rw[c] = h.copy[c]
  /\ \A c \in Cohorts : /\ h.copy[c] \in Done => rw[c] \in Done
                        /\ h.copy[c] = "rolled_back" => rw[c] = "rolled_back"
  /\ Back(h) => rl \in BackOnly
  /\ h.st \in {"verifying", "rolling_out"} => past

Sound(h, rl, rw, past) == h.pc \in Active => Placed(h) /\ Faithful(h, rl, rw, past)

Rows ==
  /\ roll \in RolloutStates
  /\ asked \in Forward \cup {"none"}
  /\ rows \in [Cohorts -> CohortStates]
  /\ dep \in [Cohorts -> [op : {"none", "to", "from"},
                          ctl : {"none", "resumed", "paused", "cancelled"}]]
  /\ roll \notin BackOnly => \A c \in Cohorts : rows[c] \notin Restoring
  /\ \A c \in Cohorts : rows[c] = "completed" => Past

Memories ==
  /\ held \in [Controllers -> Memory]
  /\ \A w \in Controllers : Sound(held[w], roll, rows, Past)

OrderInv == Rows /\ Memories /\ DeployedInOrder /\ EndsInRows

-----------------------------------------------------------------------------
(* Operators of the pass *)

(* Every nonempty set of cohorts has a first and a last one.               *)
LEMMA LeastExists ==
    ASSUME NEW S \in SUBSET Nat, S # {} PROVE \E x \in S : \A y \in S : x <= y
<1>1. PICK x \in S : \A y \in S : ~(<<y, x>> \in OpToRel(<, Nat))
  BY NatLessThanWellFounded, WFMin, Zenon
<1>2. \A y \in S : ~(y < x)
  BY <1>1, Zenon DEF OpToRel
<1>3. QED
  BY <1>2

LEMMA FirstIs ==
    ASSUME NEW S \in SUBSET Cohorts, S # {}
    PROVE  First(S) \in S /\ \A d \in S : First(S) <= d
<1>1. S \in SUBSET Nat
  BY RolloutAssumption DEF Cohorts, RolloutAssumption
<1>2. \E c \in S : \A d \in S : c <= d
  BY <1>1, LeastExists
<1>3. QED
  BY <1>2 DEF First

LEMMA LastIs ==
    ASSUME NEW S \in SUBSET Cohorts, S # {}
    PROVE  Last(S) \in S /\ \A d \in S : d <= Last(S)
<1> DEFINE T == {N - c : c \in S}
<1>1. N \in Nat /\ \A c \in S : c \in Nat /\ N - c \in Nat
  BY RolloutAssumption DEF Cohorts, RolloutAssumption
<1>2. T \in SUBSET Nat /\ T # {}
  BY <1>1
<1>3. PICK x \in T : \A y \in T : x <= y
  BY <1>2, LeastExists
<1>4. PICK c \in S : x = N - c
  BY <1>3
<1>5. \A d \in S : d <= c
  BY <1>1, <1>3, <1>4
<1>6. QED
  BY <1>5 DEF Last

(* The part of Placed that the reads of a pass decide.                     *)
Based(h) ==
  /\ h.st \in Resumable \cup {"paused", "rolling_back"}
  /\ h.st = "paused"  => h.to = "none"
  /\ h.st = "pending" => h.to # "none"
  /\ h.to \notin {"completed", "rolled_back"}
  /\ ~Back(h) => \A c \in Cohorts : h.copy[c] \notin Restoring
  /\ h.st \in Early => \A c \in Cohorts : h.copy[c] # "completed"

SameReading(g, h) ==
  g.st = h.st /\ g.cur = h.cur /\ g.copy = h.copy /\ g.known = h.known

Follows(g, h) ==
  /\ g \in Memory
  /\ g.pc \in Active => Placed(g) /\ SameReading(g, h)

LEMMA IdleIn ==
    Idle \in Memory /\ Ended \in Memory /\ Idle.pc = "idle" /\ Ended.pc = "end"
<1>1. 1 \in Cohorts
  BY RolloutAssumption DEF Cohorts, RolloutAssumption
<1>2. Idle \in Memory /\ Idle.pc = "idle"
  BY <1>1 DEF Idle, Memory, RolloutStates, Claimable, Resumable, CohortStates
<1>3. QED
  BY <1>2 DEF Ended, Memory, Idle

(* Work on a cohort is placed when the ones before it have arrived.        *)
LEMMA OnCohortFollows ==
    ASSUME NEW h \in Memory, Based(h), h.to = "none", h.st # "paused", NEW c \in Cohorts,
           IF Back(h)
           THEN /\ h.copy[c] # "rolled_back"
                /\ \A d \in Cohorts : c < d => h.copy[d] = "rolled_back"
           ELSE \A d \in Cohorts : d < c => h.copy[d] = "completed"
    PROVE  Follows(OnCohort(h, c), h)
<1> DEFINE g == [h EXCEPT !.c = c]
<1>1. g \in Memory /\ g.c = c /\ g.to = "none" /\ SameReading(g, h)
  BY DEF Memory, SameReading
<1>2. OnCohort(h, c) = IF h.copy[c] \in Accepted(h) THEN AfterAssign(g)
                       ELSE [g EXCEPT !.pc = IF h.copy[c] = Assigning(h) THEN "deploy" ELSE "assign"]
  BY DEF OnCohort
<1> HIDE DEF g
<1>3. CASE h.copy[c] \in Accepted(h) /\ h.st = "preparing"
  <2> DEFINE k == [g EXCEPT !.pc = "move", !.to = "canary"]
  <2>1. OnCohort(h, c) = k
    BY <1>1, <1>2, <1>3 DEF AfterAssign, SameReading
  <2>2. k \in Memory /\ k.pc = "move" /\ k.to = "canary" /\ SameReading(k, h)
    BY ZenonT(30), <1>1 DEF Memory, SameReading, Active, RolloutStates, Claimable, Resumable, Forward
  <2> HIDE DEF k
  <2>3. Placed(k)
    BY <1>3, <2>2 DEF Placed, Based, SameReading, Back, Work, Judging
  <2>4. QED
    BY <2>1, <2>2, <2>3 DEF Follows
<1>4. CASE h.copy[c] \in Accepted(h) /\ h.st # "preparing"
  <2> DEFINE k == [g EXCEPT !.pc = "health"]
  <2>1. OnCohort(h, c) = k
    BY <1>1, <1>2, <1>4 DEF AfterAssign, SameReading
  <2>2. k \in Memory /\ k.pc = "health" /\ k.to = "none" /\ k.c = c /\ SameReading(k, h)
    BY <1>1 DEF Memory, SameReading, Active, Work, Judging
  <2> HIDE DEF k
  <2>3. Placed(k)
    BY <1>4, <2>2 DEF Placed, Based, SameReading, Back, Work, Judging, Accepted
  <2>4. QED
    BY <2>1, <2>2, <2>3 DEF Follows
<1>5. CASE h.copy[c] \notin Accepted(h) /\ h.copy[c] = Assigning(h)
  <2> DEFINE k == [g EXCEPT !.pc = "deploy"]
  <2>1. OnCohort(h, c) = k
    BY <1>2, <1>5
  <2>2. k \in Memory /\ k.pc = "deploy" /\ k.to = "none" /\ k.c = c /\ SameReading(k, h)
    BY <1>1 DEF Memory, SameReading, Active, Work
  <2> HIDE DEF k
  <2>3. Placed(k)
    BY <1>5, <2>2 DEF Placed, Based, SameReading, Back, Work, Judging, Assigning
  <2>4. QED
    BY <2>1, <2>2, <2>3 DEF Follows
<1>6. CASE h.copy[c] \notin Accepted(h) /\ h.copy[c] # Assigning(h)
  <2> DEFINE k == [g EXCEPT !.pc = "assign"]
  <2>1. OnCohort(h, c) = k
    BY <1>2, <1>6
  <2>2. k \in Memory /\ k.pc = "assign" /\ k.to = "none" /\ k.c = c /\ SameReading(k, h)
    BY <1>1 DEF Memory, SameReading, Active, Work
  <2> HIDE DEF k
  <2>3. Placed(k)
    BY <1>6, <2>2 DEF Placed, Based, SameReading, Back, Work, Judging, Accepted
  <2>4. QED
    BY <2>1, <2>2, <2>3 DEF Follows
<1>7. QED
  BY <1>3, <1>4, <1>5, <1>6

(* Whatever a pass does next, it is placed.                                *)
LEMMA OnwardFollows ==
    ASSUME NEW h \in Memory, Based(h) PROVE Follows(Onward(h), h)
<1>1. CASE h.todo # {}
  <2> DEFINE k == [h EXCEPT !.pc = "lifecycle"]
  <2>1. Onward(h) = k
    BY <1>1 DEF Onward
  <2>2. k \in Memory /\ k.pc = "lifecycle" /\ k.to = h.to /\ SameReading(k, h)
    BY DEF Memory, SameReading, Active
  <2>3. Placed(k)
    BY <2>2 DEF Placed, Based, SameReading, Back, Work, Judging
  <2>4. QED
    BY <2>1, <2>2, <2>3 DEF Follows
<1>2. CASE h.todo = {} /\ h.to # "none"
  <2> DEFINE k == [h EXCEPT !.pc = "move"]
  <2>1. Onward(h) = k
    BY <1>2 DEF Onward
  <2>2. k \in Memory /\ k.pc = "move" /\ k.to = h.to /\ SameReading(k, h)
    BY DEF Memory, SameReading, Active
  <2>3. Placed(k)
    BY <1>2, <2>2 DEF Placed, Based, SameReading, Back, Work, Judging
  <2>4. QED
    BY <2>1, <2>2, <2>3 DEF Follows
<1>3. CASE h.todo = {} /\ h.to = "none" /\ h.st = "paused"
  BY <1>3, IdleIn DEF Onward, Follows, Active, Work, Judging
<1>4. CASE h.todo = {} /\ h.to = "none" /\ h.st # "paused" /\ Left(h) # {}
  <2>1. Left(h) \in SUBSET Cohorts
    BY RolloutAssumption DEF Left, Cohorts, RolloutAssumption
  <2>2. \A d \in Cohorts : d \in Nat /\ 1 <= d
    BY RolloutAssumption DEF Cohorts, RolloutAssumption
  <2>3. PICK f, l \in Left(h) : /\ f = First(Left(h)) /\ l = Last(Left(h))
                                /\ f \in Cohorts /\ l \in Cohorts
                                /\ \A d \in Left(h) : f <= d /\ d <= l
    BY <1>4, <2>1, FirstIs, LastIs
  <2>4. CASE Back(h)
    <3>1. Left(h) = {d \in Cohorts : h.copy[d] # "rolled_back"}
      BY <2>4 DEF Left, Back
    <3>2. \A d \in Cohorts : l < d => h.copy[d] = "rolled_back"
      <4> SUFFICES ASSUME NEW d \in Cohorts, l < d, h.copy[d] # "rolled_back" PROVE FALSE
        OBVIOUS
      <4>1. d <= l
        BY <2>3, <3>1
      <4>2. QED
        BY <2>2, <2>3, <4>1
    <3>3. Onward(h) = OnCohort(h, l)
      BY <1>4, <2>3, <2>4 DEF Onward
    <3>4. QED
      BY <1>4, <2>1, <2>4, <3>1, <3>2, <3>3, OnCohortFollows
  <2>5. CASE ~Back(h)
    <3>1. \A d \in Cohorts : d < f => h.copy[d] = "completed"
      <4>1. CASE h.st = "rolling_out"
        <5>1. Left(h) = {d \in Cohorts : h.copy[d] # "completed"}
          BY <4>1 DEF Left
        <5> SUFFICES ASSUME NEW d \in Cohorts, d < f, h.copy[d] # "completed" PROVE FALSE
          OBVIOUS
        <5>2. f <= d
          BY <2>3, <5>1
        <5>3. QED
          BY <2>2, <2>3, <5>2
      <4>2. CASE h.st # "rolling_out"
        <5>1. Left(h) = {1}
          BY <2>5, <4>2 DEF Left, Back
        <5>2. QED
          BY <2>2, <2>3, <5>1
      <4>3. QED
        BY <4>1, <4>2
    <3>2. Onward(h) = OnCohort(h, f)
      BY <1>4, <2>3, <2>5 DEF Onward
    <3>3. QED
      BY <1>4, <2>1, <2>5, <3>1, <3>2, OnCohortFollows
  <2>6. QED
    BY <2>4, <2>5
<1>5. CASE h.todo = {} /\ h.to = "none" /\ h.st # "paused" /\ Left(h) = {}
  <2>0. PICK to \in {"rolled_back", "completed"} :
          to = IF Back(h) THEN "rolled_back" ELSE "completed"
    OBVIOUS
  <2> DEFINE k == [h EXCEPT !.pc = "move", !.to = to]
  <2>1. Onward(h) = k
    BY <1>5, <2>0 DEF Onward
  <2>2. k \in Memory /\ k.pc = "move" /\ k.to = to /\ SameReading(k, h)
    BY DEF Memory, SameReading, Active, RolloutStates
  <2> HIDE DEF k
  <2>3. h.st \in {"rolling_back", "rolling_out"}
    BY <1>5 DEF Left
  <2>5. \A c \in Cohorts : h.copy[c] = to
    <3>1. CASE h.st = "rolling_back"
      <4>1. Left(h) = {c \in Cohorts : h.copy[c] # "rolled_back"} /\ to = "rolled_back"
        BY <2>0, <3>1 DEF Left, Back
      <4>2. QED
        BY <1>5, <4>1
    <3>2. CASE h.st = "rolling_out"
      <4>1. Left(h) = {c \in Cohorts : h.copy[c] # "completed"} /\ to = "completed"
        BY <2>0, <3>2 DEF Left, Back
      <4>2. QED
        BY <1>5, <4>1
    <3>3. QED
      BY <2>3, <3>1, <3>2
  <2>6. Placed(k)
    BY <2>2, <2>3, <2>5 DEF Placed, Based, SameReading, Back, Work, Judging, Resumable, Forward, Early
  <2>7. QED
    BY <2>1, <2>2, <2>6 DEF Follows
<1>6. QED
  BY <1>1, <1>2, <1>3, <1>4, <1>5

-----------------------------------------------------------------------------
(* Steps of the rows, seen from a memory *)

Advances ==
  /\ roll \in BackOnly => roll' \in BackOnly
  /\ roll' \in {"completed", "rolled_back"} => roll' = roll \/ \A c \in Cohorts : rows'[c] = roll'
  /\ Past => Past'
  /\ \A c \in Cohorts : /\ rows[c] \in Done => rows'[c] \in Done
                        /\ rows[c] = "rolled_back" => rows'[c] = "rolled_back"

(* What a pass remembers stays true while the rows advance, as long as the *)
(* versions it trusts are the ones that did not move.                      *)
LEMMA SoundKept ==
    ASSUME NEW h \in Memory, NEW rl, NEW rl2, NEW rw, NEW rw2,
           NEW past \in BOOLEAN, NEW past2 \in BOOLEAN, Sound(h, rl, rw, past),
           h.cur => rl2 = rl, \A c \in h.known : rw2[c] = rw[c],
           rl \in BackOnly => rl2 \in BackOnly, past => past2,
           \A c \in Cohorts : /\ rw[c] \in Done => rw2[c] \in Done
                              /\ rw[c] = "rolled_back" => rw2[c] = "rolled_back"
    PROVE  Sound(h, rl2, rw2, past2)
<1> SUFFICES ASSUME h.pc \in Active PROVE Placed(h) /\ Faithful(h, rl2, rw2, past2)
  BY DEF Sound
<1>1. Placed(h) /\ Faithful(h, rl, rw, past)
  BY DEF Sound
<1>2. h.cur \in BOOLEAN /\ h.known \subseteq Cohorts
  BY DEF Memory
<1>3. \A c \in Cohorts : /\ h.copy[c] \in Done => rw2[c] \in Done
                         /\ h.copy[c] = "rolled_back" => rw2[c] = "rolled_back"
  BY <1>1 DEF Faithful
<1>4. h.pc # "move" => \A c \in h.known : rw2[c] = h.copy[c]
  BY <1>1, <1>2 DEF Faithful
<1>5. (h.cur => h.st = rl2) /\ (Back(h) => rl2 \in BackOnly)
  BY <1>1, <1>2 DEF Faithful, Back
<1>6. h.st \in {"verifying", "rolling_out"} => past2
  BY <1>1 DEF Faithful
<1>7. QED
  BY <1>1, <1>3, <1>4, <1>5, <1>6 DEF Faithful

(* A memory with the same reading and place, and no more trust.            *)
LEMMA SoundWeaker ==
    ASSUME NEW h \in Memory, NEW k \in Memory, NEW rl, NEW rw, NEW past \in BOOLEAN,
           Sound(h, rl, rw, past),
           k.pc = h.pc, k.st = h.st, k.copy = h.copy, k.c = h.c, k.to = h.to, k.seen = h.seen,
           k.cur => h.cur, k.known \subseteq h.known
    PROVE  Sound(k, rl, rw, past)
<1>1. /\ Back(k) = Back(h) /\ Accepted(k) = Accepted(h) /\ Assigning(k) = Assigning(h)
      /\ Outcome(k) = Outcome(h)
  BY DEF Back, Accepted, Assigning, Outcome
<1>2. h.pc \in Active => Placed(k)
  BY <1>1 DEF Sound, Placed
<1>3. h.pc \in Active => Faithful(k, rl, rw, past)
  BY <1>1 DEF Sound, Faithful
<1>4. QED
  BY <1>2, <1>3 DEF Sound

LEMMA NotActive ==
    ASSUME NEW h, h.pc \in {"idle", "end", "load"}, NEW rl, NEW rw, NEW past
    PROVE  Sound(h, rl, rw, past)
  BY DEF Sound, Active, Work, Judging

(* What the reads decide is placed by OnwardFollows, and faithful as it is *)
(* what has been read.                                                     *)
LEMMA ReadingSound ==
    ASSUME NEW h \in Memory, NEW g, NEW rl, NEW rw, NEW past \in BOOLEAN, Follows(g, h),
           h.cur => h.st = rl, \A c \in h.known : rw[c] = h.copy[c],
           \A c \in Cohorts : /\ h.copy[c] \in Done => rw[c] \in Done
                              /\ h.copy[c] = "rolled_back" => rw[c] = "rolled_back",
           Back(h) => rl \in BackOnly, h.st \in {"verifying", "rolling_out"} => past
    PROVE  Sound(g, rl, rw, past)
<1> SUFFICES ASSUME g.pc \in Active PROVE Placed(g) /\ Faithful(g, rl, rw, past)
  BY DEF Sound
<1>1. Placed(g) /\ g.st = h.st /\ g.cur = h.cur /\ g.copy = h.copy /\ g.known = h.known
  BY DEF Follows, SameReading
<1>2. (g.cur => g.st = rl) /\ (g.pc # "move" => \A c \in g.known : rw[c] = g.copy[c])
  BY <1>1
<1>3. (Back(g) => rl \in BackOnly) /\ (g.st \in {"verifying", "rolling_out"} => past)
  BY <1>1 DEF Back
<1>4. QED
  BY <1>1, <1>2, <1>3 DEF Faithful

LEMMA OrderKept ==
    ASSUME Advances, DeployedInOrder, \A c \in Cohorts : dep'[c].op = dep[c].op
    PROVE  DeployedInOrder'
  BY DEF Advances, DeployedInOrder, Done, Restoring

(* What has arrived stays: forward as no cohort of a rollout that is not   *)
(* rolled back is restored, backward as nothing leaves "rolled_back".      *)
LEMMA EndKept ==
    ASSUME Advances, Rows', EndsInRows PROVE EndsInRows'
<1> SUFFICES ASSUME roll' \in {"completed", "rolled_back"}, NEW c \in Cohorts PROVE rows'[c] = roll'
  BY DEF EndsInRows
<1>1. CASE roll' # roll
  BY <1>1 DEF Advances
<1>2. CASE roll' = roll /\ roll = "completed"
  <2>1. rows'[c] \in Done
    BY <1>2 DEF Advances, EndsInRows, Done
  <2>2. rows'[c] \notin Restoring
    BY <1>2 DEF Rows, BackOnly
  <2>3. QED
    BY <1>2, <2>1, <2>2 DEF Done
<1>3. CASE roll' = roll /\ roll = "rolled_back"
  BY <1>3 DEF Advances, EndsInRows
<1>4. QED
  BY <1>1, <1>2, <1>3

(* A step of a controller that writes neither the rollout nor a cohort.    *)
LEMMA PassStep ==
    ASSUME Rows, Memories, NEW w \in Controllers, NEW g \in Memory, Write(w, g),
           Sound(g, roll, rows, Past), UNCHANGED <<roll, boundary, asked, rows>>
    PROVE  Memories' /\ Advances
<1>1. Past' = Past
  BY DEF Past
<1>2. Advances
  BY <1>1 DEF Advances
<1>3. held' \in [Controllers -> Memory]
  BY DEF Memories, Write
<1>4. ASSUME NEW v \in Controllers PROVE Sound(held'[v], roll, rows, Past)
  BY DEF Memories, Write
<1>5. QED
  BY <1>1, <1>2, <1>3, <1>4 DEF Memories

(* UpdateRolloutCohort.                                                    *)
LEMMA CohortStep ==
    ASSUME Rows, Memories, NEW w \in Controllers, NEW h \in Memory, h = held[w], h.pc \in Work,
           NEW s \in CohortStates, NEW g \in Memory, UpdateRolloutCohort(w, s, g),
           UNCHANGED <<roll, boundary, asked>>,
           h.copy[h.c] \in Done => s \in Done,
           h.copy[h.c] = "rolled_back" => s = "rolled_back",
           s \in Restoring => Back(h) \/ s = h.copy[h.c],
           s = "completed" => Past \/ s = h.copy[h.c],
           g.pc \in Active =>
             /\ Placed(g) /\ g.st = h.st /\ g.cur = h.cur /\ g.known = h.known
             /\ \/ g.copy = [h.copy EXCEPT ![h.c] = s]
                \/ g.copy = h.copy /\ g.pc = "move"
    PROVE  /\ Memories' /\ Advances /\ rows' \in [Cohorts -> CohortStates]
           /\ roll \notin BackOnly => \A c \in Cohorts : rows'[c] \notin Restoring
           /\ \A c \in Cohorts : rows'[c] = "completed" => Past'
<1> DEFINE c == h.c
<1>0. Past' = Past /\ Past \in BOOLEAN
  BY DEF Past
<1>1. CASE c \notin h.known
  <2>1. Write(w, Ended) /\ UNCHANGED rows
    BY <1>1 DEF UpdateRolloutCohort
  <2>2. Sound(Ended, roll, rows, Past)
    BY IdleIn, NotActive
  <2>3. QED
    BY <1>0, <2>1, <2>2, IdleIn, PassStep DEF Rows
<1>2. CASE c \in h.known
  <2>1. /\ c \in Cohorts /\ rows' = [rows EXCEPT ![c] = s]
        /\ held' = [v \in Controllers |-> IF v = w THEN [g EXCEPT !.ok = FALSE]
                                           ELSE [held[v] EXCEPT !.known = @ \ {c}]]
    BY <1>2 DEF UpdateRolloutCohort, Memory
  <2>2. Placed(h) /\ Faithful(h, roll, rows, Past) /\ h.pc # "move"
    BY DEF Memories, Sound, Active, Work, Judging
  <2>3. rows[c] = h.copy[c]
    BY <1>2, <2>2 DEF Faithful
  <2>4. rows' \in [Cohorts -> CohortStates] /\ rows'[c] = s
        /\ \A d \in Cohorts \ {c} : rows'[d] = rows[d]
    BY <2>1 DEF Rows
  <2>5. \A d \in Cohorts : /\ rows[d] \in Done => rows'[d] \in Done
                           /\ rows[d] = "rolled_back" => rows'[d] = "rolled_back"
    BY <2>3, <2>4
  <2>6. Advances
    <3>1. (Past => Past') /\ roll' = roll
      BY <1>0
    <3>2. QED
      BY <2>5, <3>1 DEF Advances
  <2>7. Back(h) => roll \in BackOnly
    BY <2>2 DEF Faithful
  <2>8. roll \notin BackOnly => \A d \in Cohorts : rows'[d] \notin Restoring
    BY <2>3, <2>4, <2>7 DEF Rows
  <2>9. \A d \in Cohorts : rows'[d] = "completed" => Past'
    BY <1>0, <2>3, <2>4 DEF Rows
  <2>10. ASSUME NEW v \in Controllers PROVE held'[v] \in Memory /\ Sound(held'[v], roll, rows', Past)
    <3>1. CASE v = w
      <4> DEFINE k == [g EXCEPT !.ok = FALSE]
      <4>1. held'[v] = k
        BY <2>1, <3>1
      <4>2. k \in Memory /\ k.pc = g.pc /\ k.st = g.st /\ k.copy = g.copy /\ k.c = g.c
            /\ k.to = g.to /\ k.seen = g.seen /\ k.cur = g.cur /\ k.known = g.known
        BY DEF Memory
      <4> HIDE DEF k
      <4>3. ASSUME g.pc \in Active PROVE Faithful(g, roll, rows', Past)
        <5>1. Placed(g) /\ g.st = h.st /\ g.cur = h.cur /\ g.known = h.known
              /\ (g.copy = [h.copy EXCEPT ![c] = s] \/ (g.copy = h.copy /\ g.pc = "move"))
          BY <4>3
        <5>2. Back(g) = Back(h) /\ h.copy \in [Cohorts -> CohortStates] /\ h.known \subseteq Cohorts
          BY <5>1 DEF Back, Memory
        <5>3. CASE g.copy = [h.copy EXCEPT ![c] = s]
          <6>1. g.copy[c] = s /\ \A d \in Cohorts \ {c} : g.copy[d] = h.copy[d]
            BY <2>1, <5>2, <5>3
          <6>2. QED
            BY <2>2, <2>4, <2>5, <5>1, <5>2, <6>1 DEF Faithful
        <5>4. CASE g.copy = h.copy /\ g.pc = "move"
          <6>1. g.st = h.st /\ g.cur = h.cur /\ g.copy = h.copy /\ g.pc = "move"
            BY <5>1, <5>4
          <6>2. \A d \in Cohorts : /\ g.copy[d] \in Done => rows'[d] \in Done
                                   /\ g.copy[d] = "rolled_back" => rows'[d] = "rolled_back"
            BY <2>2, <2>5, <6>1 DEF Faithful
          <6>3. QED
            BY <2>2, <6>1, <6>2 DEF Faithful, Back
        <5>5. QED
          BY <5>1, <5>3, <5>4
      <4>4. Sound(g, roll, rows', Past)
        BY <4>3 DEF Sound
      <4>5. QED
        BY <1>0, <4>1, <4>2, <4>4, SoundWeaker
    <3>2. CASE v # w
      <4>1. PICK m \in Memory : m = held[v] /\ Sound(m, roll, rows, Past)
        BY DEF Memories
      <4> DEFINE k == [m EXCEPT !.known = @ \ {c}]
      <4>2. held'[v] = k
        BY <2>1, <3>2, <4>1
      <4>3. k \in Memory /\ k.pc = m.pc /\ k.st = m.st /\ k.copy = m.copy /\ k.c = m.c
            /\ k.to = m.to /\ k.seen = m.seen /\ k.cur = m.cur /\ k.known = m.known \ {c}
            /\ k.known \subseteq Cohorts
        BY DEF Memory
      <4> HIDE DEF k
      <4>4. Sound(k, roll, rows, Past)
        BY <1>0, <4>1, <4>3, SoundWeaker
      <4>5. \A d \in k.known : rows'[d] = rows[d]
        BY <2>4, <4>3
      <4>6. QED
        BY <1>0, <2>5, <4>2, <4>3, <4>4, <4>5, SoundKept
    <3>3. QED
      BY <3>1, <3>2
  <2>11. held' \in [Controllers -> Memory]
    BY <2>1, <2>10
  <2>12. QED
    BY <1>0, <2>4, <2>6, <2>8, <2>9, <2>10, <2>11 DEF Memories
<1>3. QED
  BY <1>1, <1>2

(* TransitionRollout, by a controller or a request.                        *)
LEMMA RollStep ==
    ASSUME Rows, NEW to, TransitionRollout(to),
           roll = "paused" => to \in {asked, "rolling_back"}, UNCHANGED <<rows, dep>>,
           to \in {"completed", "rolled_back"} => \A c \in Cohorts : rows[c] = to
    PROVE  Rows' /\ Advances
<1>1. roll' \in RolloutStates /\ asked' = "none" /\ (roll \in BackOnly => roll' \in BackOnly)
  BY DEF TransitionRollout, rolloutTransitions, Rows, RolloutStates, Claimable, Resumable,
         Forward, BackOnly
<1>2. Past => Past'
  BY DEF Past, Early, TransitionRollout, rolloutTransitions, Rows, Resumable, Forward
<1>3. roll' = to
  BY DEF TransitionRollout
<1>4. Advances
  BY <1>1, <1>2, <1>3 DEF Advances
<1>5. QED
  BY <1>1, <1>2, <1>4 DEF Rows

(* After it the others know that the version they have read is old.        *)
Blind(m) == [m EXCEPT !.cur = FALSE]

LEMMA BlindSound ==
    ASSUME NEW m \in Memory, NEW rl, NEW rl2, NEW rw, NEW past \in BOOLEAN, NEW past2 \in BOOLEAN,
           Sound(m, rl, rw, past), past => past2, rl \in BackOnly => rl2 \in BackOnly
    PROVE  Blind(m) \in Memory /\ Sound(Blind(m), rl2, rw, past2)
<1> DEFINE k == Blind(m)
<1>1. k \in Memory /\ k.pc = m.pc /\ k.st = m.st /\ k.copy = m.copy /\ k.c = m.c
      /\ k.to = m.to /\ k.seen = m.seen /\ k.cur = FALSE /\ k.known = m.known
  BY DEF Memory, Blind
<1> HIDE DEF k
<1>2. Sound(k, rl, rw, past)
  BY <1>1, SoundWeaker
<1>3. Sound(k, rl2, rw, past2)
  BY <1>1, <1>2, SoundKept
<1>4. QED
  BY <1>1, <1>3 DEF k

LEMMA OutdateStep ==
    ASSUME Memories, Advances, UNCHANGED rows, held' = [v \in Controllers |-> held'[v]],
           \A v \in Controllers : held'[v] = Ended \/ held'[v] = Blind(held[v])
    PROVE  Memories'
<1>1. Past \in BOOLEAN /\ Past' \in BOOLEAN /\ (Past => Past')
  BY DEF Past, Advances
<1>2. roll \in BackOnly => roll' \in BackOnly
  BY DEF Advances
<1>3. ASSUME NEW v \in Controllers PROVE held'[v] \in Memory /\ Sound(held'[v], roll', rows, Past')
  <2>1. CASE held'[v] = Ended
    BY <2>1, IdleIn, NotActive
  <2>2. CASE held'[v] = Blind(held[v])
    <3>1. held[v] \in Memory /\ Sound(held[v], roll, rows, Past)
      BY DEF Memories
    <3>2. QED
      BY <1>1, <1>2, <2>2, <3>1, BlindSound
  <2>3. QED
    BY <2>1, <2>2
<1>4. QED
  BY <1>3 DEF Memories

-----------------------------------------------------------------------------
(* The actions *)

(* What a step that leaves the table of deployments and the rows alone, or *)
(* only changes words of control files, keeps.                             *)
LEMMA SameRows ==
    ASSUME Rows, DeployedInOrder, Advances, UNCHANGED <<roll, boundary, asked, rows>>,
           dep' \in [Cohorts -> [op : {"none", "to", "from"},
                                 ctl : {"none", "resumed", "paused", "cancelled"}]],
           \A c \in Cohorts : dep'[c].op = dep[c].op
    PROVE  Rows' /\ DeployedInOrder'
<1>1. Past' = Past
  BY DEF Past
<1>2. Rows'
  BY <1>1 DEF Rows
<1>3. QED
  BY <1>2, OrderKept

(* A step that changes one memory only.                                    *)
LEMMA MemoryStep ==
    ASSUME OrderInv, NEW w \in Controllers, NEW g \in Memory, Write(w, g),
           Sound(g, roll, rows, Past), UNCHANGED <<roll, boundary, asked, rows, dep>>
    PROVE  OrderInv'
<1>1. Memories' /\ Advances
  BY PassStep DEF OrderInv
<1>2. Rows' /\ DeployedInOrder'
  BY <1>1, SameRows DEF OrderInv, Rows
<1>3. QED
  BY <1>1, <1>2, EndKept DEF OrderInv

LEMMA Reading ==
    ASSUME OrderInv, NEW w \in Controllers PROVE held[w] \in Memory /\ Sound(held[w], roll, rows, Past)
  BY DEF OrderInv, Memories

LEMMA CheckLeaseKeeps ==
    ASSUME OrderInv, NEW w \in Controllers, CheckLease(w) PROVE OrderInv'
<1>1. PICK h \in Memory : h = held[w] /\ Sound(h, roll, rows, Past)
  BY Reading
<1> DEFINE k == [h EXCEPT !.ok = TRUE]
<1>2. /\ k \in Memory /\ k.pc = h.pc /\ k.st = h.st /\ k.copy = h.copy /\ k.c = h.c
      /\ k.to = h.to /\ k.seen = h.seen /\ k.cur = h.cur /\ k.known = h.known
  BY DEF Memory
<1>3. Write(w, k) /\ UNCHANGED <<roll, boundary, asked, rows, dep>>
  BY <1>1 DEF CheckLease, rollVars, deployVars
<1> HIDE DEF k
<1>4. Past \in BOOLEAN
  BY DEF Past
<1>5. Sound(k, roll, rows, Past)
  BY <1>1, <1>2, <1>4, SoundWeaker
<1>6. QED
  BY <1>2, <1>3, <1>5, MemoryStep

LEMMA EndingKeeps ==
    ASSUME OrderInv, NEW w \in Controllers, Write(w, Idle) \/ Write(w, Ended),
           UNCHANGED <<roll, boundary, asked, rows, dep>>
    PROVE  OrderInv'
<1>1. Sound(Idle, roll, rows, Past) /\ Sound(Ended, roll, rows, Past)
  BY IdleIn, NotActive
<1>2. QED
  BY <1>1, IdleIn, MemoryStep

(* A claim or a release hides the boundary, and no later one appears.      *)
LEMMA ClaimKeeps ==
    ASSUME OrderInv, NEW w \in Controllers, NEW g \in Memory, g.pc \in {"idle", "load"}, Write(w, g),
           ClaimEvent \/ UNCHANGED boundary, UNCHANGED <<roll, asked, rows, dep>>
    PROVE  OrderInv'
<1>1. Past => Past'
  BY DEF Past, ClaimEvent, Early
<1>2. Advances
  BY <1>1 DEF Advances
<1>3. Rows' /\ DeployedInOrder'
  BY <1>1, <1>2, OrderKept DEF OrderInv, Rows
<1>4. Past \in BOOLEAN /\ Past' \in BOOLEAN
  BY DEF Past
<1>5. ASSUME NEW v \in Controllers PROVE held'[v] \in Memory /\ Sound(held'[v], roll', rows', Past')
  <2>1. CASE v = w
    BY <2>1, NotActive DEF Write, OrderInv, Memories
  <2>2. CASE v # w
    <3>1. PICK h \in Memory : h = held[v] /\ Sound(h, roll, rows, Past)
      BY Reading
    <3>2. Sound(h, roll', rows', Past')
      BY <1>1, <1>4, <3>1, SoundKept
    <3>3. QED
      BY <2>2, <3>1, <3>2 DEF Write, OrderInv, Memories
  <2>3. QED
    BY <2>1, <2>2
<1>6. held' \in [Controllers -> Memory]
  BY <1>5 DEF Write, OrderInv, Memories
<1>7. Memories'
  BY <1>5, <1>6 DEF Memories
<1>8. QED
  BY <1>2, <1>3, <1>7, EndKept DEF OrderInv

(* What a pass reads is what there is.                                     *)
LEMMA PlanKeeps ==
    ASSUME OrderInv, NEW w \in Controllers,
           NEW act \in {"none", "pause", "resume", "cancel"},
           NEW to \in {"none", "failed", "rolling_back", "paused", "preparing"},
           roll \in Resumable \cup {"paused", "rolling_back"},
           roll = "paused" => to = "none", roll = "pending" => to # "none",
           Plan(w, act, to), UNCHANGED <<roll, boundary, asked, rows, dep>>
    PROVE  OrderInv'
<1> DEFINE h == [Idle EXCEPT !.st = roll, !.cur = TRUE, !.copy = rows, !.known = Cohorts,
                             !.act = act, !.todo = Reached(act, rows), !.to = to]
<1>1. Reached(act, rows) \subseteq Cohorts
  BY DEF Reached
<1>a. to \in RolloutStates \cup {"none"}
  BY DEF RolloutStates, Claimable, Resumable, Forward
<1>2. /\ h \in Memory /\ h.st = roll /\ h.cur = TRUE /\ h.copy = rows /\ h.known = Cohorts
      /\ h.to = to
  BY ZenonT(30), <1>1, <1>a, IdleIn DEF Memory, OrderInv, Rows
<1>3. Write(w, Onward(h))
  BY DEF Plan
<1> HIDE DEF h
<1>4. roll \in Early => ~Past
  BY DEF Past
<1>5. roll \in {"verifying", "rolling_out"} => Past
  BY DEF Past, Early
<1>6. Based(h)
  BY <1>2, <1>4 DEF Based, OrderInv, Rows, Back, BackOnly, Resumable, Forward
<1>7. Follows(Onward(h), h)
  BY <1>2, <1>6, OnwardFollows
<1>8. Past \in BOOLEAN /\ (Back(h) => roll \in BackOnly)
  BY <1>2 DEF Past, Back, BackOnly
<1>9. Sound(Onward(h), roll, rows, Past)
  BY <1>2, <1>5, <1>7, <1>8, ReadingSound
<1>10. QED
  BY <1>3, <1>7, <1>9, MemoryStep DEF Follows

LEMMA ReconcileKeeps ==
    ASSUME OrderInv, NEW w \in Controllers, Reconcile(w) PROVE OrderInv'
<1>1. UNCHANGED <<roll, boundary, asked, rows, dep>>
  BY DEF Reconcile, rollVars, deployVars
<1>2. CASE roll = "paused"
  <2>1. Plan(w, "pause", "none")
    BY <1>2 DEF Reconcile, Resumable, Forward
  <2>2. QED
    BY <1>1, <1>2, <2>1, PlanKeeps
<1>3. CASE roll = "rolling_back"
  <2>1. ReconcileBack(w)
    BY <1>3 DEF Reconcile, Resumable, Forward
  <2>2. \E act \in {"none", "cancel"}, to \in {"none", "failed"} : Plan(w, act, to)
    BY <2>1 DEF ReconcileBack
  <2>3. QED
    BY <1>1, <1>3, <2>2, PlanKeeps
<1>4. CASE roll \in Resumable
  <2>1. ReconcileForward(w)
    BY <1>4 DEF Reconcile, Resumable, Forward
  <2>2. \E act \in {"none", "pause", "resume"},
           to \in {"none", "failed", "rolling_back", "paused", "preparing"} :
          Plan(w, act, to) /\ (roll = "pending" => to # "none")
    BY <2>1 DEF ReconcileForward
  <2>3. roll # "paused"
    BY <1>4 DEF Resumable, Forward
  <2>4. QED
    BY <1>1, <1>4, <2>2, <2>3, PlanKeeps
<1>5. CASE roll \notin Resumable \cup {"paused", "rolling_back"}
  <2>1. Write(w, Ended)
    BY <1>5 DEF Reconcile
  <2>2. QED
    BY <1>1, <2>1, EndingKeeps
<1>6. QED
  BY <1>2, <1>3, <1>4, <1>5

(* A step that also rewrites deployments, keeping their operations.        *)
LEMMA ControlStep ==
    ASSUME OrderInv, NEW w \in Controllers, NEW g \in Memory, Write(w, g),
           Sound(g, roll, rows, Past), UNCHANGED <<roll, boundary, asked, rows>>,
           NEW c \in Cohorts, NEW word \in {"resumed", "paused", "cancelled"},
           dep' = [dep EXCEPT ![c].ctl = word]
    PROVE  OrderInv'
<1>1. Memories' /\ Advances
  BY PassStep DEF OrderInv
<1>2. /\ dep' \in [Cohorts -> [op : {"none", "to", "from"},
                               ctl : {"none", "resumed", "paused", "cancelled"}]]
      /\ \A d \in Cohorts : dep'[d].op = dep[d].op
  BY DEF OrderInv, Rows
<1>3. Rows' /\ DeployedInOrder'
  BY <1>1, <1>2, SameRows DEF OrderInv
<1>4. QED
  BY <1>1, <1>3, EndKept DEF OrderInv

LEMMA ApplyLifecycleKeeps ==
    ASSUME OrderInv, NEW w \in Controllers, ApplyLifecycle(w) PROVE OrderInv'
<1>1. PICK h \in Memory : h = held[w] /\ Sound(h, roll, rows, Past)
  BY Reading
<1>2. Placed(h) /\ Faithful(h, roll, rows, Past) /\ h.pc = "lifecycle"
  BY <1>1 DEF ApplyLifecycle, Sound, Active
<1>3. PICK c : c = First(h.todo)
  OBVIOUS
<1> DEFINE k == [h EXCEPT !.todo = @ \ {c}]
<1>4. /\ k \in Memory /\ k.st = h.st /\ k.cur = h.cur /\ k.copy = h.copy /\ k.known = h.known
      /\ k.to = h.to
  BY DEF Memory
<1>5. /\ Write(w, Onward(k)) /\ UNCHANGED <<roll, boundary, asked, rows>>
      /\ dep' = [dep EXCEPT ![c].ctl = Word(h.act)]
  BY <1>1, <1>3 DEF ApplyLifecycle, rollVars
<1> HIDE DEF k
<1>6. Based(k)
  BY <1>2, <1>4 DEF Placed, Based, Back
<1>7. Follows(Onward(k), k)
  BY <1>4, <1>6, OnwardFollows
<1>8. Past \in BOOLEAN
  BY DEF Past
<1>9. Sound(Onward(k), roll, rows, Past)
  <2>1. /\ k.cur => k.st = roll
        /\ \A d \in k.known : rows[d] = k.copy[d]
        /\ Back(k) => roll \in BackOnly
        /\ k.st \in {"verifying", "rolling_out"} => Past
    BY <1>2, <1>4 DEF Faithful, Back
  <2>2. \A d \in Cohorts : /\ k.copy[d] \in Done => rows[d] \in Done
                           /\ k.copy[d] = "rolled_back" => rows[d] = "rolled_back"
    BY <1>2, <1>4 DEF Faithful
  <2>3. QED
    BY <1>4, <1>7, <1>8, <2>1, <2>2, ReadingSound
<1>10. CASE c \in Cohorts
  BY <1>5, <1>7, <1>9, <1>10, ControlStep DEF Follows, Word
<1>11. CASE c \notin Cohorts
  <2>1. UNCHANGED dep
    BY <1>5, <1>11 DEF OrderInv, Rows
  <2>2. QED
    BY <1>5, <1>7, <1>9, <2>1, MemoryStep DEF Follows
<1>12. QED
  BY <1>10, <1>11

(* A write to a cohort, after CohortStep.                                  *)
LEMMA CohortKeeps ==
    ASSUME OrderInv, Memories', Advances, rows' \in [Cohorts -> CohortStates],
           roll \notin BackOnly => \A c \in Cohorts : rows'[c] \notin Restoring,
           \A c \in Cohorts : rows'[c] = "completed" => Past',
           UNCHANGED <<roll, boundary, asked, dep>>
    PROVE  OrderInv'
<1>1. DeployedInOrder'
  BY OrderKept DEF OrderInv
<1>2. Rows'
  BY DEF OrderInv, Rows
<1>3. QED
  BY <1>1, <1>2, EndKept DEF OrderInv

(* The memory of a pass that works on a cohort.                            *)
AtWork(h, rl, rw, past) ==
  /\ h.pc \in Work /\ h.c \in Cohorts /\ h.copy \in [Cohorts -> CohortStates]
  /\ Placed(h) /\ Faithful(h, rl, rw, past)
  /\ Back(h) => h.copy[h.c] # "rolled_back"
  /\ ~Back(h) => h.copy[h.c] \notin Restoring
  /\ h.st \notin {"pending", "paused"}

LEMMA WorkReading ==
    ASSUME OrderInv, NEW w \in Controllers, held[w].pc \in Work
    PROVE  held[w] \in Memory /\ AtWork(held[w], roll, rows, Past) /\ Sound(held[w], roll, rows, Past)
<1>1. PICK h \in Memory : h = held[w] /\ Sound(h, roll, rows, Past)
  BY Reading
<1>2. h.c \in Cohorts /\ h.copy \in [Cohorts -> CohortStates] /\ h.pc \in Work
  BY <1>1 DEF Memory
<1>3. Placed(h) /\ Faithful(h, roll, rows, Past)
  BY <1>1, <1>2 DEF Sound, Active
<1>4. Back(h) => h.copy[h.c] # "rolled_back"
  BY <1>2, <1>3 DEF Placed
<1>5. ~Back(h) => h.copy[h.c] \notin Restoring
  BY <1>2, <1>3 DEF Placed
<1>6. h.st \notin {"pending", "paused"}
  BY <1>2, <1>3 DEF Placed, Work, Judging
<1>7. AtWork(h, roll, rows, Past)
  BY <1>2, <1>3, <1>4, <1>5, <1>6, Zenon DEF AtWork
<1>8. QED
  BY <1>1, <1>7

LEMMA StartAssignmentKeeps ==
    ASSUME OrderInv, NEW w \in Controllers, StartAssignment(w) PROVE OrderInv'
<1>a. held[w].pc = "assign"
  BY Zenon DEF StartAssignment, At
<1>b. PICK h \in Memory : h = held[w] /\ h.pc = "assign" /\ AtWork(h, roll, rows, Past)
  BY <1>a, WorkReading DEF Work
<1>1. /\ h = held[w] /\ h.pc = "assign" /\ h.c \in Cohorts /\ h.copy \in [Cohorts -> CohortStates]
      /\ Placed(h) /\ Faithful(h, roll, rows, Past) /\ h.st \notin {"pending", "paused"}
      /\ Back(h) => h.copy[h.c] # "rolled_back"
      /\ ~Back(h) => h.copy[h.c] \notin Restoring
  BY <1>b DEF AtWork
<1> DEFINE s == Assigning(h)
           g == [h EXCEPT !.pc = "deploy", !.copy = [h.copy EXCEPT ![h.c] = s]]
<1>2. UpdateRolloutCohort(w, s, g) /\ UNCHANGED <<roll, boundary, asked, dep>>
  BY <1>1 DEF StartAssignment, rollVars, deployVars, Memory
<1>3. s \in CohortStates /\ (s \in Restoring <=> Back(h)) /\ s \notin {"completed", "rolled_back"}
  BY DEF Assigning, CohortStates, Restoring
<1>4. h.copy[h.c] \in Done => s \in Done
  BY <1>1, <1>3 DEF Placed, Accepted, Done
<1>5. /\ g \in Memory /\ g.pc = "deploy" /\ g.st = h.st /\ g.cur = h.cur /\ g.known = h.known
      /\ g.c = h.c /\ g.to = h.to /\ g.copy = [h.copy EXCEPT ![h.c] = s]
  BY <1>1, <1>3 DEF Memory, Active, Work
<1> HIDE DEF g
<1>6. Placed(g)
  <2>1. g.copy[h.c] = s /\ \A d \in Cohorts \ {h.c} : g.copy[d] = h.copy[d]
    BY <1>1, <1>5
  <2>2. \A d \in Cohorts : ~(d < d)
    BY RolloutAssumption DEF Cohorts, RolloutAssumption
  <2>3. Back(g) = Back(h) /\ Assigning(g) = s
    BY <1>5 DEF Back, Assigning
  <2>4. QED
    BY <1>1, <1>3, <1>5, <2>1, <2>2, <2>3 DEF Placed, Work, Judging
<1>7. h.pc \in Work /\ (h.copy[h.c] = "rolled_back" => s = "rolled_back")
  BY <1>1 DEF Work, Restoring
<1> HIDE DEF s
<1>8. /\ Memories' /\ Advances /\ rows' \in [Cohorts -> CohortStates]
      /\ roll \notin BackOnly => \A c \in Cohorts : rows'[c] \notin Restoring
      /\ \A c \in Cohorts : rows'[c] = "completed" => Past'
  BY <1>1, <1>2, <1>3, <1>4, <1>5, <1>6, <1>7, CohortStep DEF OrderInv
<1>9. QED
  BY <1>2, <1>8, CohortKeeps

LEMMA AcceptAssignmentKeeps ==
    ASSUME OrderInv, NEW w \in Controllers, AcceptAssignment(w) PROVE OrderInv'
<1>a. held[w].pc = "accept"
  BY Zenon DEF AcceptAssignment, At
<1>b. PICK h \in Memory : h = held[w] /\ h.pc = "accept" /\ AtWork(h, roll, rows, Past)
  BY <1>a, WorkReading DEF Work
<1>1. /\ h = held[w] /\ h.pc = "accept" /\ h.c \in Cohorts /\ h.copy \in [Cohorts -> CohortStates]
      /\ Placed(h) /\ Faithful(h, roll, rows, Past) /\ h.st \notin {"pending", "paused"}
  BY <1>b DEF AtWork
<1> DEFINE s == Observing(h)
           k == [h EXCEPT !.copy = [h.copy EXCEPT ![h.c] = s]]
           g == AfterAssign(k)
<1>2. UpdateRolloutCohort(w, s, g) /\ UNCHANGED <<roll, boundary, asked, dep>>
  BY <1>1 DEF AcceptAssignment, rollVars, deployVars, Memory
<1>3. s \in CohortStates /\ (s \in Restoring <=> Back(h)) /\ s \notin {"completed", "rolled_back"}
  BY DEF Observing, CohortStates, Restoring
<1>4. h.copy[h.c] = Assigning(h)
  BY <1>1 DEF Placed
<1>5. (h.copy[h.c] \in Done => s \in Done) /\ h.copy[h.c] # "rolled_back"
  BY <1>3, <1>4 DEF Assigning, Done, Restoring
<1>6. /\ k \in Memory /\ k.st = h.st /\ k.cur = h.cur /\ k.known = h.known
      /\ k.c = h.c /\ k.to = h.to /\ k.copy = [h.copy EXCEPT ![h.c] = s]
  BY <1>1, <1>3 DEF Memory
<1>7. k.copy[h.c] = s /\ \A d \in Cohorts \ {h.c} : k.copy[d] = h.copy[d]
  BY <1>1, <1>6
<1> HIDE DEF k
<1>8. /\ g \in Memory /\ g.pc \in {"move", "health"} /\ g.st = h.st /\ g.cur = h.cur
      /\ g.known = h.known /\ g.c = h.c /\ g.copy = k.copy
      /\ g.pc = "health" => h.st # "preparing"
      /\ g.to \in {h.to, "canary"}
  <2>1. CASE k.st = "preparing"
    <3> DEFINE m == [k EXCEPT !.pc = "move", !.to = "canary"]
    <3>1. g = m
      BY <2>1 DEF AfterAssign
    <3>2. "canary" \in RolloutStates
      BY DEF RolloutStates, Claimable, Resumable, Forward
    <3>3. m \in Memory /\ m.pc = "move" /\ m.st = k.st /\ m.cur = k.cur /\ m.known = k.known
          /\ m.c = k.c /\ m.copy = k.copy /\ m.to = "canary"
      BY <1>6, <3>2 DEF Memory, Active
    <3> HIDE DEF m
    <3>4. QED
      BY <1>6, <3>1, <3>3
  <2>2. CASE k.st # "preparing"
    <3> DEFINE m == [k EXCEPT !.pc = "health"]
    <3>1. g = m
      BY <2>2 DEF AfterAssign
    <3>2. m \in Memory /\ m.pc = "health" /\ m.st = k.st /\ m.cur = k.cur /\ m.known = k.known
          /\ m.c = k.c /\ m.copy = k.copy /\ m.to = h.to
      BY <1>6 DEF Memory, Active, Work, Judging
    <3> HIDE DEF m
    <3>3. QED
      BY <1>6, <2>2, <3>1, <3>2
  <2>3. QED
    BY <2>1, <2>2
<1> HIDE DEF g
<1>9. Placed(g)
  <2>1. \A d \in Cohorts : ~(d < d)
    BY RolloutAssumption DEF Cohorts, RolloutAssumption
  <2>2. Back(g) = Back(h)
    BY <1>8 DEF Back
  <2>3. h.pc \in Work
    BY <1>1 DEF Work
  <2>4. QED
    BY <1>1, <1>3, <1>7, <1>8, <2>1, <2>2, <2>3 DEF Placed, Work, Judging
<1>10. h.pc \in Work
  BY <1>1 DEF Work
<1> HIDE DEF s
<1>11. /\ Memories' /\ Advances /\ rows' \in [Cohorts -> CohortStates]
       /\ roll \notin BackOnly => \A c \in Cohorts : rows'[c] \notin Restoring
       /\ \A c \in Cohorts : rows'[c] = "completed" => Past'
  BY <1>1, <1>2, <1>3, <1>5, <1>6, <1>8, <1>9, <1>10, CohortStep DEF OrderInv
<1>12. QED
  BY <1>2, <1>11, CohortKeeps

(* A step within the work on a cohort that keeps what has been read.       *)
Stays(k, h) ==
  /\ k \in Memory
  /\ k.pc \in Active =>
       Placed(k) /\ SameReading(k, h) /\ k.c = h.c

LEMMA StaysSound ==
    ASSUME NEW h, NEW k, Stays(k, h), NEW rl, NEW rw, NEW past \in BOOLEAN,
           AtWork(h, rl, rw, past)
    PROVE  Sound(k, rl, rw, past)
<1> SUFFICES ASSUME k.pc \in Active PROVE Placed(k) /\ Faithful(k, rl, rw, past)
  BY DEF Sound
<1>1. /\ Placed(k) /\ k.st = h.st /\ k.cur = h.cur /\ k.copy = h.copy /\ k.known = h.known
      /\ Faithful(h, rl, rw, past) /\ h.pc # "move"
  BY DEF Stays, SameReading, AtWork, Work, Judging
<1>2. QED
  BY <1>1 DEF Faithful, Back

(* Where work goes on to, on the same cohort with the same reading.        *)
LEMMA GoesOn ==
    ASSUME NEW h \in Memory, NEW rl, NEW rw, NEW past, AtWork(h, rl, rw, past),
           NEW k \in Memory, SameReading(k, h), k.c = h.c,
           k.to = h.to \/ k.to \notin {"completed", "rolled_back"},
           \/ k.pc = "move"
           \/ k.pc \in {"readback", "status", "accept"} /\ h.pc \in {"deploy", "readback", "status"}
           \/ k.pc = "record" /\ h.pc \in Judging
           \/ k.pc = "settle" /\ h.pc \in Judging /\ k.seen \in Outcome(h)
    PROVE  Stays(k, h)
<1>1. /\ Placed(h) /\ h.pc \in Work /\ h.st \notin {"pending", "paused"}
      /\ k.st = h.st /\ k.copy = h.copy /\ k.to \notin {"completed", "rolled_back"}
  BY DEF AtWork, SameReading, Placed, Work, Judging
<1>2. /\ Back(k) = Back(h) /\ Accepted(k) = Accepted(h) /\ Assigning(k) = Assigning(h)
      /\ Outcome(k) = Outcome(h)
  BY <1>1 DEF Back, Accepted, Assigning, Outcome
<1>3. Placed(k)
  BY <1>1, <1>2 DEF Placed, Work, Judging
<1>4. QED
  BY <1>3 DEF Stays

LEMMA DeployKeeps ==
    ASSUME OrderInv, NEW w \in Controllers, Deploy(w) PROVE OrderInv'
<1>1. held[w].pc = "deploy"
  BY Zenon DEF Deploy, At
<1>2. PICK h \in Memory : h = held[w] /\ h.pc = "deploy" /\ AtWork(h, roll, rows, Past)
  BY <1>1, WorkReading DEF Work
<1>3. /\ h.c \in Cohorts /\ Placed(h) /\ Faithful(h, roll, rows, Past)
      /\ h.copy[h.c] = Assigning(h)
  BY <1>2 DEF AtWork, Placed
<1>4. Target(w) = IF Back(h) THEN "from" ELSE "to"
  BY <1>2, <1>3 DEF Target, Desired, Restoring, Assigning
<1>5. PICK t \in {"from", "to"} : t = Target(w)
  BY <1>4
<1> DEFINE k == [h EXCEPT !.pc = "readback", !.ok = FALSE]
           m == [h EXCEPT !.pc = "status", !.ok = FALSE]
<1>6. /\ k \in Memory /\ k.pc = "readback" /\ SameReading(k, h) /\ k.c = h.c /\ k.to = h.to
      /\ m \in Memory /\ m.pc = "status" /\ SameReading(m, h) /\ m.c = h.c /\ m.to = h.to
  BY DEF Memory, SameReading, Active, Work
<1>7. UNCHANGED <<roll, boundary, asked, rows>>
  BY DEF Deploy, rollVars
<1>8. \/ (Write(w, Ended) \/ Write(w, m)) /\ UNCHANGED dep
      \/ Write(w, k) /\ dep' = [dep EXCEPT ![h.c] = [op |-> t, ctl |-> "resumed"]]
  BY <1>2, <1>5 DEF Deploy
<1> HIDE DEF k, m
<1>9. CASE (Write(w, Ended) \/ Write(w, m)) /\ UNCHANGED dep
  <2>1. Past \in BOOLEAN
    BY DEF Past
  <2>2. Sound(m, roll, rows, Past)
    BY <1>2, <1>6, <2>1, GoesOn, StaysSound
  <2>3. QED
    BY <1>6, <1>7, <1>9, <2>2, MemoryStep, EndingKeeps
<1>10. CASE Write(w, k) /\ dep' = [dep EXCEPT ![h.c] = [op |-> t, ctl |-> "resumed"]]
  <2>1. Stays(k, h)
    BY <1>2, <1>6, GoesOn
  <2>2. Past \in BOOLEAN /\ Past' = Past
    BY <1>7 DEF Past
  <2>3. Sound(k, roll, rows, Past)
    BY <1>2, <2>1, <2>2, StaysSound
  <2>4. Memories' /\ Advances
    BY <1>6, <1>7, <1>10, <2>3, PassStep DEF OrderInv
  <2>5. /\ dep' \in [Cohorts -> [op : {"none", "to", "from"},
                                 ctl : {"none", "resumed", "paused", "cancelled"}]]
        /\ dep'[h.c].op = t
        /\ \A d \in Cohorts \ {h.c} : dep'[d].op = dep[d].op
    BY <1>3, <1>10 DEF OrderInv, Rows
  <2>6. Rows'
    BY <1>7, <2>2, <2>5 DEF OrderInv, Rows
  <2>7. t = "to" => \A d \in Cohorts : d < h.c => rows[d] \in Done
    <3> SUFFICES ASSUME t = "to", NEW d \in Cohorts, d < h.c PROVE rows[d] \in Done
      OBVIOUS
    <3>1. h.copy[d] = "completed"
      BY <1>2, <1>3, <1>4, <1>5 DEF Placed, Work
    <3>2. QED
      BY <1>3, <3>1 DEF Faithful, Done
  <2>8. t = "from" => \A d \in Cohorts : h.c < d => rows[d] = "rolled_back"
    <3> SUFFICES ASSUME t = "from", NEW d \in Cohorts, h.c < d PROVE rows[d] = "rolled_back"
      OBVIOUS
    <3>1. h.copy[d] = "rolled_back"
      BY <1>2, <1>3, <1>4, <1>5 DEF Placed, Work
    <3>2. QED
      BY <1>3, <3>1 DEF Faithful
  <2>9. ASSUME NEW a \in Cohorts, NEW b \in Cohorts, a < b
        PROVE  /\ dep'[b].op = "to" => rows[a] \in Done
               /\ dep'[a].op = "from" => rows[b] = "rolled_back"
    <3>1. /\ dep[b].op = "to" => rows[a] \in Done
          /\ dep[a].op = "from" => rows[b] = "rolled_back"
      BY <2>9 DEF OrderInv, DeployedInOrder, Done
    <3>2. dep'[b].op = "to" => rows[a] \in Done
      BY <2>5, <2>7, <2>9, <3>1
    <3>3. dep'[a].op = "from" => rows[b] = "rolled_back"
      BY <2>5, <2>8, <2>9, <3>1
    <3>4. QED
      BY <3>2, <3>3
  <2>10. DeployedInOrder'
    BY <1>7, <2>9 DEF DeployedInOrder, Done
  <2>11. QED
    BY <2>4, <2>6, <2>10, EndKept DEF OrderInv
<1>11. QED
  BY <1>8, <1>9, <1>10

LEMMA ReadbackKeeps ==
    ASSUME OrderInv, NEW w \in Controllers, Readback(w) PROVE OrderInv'
<1>1. held[w].pc = "readback"
  BY Zenon DEF Readback
<1>2. PICK h \in Memory : h = held[w] /\ h.pc = "readback" /\ AtWork(h, roll, rows, Past)
  BY <1>1, WorkReading DEF Work
<1> DEFINE k == [h EXCEPT !.pc = "status"]
<1>3. k \in Memory /\ k.pc = "status" /\ SameReading(k, h) /\ k.c = h.c /\ k.to = h.to
  BY DEF Memory, SameReading, Active, Work
<1>4. /\ Write(w, Ended) \/ Write(w, k)
      /\ UNCHANGED <<roll, boundary, asked, rows, dep>>
  BY <1>2 DEF Readback, rollVars, deployVars
<1> HIDE DEF k
<1>5. Past \in BOOLEAN
  BY DEF Past
<1>6. Sound(k, roll, rows, Past)
  BY <1>2, <1>3, <1>5, GoesOn, StaysSound
<1>7. QED
  BY <1>3, <1>4, <1>6, MemoryStep, EndingKeeps

LEMMA AssignWorkersKeeps ==
    ASSUME OrderInv, NEW w \in Controllers, AssignWorkers(w) PROVE OrderInv'
<1>1. held[w].pc = "status"
  BY Zenon DEF AssignWorkers
<1>2. PICK h \in Memory : h = held[w] /\ h.pc = "status" /\ AtWork(h, roll, rows, Past)
  BY <1>1, WorkReading DEF Work
<1> DEFINE k == [h EXCEPT !.pc = "accept"]
<1>3. k \in Memory /\ k.pc = "accept" /\ SameReading(k, h) /\ k.c = h.c /\ k.to = h.to
  BY DEF Memory, SameReading, Active, Work
<1>4. Write(w, k) /\ UNCHANGED <<roll, boundary, asked, rows, dep>>
  BY <1>2 DEF AssignWorkers, rollVars
<1> HIDE DEF k
<1>5. Past \in BOOLEAN
  BY DEF Past
<1>6. Sound(k, roll, rows, Past)
  BY <1>2, <1>3, <1>5, GoesOn, StaysSound
<1>7. QED
  BY <1>3, <1>4, <1>6, MemoryStep

LEMMA HealthKeeps ==
    ASSUME OrderInv, NEW w \in Controllers, Health(w) PROVE OrderInv'
<1>1. held[w].pc = "health"
  BY Zenon DEF Health
<1>2. PICK h \in Memory : h = held[w] /\ h.pc = "health" /\ AtWork(h, roll, rows, Past)
  BY <1>1, WorkReading DEF Work, Judging
<1>3. /\ \/ Write(w, Ended)
         \/ \E v \in {"bad", "pending", "converged"} :
              Write(w, [h EXCEPT !.pc = "record", !.seen = v])
      /\ UNCHANGED <<roll, boundary, asked, rows, dep>>
  BY <1>2 DEF Health, Verdicts, rollVars, deployVars
<1>4. CASE Write(w, Ended)
  BY <1>3, <1>4, EndingKeeps
<1>5. ASSUME NEW v \in {"bad", "pending", "converged"},
             Write(w, [h EXCEPT !.pc = "record", !.seen = v])
      PROVE  OrderInv'
  <2> DEFINE k == [h EXCEPT !.pc = "record", !.seen = v]
  <2>1. k \in Memory /\ k.pc = "record" /\ SameReading(k, h) /\ k.c = h.c /\ k.to = h.to
    BY DEF Memory, SameReading, Active, Work, Judging
  <2>2. Write(w, k)
    BY <1>5
  <2> HIDE DEF k
  <2>3. Past \in BOOLEAN
    BY DEF Past
  <2>4. Sound(k, roll, rows, Past)
    BY <1>2, <2>1, <2>3, GoesOn, StaysSound DEF Judging
  <2>5. QED
    BY <1>3, <2>1, <2>2, <2>4, MemoryStep
<1>6. QED
  BY <1>3, <1>4, <1>5

LEMMA CrashInApplyKeeps ==
    ASSUME OrderInv, NEW w \in Controllers, CrashInApply(w) PROVE OrderInv'
<1>1. held[w].c \in Cohorts
  BY Reading DEF Memory
<1>2. /\ Write(w, Idle) /\ dep' = [dep EXCEPT ![held[w].c].ctl = "resumed"]
      /\ UNCHANGED <<roll, boundary, asked, rows>>
  BY DEF CrashInApply, rollVars
<1>3. Sound(Idle, roll, rows, Past)
  BY IdleIn, NotActive
<1>4. QED
  BY <1>1, <1>2, <1>3, IdleIn, ControlStep

(* The verdict leads to a state of the cohort, a transition or the end.    *)
LEMMA JudgeStays ==
    ASSUME NEW h \in Memory, NEW rl, NEW rw, NEW past, AtWork(h, rl, rw, past), h.pc \in Judging,
           NEW g, NEW late_ \in BOOLEAN, g = IF Back(h) THEN JudgeBack(h, late_) ELSE JudgeForward(h, late_)
    PROVE  Stays(g, h)
<1>1. CASE g = Ended
  BY <1>1, IdleIn DEF Stays, Active, Work, Judging
<1>2. ASSUME NEW s \in Outcome(h), g = Settling(h, s) PROVE Stays(g, h)
  <2>1. s \in CohortStates
    BY <1>2 DEF Outcome, CohortStates, Restoring, Back
  <2>2. g \in Memory /\ g.pc = "settle" /\ g.seen = s /\ SameReading(g, h) /\ g.c = h.c
        /\ g.to = h.to
    BY <1>2, <2>1 DEF Settling, Memory, SameReading, Active, Work, Judging
  <2>3. QED
    BY <1>2, <2>2, GoesOn
<1>3. ASSUME NEW to \in {"rolling_back", "paused"}, g = Moving(h, to) PROVE Stays(g, h)
  <2>1. g \in Memory /\ g.pc = "move" /\ SameReading(g, h) /\ g.c = h.c /\ g.to = to
    BY <1>3 DEF Moving, Memory, SameReading, Active, RolloutStates, Claimable
  <2>2. QED
    BY <2>1, GoesOn
<1>4. CASE Back(h)
  <2>1. \/ g = Ended
        \/ \E s \in {"rolled_back", "reconciliation_failed"} : g = Settling(h, s)
    BY <1>4 DEF JudgeBack
  <2>2. Outcome(h) = {"rolled_back", "reconciliation_failed"}
    BY <1>4 DEF Outcome, Back
  <2>3. QED
    BY <1>1, <1>2, <2>1, <2>2
<1>5. CASE ~Back(h)
  <2>1. \/ g = Ended
        \/ g = Settling(h, IF h.st = "canary" THEN "healthy" ELSE "completed")
        \/ \E to \in {"rolling_back", "paused"} : g = Moving(h, to)
    BY <1>5 DEF JudgeForward
  <2>2. (IF h.st = "canary" THEN "healthy" ELSE "completed") \in Outcome(h)
    BY <1>5 DEF Outcome
  <2>3. QED
    BY <1>1, <1>2, <1>3, <2>1, <2>2
<1>6. QED
  BY <1>4, <1>5

LEMMA RecordHealthKeeps ==
    ASSUME OrderInv, NEW w \in Controllers, RecordHealth(w) PROVE OrderInv'
<1>1. held[w].pc = "record"
  BY Zenon DEF RecordHealth, At
<1>2. PICK h \in Memory : h = held[w] /\ h.pc = "record" /\ AtWork(h, roll, rows, Past)
  BY <1>1, WorkReading DEF Work, Judging
<1>3. PICK g : /\ g = IF Back(h) THEN JudgeBack(h, h.c \in due) ELSE JudgeForward(h, h.c \in due)
               /\ UpdateRolloutCohort(w, h.copy[h.c], g)
  BY <1>2 DEF RecordHealth
<1>4. UNCHANGED <<roll, boundary, asked, dep>>
  BY DEF RecordHealth, rollVars, deployVars
<1>5. h.pc \in Judging /\ (h.c \in due) \in BOOLEAN
  BY <1>2 DEF Judging
<1>6. Stays(g, h)
  BY <1>2, <1>3, <1>5, JudgeStays
<1>7. h.c \in Cohorts /\ h.copy \in [Cohorts -> CohortStates] /\ h.pc \in Work
  BY <1>2 DEF AtWork
<1>8. h.copy = [h.copy EXCEPT ![h.c] = h.copy[h.c]] /\ h.copy[h.c] \in CohortStates
  BY <1>7
<1>9. /\ g \in Memory
      /\ g.pc \in Active => /\ Placed(g) /\ g.st = h.st /\ g.cur = h.cur /\ g.known = h.known
                            /\ g.copy = [h.copy EXCEPT ![h.c] = h.copy[h.c]]
  BY <1>6, <1>8 DEF Stays, SameReading
<1>10. /\ Memories' /\ Advances /\ rows' \in [Cohorts -> CohortStates]
       /\ roll \notin BackOnly => \A c \in Cohorts : rows'[c] \notin Restoring
       /\ \A c \in Cohorts : rows'[c] = "completed" => Past'
  BY <1>2, <1>3, <1>4, <1>7, <1>8, <1>9, CohortStep DEF OrderInv
<1>11. QED
  BY <1>4, <1>10, CohortKeeps

LEMMA SettleCohortKeeps ==
    ASSUME OrderInv, NEW w \in Controllers, SettleCohort(w) PROVE OrderInv'
<1>1. held[w].pc = "settle"
  BY Zenon DEF SettleCohort, At
<1>2. PICK h \in Memory : h = held[w] /\ h.pc = "settle" /\ AtWork(h, roll, rows, Past)
  BY <1>1, WorkReading DEF Work, Judging
<1>3. UNCHANGED <<roll, boundary, asked, dep>>
  BY DEF SettleCohort, rollVars, deployVars
<1>4. /\ h.c \in Cohorts /\ h.copy \in [Cohorts -> CohortStates] /\ h.pc \in Work
      /\ Placed(h) /\ Faithful(h, roll, rows, Past) /\ h.st \notin {"pending", "paused"}
      /\ Back(h) => h.copy[h.c] # "rolled_back"
      /\ ~Back(h) => h.copy[h.c] \notin Restoring
  BY <1>2 DEF AtWork
<1>5. h.seen \in Outcome(h) /\ h.st # "preparing" /\ h.st \in Resumable \cup {"paused", "rolling_back"}
  BY <1>2, <1>4 DEF Placed, Judging
<1>6. CASE Write(w, [Moving(h, "failed") EXCEPT !.ok = FALSE]) /\ UNCHANGED rows
  <2> DEFINE m == Moving(h, "failed")
             k == [m EXCEPT !.ok = FALSE]
  <2>1. m \in Memory /\ m.pc = "move" /\ SameReading(m, h) /\ m.c = h.c /\ m.to = "failed"
    BY DEF Moving, Memory, SameReading, Active, RolloutStates
  <2>3. Write(w, k)
    BY <1>6
  <2> HIDE DEF m
  <2>2. k \in Memory /\ k.pc = "move" /\ SameReading(k, h) /\ k.c = h.c /\ k.to = "failed"
    BY <2>1 DEF Memory, SameReading
  <2> HIDE DEF k
  <2>4. Past \in BOOLEAN
    BY DEF Past
  <2>5. Sound(k, roll, rows, Past)
    BY <1>2, <2>2, <2>4, GoesOn, StaysSound
  <2>6. QED
    BY <1>3, <1>6, <2>2, <2>3, <2>5, MemoryStep
<1>7. CASE UpdateRolloutCohort(w, h.seen, Settled(h))
  <2> DEFINE s == h.seen
             g == Settled(h)
  <2>1. s \in CohortStates /\ (s \in Restoring <=> Back(h))
    BY <1>5 DEF Outcome, CohortStates, Restoring, Back
  <2>2. h.copy[h.c] \in Done => s \in Done
    <3>1. CASE Back(h)
      BY <2>1, <3>1 DEF Done
    <3>2. CASE ~Back(h) /\ h.st = "canary"
      BY <1>4, <3>2 DEF Done, Placed, Early
    <3>3. CASE ~Back(h) /\ h.st # "canary"
      BY <1>5, <3>3 DEF Done, Outcome
    <3>4. QED
      BY <3>1, <3>2, <3>3
  <2>3. h.copy[h.c] = "rolled_back" => s = "rolled_back"
    BY <1>4 DEF Restoring
  <2>4. s = "completed" => Past
    <3> SUFFICES ASSUME s = "completed" PROVE Past
      OBVIOUS
    <3>1. ~Back(h) /\ h.st # "canary"
      BY <1>5 DEF Outcome, Back
    <3>2. h.st \in {"verifying", "rolling_out"}
      BY <1>4, <1>5, <3>1 DEF Back, Resumable, Forward
    <3>3. QED
      BY <1>4, <3>2 DEF Faithful
  <2>5. \/ g = Ended
        \/ \E to \in {"verifying", "rolling_out", "failed"} : g = Moving(h, to)
    BY DEF Settled
  <2>6. Stays(g, h) /\ (g.pc \in Active => g.pc = "move")
    <3>1. CASE g = Ended
      BY <3>1, IdleIn DEF Stays, Active, Work, Judging
    <3>2. ASSUME NEW to \in {"verifying", "rolling_out", "failed"}, g = Moving(h, to)
          PROVE  Stays(g, h) /\ g.pc = "move"
      <4>1. g \in Memory /\ g.pc = "move" /\ SameReading(g, h) /\ g.c = h.c /\ g.to = to
        BY ZenonT(30), <3>2 DEF Moving, Memory, SameReading, Active, RolloutStates, Claimable, Resumable, Forward
      <4>2. QED
        BY <1>2, <4>1, GoesOn
    <3>3. QED
      BY <2>5, <3>1, <3>2
  <2> HIDE DEF g
  <2>7. /\ g \in Memory
        /\ g.pc \in Active => /\ Placed(g) /\ g.st = h.st /\ g.cur = h.cur /\ g.known = h.known
                              /\ g.copy = h.copy /\ g.pc = "move"
    BY <2>6 DEF Stays, SameReading
  <2>8. UpdateRolloutCohort(w, s, g)
    BY <1>7 DEF g
  <2> HIDE DEF s
  <2>9. /\ Memories' /\ Advances /\ rows' \in [Cohorts -> CohortStates]
        /\ roll \notin BackOnly => \A c \in Cohorts : rows'[c] \notin Restoring
        /\ \A c \in Cohorts : rows'[c] = "completed" => Past'
    BY <1>2, <1>3, <1>4, <2>1, <2>2, <2>3, <2>4, <2>7, <2>8, CohortStep DEF OrderInv
  <2>10. QED
    BY <1>3, <2>9, CohortKeeps
<1>8. QED
  BY <1>2, <1>6, <1>7 DEF SettleCohort

LEMMA MoveKeeps ==
    ASSUME OrderInv, NEW w \in Controllers, Move(w) PROVE OrderInv'
<1>1. PICK h \in Memory : h = held[w] /\ Sound(h, roll, rows, Past)
  BY Reading
<1>2. h.pc = "move" /\ Placed(h) /\ Faithful(h, roll, rows, Past)
  <2>1. held[w].pc = "move"
    BY Zenon DEF Move, At
  <2>2. QED
    BY <1>1, <2>1 DEF Sound, Active
<1>3. UNCHANGED <<rows, dep>>
  BY Zenon DEF Move
<1>4. CASE ~h.cur
  <2>1. Write(w, Ended) /\ UNCHANGED <<roll, boundary, asked>>
    BY <1>1, <1>4, Zenon DEF Move
  <2>2. QED
    BY <1>3, <2>1, EndingKeeps
<1>5. CASE h.cur
  <2>1. TransitionRollout(h.to)
    BY <1>1, <1>5, Zenon DEF Move
  <2>2. held' = [v \in Controllers |-> IF v = w THEN Ended ELSE Blind(held[v])]
    BY <1>1, <1>5, Zenon DEF Move, Blind
  <2>3. roll # "paused"
    BY <1>2, <1>5 DEF Placed, Faithful
  <2>4. ASSUME h.to \in {"completed", "rolled_back"}, NEW c \in Cohorts PROVE rows[c] = h.to
    <3>1. h.copy[c] = h.to
      BY <1>2, <2>4 DEF Placed
    <3>2. CASE h.to = "rolled_back"
      BY <1>2, <3>1, <3>2 DEF Faithful
    <3>3. CASE h.to = "completed"
      <4>1. rows[c] \in Done
        BY <1>2, <3>1, <3>3 DEF Faithful, Done
      <4>2. roll \notin BackOnly
        BY <2>1, <3>3 DEF TransitionRollout, rolloutTransitions, Resumable, Forward, BackOnly
      <4>3. rows[c] \notin Restoring
        BY <4>2 DEF OrderInv, Rows
      <4>4. QED
        BY <3>3, <4>1, <4>3 DEF Done
    <3>4. QED
      BY <2>4, <3>2, <3>3
  <2>5. Rows' /\ Advances
    BY <1>3, <2>1, <2>3, <2>4, RollStep DEF OrderInv
  <2>6. Memories'
    BY <1>3, <2>2, <2>5, OutdateStep DEF OrderInv
  <2>7. QED
    BY <1>3, <2>5, <2>6, OrderKept, EndKept DEF OrderInv
<1>6. QED
  BY <1>4, <1>5

(* A request; those that decide themselves do not touch a paused rollout   *)
(* but to roll it back.                                                    *)
LEMMA RequestKeeps ==
    ASSUME OrderInv, NEW to, TransitionRollout(to), Outdate, UNCHANGED <<rows, dep>>,
           to \in {"paused", "rolling_back", asked}
    PROVE  OrderInv'
<1>1. roll = "paused" => to # "paused"
  BY DEF TransitionRollout, rolloutTransitions, Resumable, Forward
<1>0. to \notin {"completed", "rolled_back"}
  BY DEF OrderInv, Rows, Forward
<1>2. Rows' /\ Advances
  BY <1>0, <1>1, RollStep DEF OrderInv
<1>3. held' = [v \in Controllers |-> Blind(held[v])]
  BY Zenon DEF Outdate, Blind
<1>4. Memories'
  BY <1>2, <1>3, OutdateStep DEF OrderInv
<1>5. QED
  BY <1>2, <1>4, OrderKept, EndKept DEF OrderInv

(* What touches neither a row nor a memory.                                *)
LEMMA FrameKeeps ==
    ASSUME OrderInv, UNCHANGED <<roll, rows, held, dep>>,
           \/ UNCHANGED <<boundary, asked>>
           \/ AskResume
    PROVE  OrderInv'
<1>1. Past => Past'
  BY DEF Past, AskResume, Early
<1>2. asked' \in Forward \cup {"none"}
  BY DEF AskResume, OrderInv, Rows, Resumable, Forward
<1>3. Advances
  BY <1>1 DEF Advances
<1>4. Rows' /\ DeployedInOrder'
  BY <1>1, <1>2, <1>3, OrderKept DEF OrderInv, Rows
<1>5. Past \in BOOLEAN /\ Past' \in BOOLEAN
  BY DEF Past
<1>6. ASSUME NEW v \in Controllers PROVE Sound(held[v], roll, rows, Past')
  <2>1. held[v] \in Memory /\ Sound(held[v], roll, rows, Past)
    BY Reading
  <2>2. QED
    BY <1>1, <1>5, <2>1, SoundKept
<1>7. Memories'
  BY <1>6 DEF OrderInv, Memories
<1>8. QED
  BY <1>3, <1>4, <1>7, EndKept DEF OrderInv

LEMMA PassKeeps ==
    ASSUME OrderInv, NEW w \in Controllers, Pass(w) PROVE OrderInv'
<1>1. CASE ClaimNextRollout(w)
  <2> DEFINE k == [Idle EXCEPT !.pc = "load"]
  <2>1. k \in Memory /\ k.pc = "load"
    BY IdleIn DEF Memory
  <2>2. Write(w, k) /\ ClaimEvent /\ UNCHANGED <<roll, asked, rows, dep>>
    BY <1>1 DEF ClaimNextRollout, deployVars
  <2> HIDE DEF k
  <2>3. QED
    BY <2>1, <2>2, ClaimKeeps
<1>2. CASE ReleaseRolloutClaim(w)
  <2>1. Write(w, Idle) /\ (ClaimEvent \/ UNCHANGED boundary) /\ UNCHANGED <<roll, asked, rows, dep>>
    BY <1>2 DEF ReleaseRolloutClaim, deployVars
  <2>2. QED
    BY <2>1, IdleIn, ClaimKeeps
<1>3. CASE Stop(w)
  BY <1>3, EndingKeeps DEF Stop, rollVars, deployVars
<1>4. QED
  BY <1>1, <1>2, <1>3, CheckLeaseKeeps, ReconcileKeeps, ApplyLifecycleKeeps,
     StartAssignmentKeeps, DeployKeeps, ReadbackKeeps, AssignWorkersKeeps, AcceptAssignmentKeeps,
     HealthKeeps, RecordHealthKeeps, SettleCohortKeeps, MoveKeeps, Zenon DEF Pass

LEMMA NextKeeps ==
    ASSUME OrderInv, [Next]_vars PROVE OrderInv'
<1>1. CASE \E w \in Controllers : Pass(w)
  BY <1>1, PassKeeps
<1>2. CASE \E w \in Controllers : Fail(w)
  BY <1>2, EndingKeeps DEF Fail, rollVars, deployVars
<1>3. CASE \E w \in Controllers : CrashInApply(w)
  BY <1>3, CrashInApplyKeeps
<1>4. CASE Expire \/ Suspend
  BY <1>4, FrameKeeps DEF Expire, Suspend, Unlease, rollVars, deployVars
<1>5. CASE CloseGate \/ RevokeRelease
  BY <1>5, FrameKeeps DEF CloseGate, RevokeRelease, deployVars
<1>6. CASE \E c \in Cohorts : PassDeadline(c)
  BY <1>6, FrameKeeps DEF PassDeadline, rollVars, deployVars
<1>7. CASE \E to \in {"paused", "rolling_back"} : Operate(to)
  BY <1>7, RequestKeeps DEF Operate, deployVars
<1>8. CASE AskResume
  BY <1>8, FrameKeeps DEF AskResume, deployVars
<1>9. CASE Resume
  BY <1>9, RequestKeeps DEF Resume, deployVars
<1>10. CASE UNCHANGED vars
  BY <1>10, FrameKeeps DEF vars, rollVars, deployVars
<1>11. QED
  BY <1>1, <1>2, <1>3, <1>4, <1>5, <1>6, <1>7, <1>8, <1>9, <1>10, Zenon DEF Next

LEMMA InitOrder == Init => OrderInv
<1> SUFFICES ASSUME Init PROVE OrderInv
  OBVIOUS
<1>1. Rows
  BY DEF Init, Rows, RolloutStates, Claimable, Resumable, CohortStates, Restoring
<1>2. Memories
  <2>1. \A w \in Controllers : Sound(Idle, roll, rows, Past)
    BY IdleIn, NotActive
  <2>2. QED
    BY <2>1, IdleIn DEF Init, Memories
<1>3. DeployedInOrder /\ EndsInRows
  BY DEF Init, DeployedInOrder, EndsInRows
<1>4. QED
  BY <1>1, <1>2, <1>3 DEF OrderInv

(* The new release is deployed to a cohort only when all before it have    *)
(* completed, and the prior one restored only when all after it have it,   *)
(* whatever replaced controllers still do.                                 *)
THEOREM DeployedInOrderHolds == Spec => []DeployedInOrder
<1>1. OrderInv /\ [Next]_vars => OrderInv'
  BY NextKeeps
<1>2. OrderInv => DeployedInOrder
  BY DEF OrderInv
<1>3. QED
  BY InitOrder, <1>1, <1>2, PTL DEF Spec

-----------------------------------------------------------------------------
(* What a deployment ends as.  As long as no replaced controller has made  *)
(* a call, only the claim's owner calls the runtime; the others can still  *)
(* write cohorts whose version they know.                                  *)

Ends == {"completed", "rolled_back"}

(* What a pass still has to do fits what it has decided.                   *)
Tidy(h) ==
  /\ h.pc \in Judging => h.copy[h.c] \in Accepted(h)
  /\ h.todo \subseteq Reached(h.act, h.copy)
  /\ h.pc = "lifecycle" <=> h.todo # {}
  /\ Back(h) => h.act \in {"cancel", "none"}
  /\ h.st \in Resumable /\ h.to \in {"none", "completed"} => h.act = "resume"

(* Nothing goes forward again.                                             *)
Restored(h, rw) == \A c \in Cohorts : h.copy[c] \in Restoring => rw[c] \in Restoring

Passes == \A w \in Controllers :
  held[w].pc \in Active => Tidy(held[w]) /\ Restored(held[w], rows)

Told(c, r) == dep[c].op = r /\ assigned[c] = r

Advanced == {"observing", "healthy", "completed"}
Reverted == {"rollback_observing", "rolled_back"}

(* A cohort accepted as assigned is deployed so.                           *)
Standing == \A c \in Cohorts :
  /\ rows[c] \in Advanced => Told(c, "to")
  /\ rows[c] \in Reverted => Told(c, "from") /\ dep[c].ctl = "resumed"

(* So is one whose acceptance will still be written.                       *)
Ready == \A w \in Controllers :
  held[w].pc = "accept" /\ held[w].c \in held[w].known =>
    /\ Told(held[w].c, Desired(held[w].copy[held[w].c]))
    /\ w = owner \/ Back(held[w]) => dep[held[w].c].ctl = "resumed"

Leading == owner \in Controllers /\ held[owner].pc \in Active

Waits(h) == h.pc \in {"readback", "status", "accept"} \cup Judging /\ Back(h)

(* A cohort that the owner has not read as restored is not restored by     *)
(* others beyond the row that announces it.                                *)
Alone == Leading => \A c \in Cohorts : held[owner].copy[c] \notin Restoring =>
  /\ rows[c] \notin Reverted \cup {"reconciliation_failed"}
  /\ \A w \in Controllers \ {owner} : Waits(held[w]) => held[w].c # c

(* What a resuming owner has passed is resumed.                            *)
Swept == Leading /\ held[owner].act = "resume" =>
  \A c \in Reached("resume", held[owner].copy) \ held[owner].todo : dep[c].ctl = "resumed"

(* What the owner has read back before it tells the workers.               *)
Checked(h) == dep[h.c].op = Desired(h.copy[h.c]) /\ dep[h.c].ctl = "resumed"

Verified == Leading /\ held[owner].pc = "status" => Checked(held[owner])

(* Nobody calls the runtime any more.                                      *)
Over == roll \in Ends =>
  /\ owner \in Controllers => held[owner].pc \in {"idle", "end"}
  /\ roll = "completed" => \A c \in Cohorts : dep[c].ctl = "resumed"

Deployed == Standing /\ Ready /\ Alone /\ Swept /\ Verified /\ Over

EndInv == Passes /\ (~late => Deployed)

-----------------------------------------------------------------------------
(* Only cohorts read as going forward have a lifecycle call to come.       *)
LEMMA TodoForward ==
    ASSUME NEW h \in Memory, Placed(h), Tidy(h), NEW c \in h.todo
    PROVE  c \in Cohorts /\ h.copy[c] \notin Restoring
<1>1. c \in Cohorts /\ c \in Reached(h.act, h.copy)
  BY DEF Memory, Tidy
<1>2. CASE Back(h)
  <2>1. h.act = "cancel"
    BY <1>1, <1>2 DEF Tidy, Reached
  <2>2. QED
    BY <1>1, <2>1 DEF Reached
<1>3. CASE ~Back(h)
  BY <1>1, <1>3 DEF Placed
<1>4. QED
  BY <1>1, <1>2, <1>3

(* A pass that waits for the verdict on a restored cohort has read it as   *)
(* being restored.                                                         *)
LEMMA WaitsRestored ==
    ASSUME NEW h \in Memory, Placed(h), Tidy(h), Waits(h)
    PROVE  h.copy[h.c] \in Restoring
  BY DEF Waits, Placed, Tidy, Accepted, Assigning, Restoring

LEMMA PassReading ==
    ASSUME OrderInv, EndInv, NEW w \in Controllers, held[w].pc \in Active
    PROVE  /\ held[w] \in Memory /\ Placed(held[w]) /\ Faithful(held[w], roll, rows, Past)
           /\ Tidy(held[w]) /\ Restored(held[w], rows)
<1>1. held[w] \in Memory /\ Sound(held[w], roll, rows, Past)
  BY Reading
<1>2. QED
  BY <1>1 DEF Sound, EndInv, Passes

(* A memory that stays as it was, as far as calls are concerned.           *)
Kept(g, h) ==
  \/ g.pc \in {"idle", "end"}
  \/ /\ \/ g.pc = h.pc
        \/ h.pc \in Judging /\ g.pc \in Judging \cup {"move"}
        \/ h.pc = "readback" /\ g.pc = "status" /\ Checked(h)
     /\ g.pc \in Active =>
          /\ g.st = h.st /\ g.act = h.act /\ g.todo = h.todo /\ g.copy = h.copy /\ g.c = h.c
          /\ g.known \subseteq h.known /\ Tidy(g)

LEMMA KeptSame ==
    ASSUME NEW g, NEW h, g.pc = h.pc, h.pc \in Active => Tidy(h),
           g.st = h.st, g.act = h.act, g.todo = h.todo, g.copy = h.copy, g.c = h.c, g.to = h.to,
           g.known \subseteq h.known
    PROVE  Kept(g, h)
<1>1. Back(g) = Back(h) /\ Accepted(g) = Accepted(h)
  BY DEF Back, Accepted
<1>2. g.pc \in Active => Tidy(g)
  BY <1>1 DEF Tidy
<1>3. QED
  BY <1>2 DEF Kept

(* The restored rows stay, and so do what passes have read of them.        *)
LEMMA PassesKept ==
    ASSUME OrderInv, Passes, \A c \in Cohorts : rows[c] \in Restoring => rows'[c] \in Restoring,
           \A v \in Controllers :
             \/ Kept(held'[v], held[v])
             \/ held'[v].pc \in Active => Tidy(held'[v]) /\ Restored(held'[v], rows')
    PROVE  Passes'
<1> SUFFICES ASSUME NEW v \in Controllers, held'[v].pc \in Active
             PROVE  Tidy(held'[v]) /\ Restored(held'[v], rows')
  BY DEF Passes, Tidy, Restored, Reached, Back, Accepted
<1>1. CASE Kept(held'[v], held[v])
  <2>1. held[v].pc \in Active /\ held'[v].copy = held[v].copy /\ Tidy(held'[v])
    BY <1>1 DEF Kept, Active, Work, Judging
  <2>2. Restored(held[v], rows)
    BY <2>1 DEF Passes
  <2>3. QED
    BY <2>1, <2>2 DEF Restored
<1>2. QED
  BY <1>1

(* A step that neither calls the runtime nor writes a cohort.              *)
LEMMA QuietStep ==
    ASSUME OrderInv, EndInv, UNCHANGED <<rows, dep, assigned>>, late => late',
           roll' = roll \/ roll' \notin Ends,
           \A v \in Controllers :
             \/ Kept(held'[v], held[v])
             \/ held'[v].pc = "load" /\ roll' \notin Ends,
           \/ owner' = owner
           \/ owner' \notin Controllers
           \/ roll' \notin Ends /\ held'[owner'].pc = "load"
    PROVE  EndInv'
<1>0. "load" \notin Active \cup {"idle", "end", "readback", "accept", "status"} \cup Judging
  BY DEF Active, Work, Judging
<1>1. Passes'
  BY <1>0, PassesKept DEF EndInv
<1>2. ASSUME ~late' PROVE Deployed'
  <2>1. Standing /\ Ready /\ Alone /\ Swept /\ Verified /\ Over
    BY <1>2 DEF EndInv, Deployed
  <2>2. Standing'
    BY <2>1 DEF Standing, Told
  <2>3. ASSUME NEW v \in Controllers, held'[v].pc \in Active
        PROVE  /\ held[v].pc \in Active /\ held'[v].st = held[v].st /\ held'[v].act = held[v].act
               /\ held'[v].todo = held[v].todo /\ held'[v].copy = held[v].copy
               /\ held'[v].c = held[v].c /\ held'[v].known \subseteq held[v].known
               /\ \/ held'[v].pc = held[v].pc
                  \/ held[v].pc \in Judging /\ held'[v].pc \in Judging \cup {"move"}
                  \/ /\ held[v].pc = "readback" /\ held'[v].pc = "status"
                     /\ Checked(held[v])
    BY <1>0, <2>3 DEF Kept, Active, Work, Judging
  <2>4. "accept" \in Active \ (Judging \cup {"move", "status"})
    BY DEF Active, Work, Judging
  <2>5. Leading' => owner' = owner /\ Leading
    BY <1>0, <2>3 DEF Leading
  <2>6. Ready'
    <3> SUFFICES ASSUME NEW v \in Controllers, held'[v].pc = "accept", held'[v].c \in held'[v].known
                 PROVE  /\ Told(held[v].c, Desired(held[v].copy[held[v].c]))
                        /\ v = owner' \/ Back(held[v]) => dep[held[v].c].ctl = "resumed"
      BY <2>3, <2>4 DEF Ready, Told, Desired, Back
    <3>1. held[v].pc = "accept" /\ held[v].c \in held[v].known /\ held'[v].pc \in Active
      BY <2>3, <2>4
    <3>2. v = owner' => v = owner
      BY <2>5, <3>1 DEF Leading
    <3>3. QED
      BY <2>1, <3>1, <3>2 DEF Ready
  <2>7. ASSUME NEW v \in Controllers, Waits(held'[v]) PROVE Waits(held[v]) /\ held[v].c = held'[v].c
    <3>1. held'[v].pc \in Active
      BY <2>7 DEF Waits, Active, Work
    <3>2. QED
      BY <2>3, <2>7, <3>1 DEF Waits, Back, Judging
  <2>8. Leading' => held'[owner].copy = held[owner].copy /\ held'[owner].act = held[owner].act
                    /\ held'[owner].todo = held[owner].todo
    BY <2>3, <2>5 DEF Leading
  <2>9. Alone'
    BY <2>1, <2>5, <2>7, <2>8 DEF Alone, Waits, Back
  <2>10. Swept'
    BY <2>1, <2>5, <2>8 DEF Swept, Reached
  <2>11. Verified'
    <3> SUFFICES ASSUME Leading', held'[owner].pc = "status" PROVE Checked(held[owner])
      BY <2>5, <2>8, <2>3 DEF Verified, Checked, Leading
    <3>1. "status" \notin Judging \cup {"move"}
      BY DEF Judging
    <3>2. held[owner].pc = "status" \/ Checked(held[owner])
      BY <2>3, <2>5, <3>1 DEF Leading
    <3>3. QED
      BY <2>1, <2>5, <3>2 DEF Verified
  <2>12. Over'
    <3> SUFFICES ASSUME roll' \in Ends
                 PROVE  /\ owner' \in Controllers => held'[owner'].pc \in {"idle", "end"}
                        /\ roll' = "completed" => \A c \in Cohorts : dep[c].ctl = "resumed"
      BY DEF Over, Ends
    <3>1. roll' = roll
      OBVIOUS
    <3>2. ASSUME owner' \in Controllers PROVE held'[owner'].pc \in {"idle", "end"}
      <4>1. owner' = owner /\ held[owner].pc \in {"idle", "end"}
        BY <2>1, <3>1, <3>2 DEF Over
      <4>2. Kept(held'[owner], held[owner])
        BY <3>2, <4>1
      <4>3. QED
        BY <4>1, <4>2 DEF Kept, Judging
    <3>3. QED
      BY <2>1, <3>1, <3>2 DEF Over
  <2>13. QED
    BY <2>2, <2>6, <2>9, <2>10, <2>11, <2>12 DEF Deployed
<1>3. QED
  BY <1>1, <1>2 DEF EndInv

(* A cohort whose version is known gets another state.                     *)
Rewritten(w, h, s, g) ==
  /\ UNCHANGED <<roll, owner, dep, assigned, late>>
  /\ h = held[w] /\ h.pc \in Work /\ h.c \in h.known
  /\ rows' = [rows EXCEPT ![h.c] = s]
  /\ \A v \in Controllers \ {w} : Kept(held'[v], held[v])
  /\ held'[w] = g
  /\ g.pc \in Active =>
       /\ g.pc \notin {"lifecycle", "readback", "status", "accept"}
       /\ g.pc \in Judging => h.pc \in {"accept"} \cup Judging
       /\ g.st = h.st /\ g.act = h.act /\ g.todo = h.todo /\ g.c = h.c /\ Tidy(g)
       /\ g.copy = h.copy \/ g.copy = [h.copy EXCEPT ![h.c] = s]
  /\ s \in Restoring <=> Back(h)
  /\ s \in Reverted \cup {"reconciliation_failed"} => h.pc \in {"accept"} \cup Judging

LEMMA RowStep ==
    ASSUME OrderInv, EndInv, NEW w \in Controllers, NEW h \in Memory, NEW s \in CohortStates,
           NEW g \in Memory, Rewritten(w, h, s, g),
           ~late => /\ s \in Advanced => Told(h.c, "to")
                    /\ s \in Reverted => Told(h.c, "from") /\ dep[h.c].ctl = "resumed"
                    /\ g.pc \in Active /\ g.copy # h.copy /\ w = owner /\ s \in Advanced =>
                         dep[h.c].ctl = "resumed"
    PROVE  EndInv'
<1> DEFINE c == h.c
<1> USE DEF Rewritten
<1>1. h.pc \in Active /\ Placed(h) /\ Faithful(h, roll, rows, Past) /\ Tidy(h) /\ Restored(h, rows)
  BY PassReading DEF Active
<1>2. c \in Cohorts /\ rows[c] = h.copy[c] /\ h.copy \in [Cohorts -> CohortStates]
  BY <1>1 DEF Faithful, Work, Judging, Memory
<1>3. /\ rows' \in [Cohorts -> CohortStates] /\ rows'[c] = s
      /\ \A d \in Cohorts \ {c} : rows'[d] = rows[d]
  BY <1>2 DEF OrderInv, Rows
<1>4. ~Back(h) => rows[c] \notin Restoring
  BY <1>1, <1>2 DEF Placed
<1>5. \A d \in Cohorts : rows[d] \in Restoring => rows'[d] \in Restoring
  BY <1>3, <1>4
<1>6. g.pc \in Active => \A d \in Cohorts : g.copy[d] \in Restoring => rows'[d] \in Restoring
  <2> SUFFICES ASSUME g.pc \in Active, NEW d \in Cohorts, g.copy[d] \in Restoring
               PROVE  rows'[d] \in Restoring
    OBVIOUS
  <2>1. CASE g.copy = h.copy
    BY <1>1, <1>5, <2>1 DEF Restored
  <2>2. CASE g.copy = [h.copy EXCEPT ![c] = s]
    BY <1>1, <1>2, <1>3, <1>5, <2>2 DEF Restored
  <2>3. QED
    BY <2>1, <2>2
<1>7. Passes'
  BY <1>5, <1>6, PassesKept DEF EndInv, Restored
<1>8. ASSUME ~late' PROVE Deployed'
  <2>1. ~late /\ Standing /\ Ready /\ Alone /\ Swept /\ Verified /\ Over
    BY <1>8 DEF EndInv, Deployed
  <2>2. Standing'
    BY <1>3, <2>1 DEF Standing, Told
  <2>3. ASSUME NEW v \in Controllers \ {w}, held'[v].pc \in Active
        PROVE  /\ held[v].pc \in Active /\ held'[v].st = held[v].st /\ held'[v].act = held[v].act
               /\ held'[v].todo = held[v].todo /\ held'[v].copy = held[v].copy
               /\ held'[v].c = held[v].c /\ held'[v].known \subseteq held[v].known
               /\ \/ held'[v].pc = held[v].pc
                  \/ held[v].pc \in Judging /\ held'[v].pc \in Judging \cup {"move"}
                  \/ /\ held[v].pc = "readback" /\ held'[v].pc = "status"
                     /\ Checked(held[v])
    BY <2>3 DEF Kept, Active, Work, Judging
  <2>4. "accept" \in Active \ (Judging \cup {"move", "status"})
    BY DEF Active, Work, Judging
  <2>5. Leading' => Leading
    <3>1. CASE owner = w
      BY <1>1, <3>1 DEF Leading
    <3>2. CASE owner # w
      BY <2>3, <3>2 DEF Leading
    <3>3. QED
      BY <3>1, <3>2
  <2>6. Ready'
    <3> SUFFICES ASSUME NEW v \in Controllers, held'[v].pc = "accept", held'[v].c \in held'[v].known
                 PROVE  /\ Told(held'[v].c, Desired(held'[v].copy[held'[v].c]))
                        /\ v = owner \/ Back(held'[v]) => dep[held'[v].c].ctl = "resumed"
      BY DEF Ready, Told, Desired, Back
    <3>1. v # w
      BY <2>4
    <3>2. /\ held[v].pc = "accept" /\ held'[v].c = held[v].c /\ held'[v].copy = held[v].copy
          /\ held'[v].st = held[v].st /\ held[v].c \in held[v].known
      BY <2>3, <2>4, <3>1
    <3>3. QED
      BY <2>1, <3>2 DEF Ready, Back
  <2>7. ASSUME NEW v \in Controllers, Waits(held'[v])
        PROVE  Waits(held[v]) /\ held[v].c = held'[v].c
    <3>1. held'[v].pc \in Active
      BY <2>7 DEF Waits, Active, Work
    <3>2. CASE v = w
      BY <2>7, <3>1, <3>2 DEF Waits, Back
    <3>3. CASE v # w
      BY <2>3, <2>7, <3>1, <3>3 DEF Waits, Back, Judging
    <3>4. QED
      BY <3>2, <3>3
  <2>8. ASSUME Leading', NEW d \in Cohorts, held'[owner].copy[d] \notin Restoring
        PROVE  held[owner].copy[d] \notin Restoring
    <3>1. CASE owner = w
      <4>1. CASE g.copy = h.copy
        BY <2>8, <3>1, <4>1
      <4>2. CASE g.copy = [h.copy EXCEPT ![c] = s]
        <5>1. CASE d = c
          BY <1>2, <1>4, <2>8, <3>1, <4>2, <5>1
        <5>2. CASE d # c
          BY <1>2, <2>8, <3>1, <4>2, <5>2
        <5>3. QED
          BY <5>1, <5>2
      <4>3. QED
        BY <2>8, <3>1, <4>1, <4>2 DEF Leading
    <3>2. CASE owner # w
      BY <2>3, <2>8, <3>2 DEF Leading
    <3>3. QED
      BY <3>1, <3>2
  <2>9. ASSUME Leading, held[owner].copy[c] \notin Restoring
        PROVE  s \notin Reverted \cup {"reconciliation_failed"} \/ (owner = w /\ s \in Restoring)
    <3> SUFFICES ASSUME s \in Reverted \cup {"reconciliation_failed"}, owner # w PROVE FALSE
      BY DEF Reverted, Restoring
    <3>1. Waits(h)
      BY DEF Waits, Reverted, Restoring
    <3>2. QED
      BY <1>2, <2>1, <2>9, <3>1 DEF Alone
  <2>10. Alone'
    <3> SUFFICES ASSUME Leading', NEW d \in Cohorts, held'[owner].copy[d] \notin Restoring
                 PROVE  /\ rows'[d] \notin Reverted \cup {"reconciliation_failed"}
                        /\ \A v \in Controllers \ {owner} : Waits(held'[v]) => held'[v].c # d
      BY DEF Alone, Waits, Back
    <3>1. Leading /\ held[owner].copy[d] \notin Restoring
      BY <2>5, <2>8
    <3>2. \A v \in Controllers \ {owner} : Waits(held'[v]) => held'[v].c # d
      BY <2>1, <2>7, <3>1 DEF Alone
    <3>3. CASE d # c
      BY <1>3, <2>1, <3>1, <3>2, <3>3 DEF Alone
    <3>4. CASE d = c
      <4>1. ASSUME owner = w, Back(h), s \in Reverted \cup {"reconciliation_failed"} PROVE FALSE
        <5>1. h.copy[c] \notin Restoring /\ Waits(h)
          BY <3>1, <3>4, <4>1 DEF Waits
        <5>2. QED
          BY <1>1, <5>1, WaitsRestored
      <4>2. s \in Reverted \cup {"reconciliation_failed"} => Back(h)
        BY DEF Reverted, Restoring
      <4>3. QED
        BY <1>3, <2>9, <3>1, <3>2, <3>4, <4>1, <4>2
    <3>5. QED
      BY <3>3, <3>4
  <2>11. Swept'
    <3> SUFFICES ASSUME Leading', held'[owner].act = "resume",
                        NEW d \in Reached("resume", held'[owner].copy) \ held'[owner].todo
                 PROVE  dep[d].ctl = "resumed"
      BY DEF Swept, Reached
    <3>1. d \in Cohorts /\ Leading
      BY <2>5 DEF Reached
    <3>2. CASE owner # w
      <4>1. /\ held'[owner].copy = held[owner].copy /\ held'[owner].act = held[owner].act
            /\ held'[owner].todo = held[owner].todo
        BY <2>3, <3>2 DEF Leading
      <4>2. QED
        BY <2>1, <3>1, <4>1 DEF Swept
    <3>3. CASE owner = w
      <4>1. g.pc \in Active /\ h.act = "resume" /\ d \notin h.todo /\ d \in Reached("resume", g.copy)
        BY <3>3 DEF Leading
      <4>2. CASE d \in Reached("resume", h.copy)
        BY <2>1, <3>1, <3>3, <4>1, <4>2 DEF Swept
      <4>3. CASE d \notin Reached("resume", h.copy)
        <5>1. g.copy = [h.copy EXCEPT ![c] = s] /\ d = c /\ g.copy # h.copy
          BY <1>2, <4>1, <4>3 DEF Reached
        <5>2. s \notin {"assigning", "rollback_assigning", "pending", "reconciliation_failed"}
          BY <1>2, <4>1, <5>1 DEF Reached, HasDeployment
        <5>3. s \in Advanced \cup Reverted
          BY <5>2 DEF CohortStates, Restoring, Advanced, Reverted
        <5>4. QED
          BY <2>1, <3>3, <4>1, <5>1, <5>3
      <4>4. QED
        BY <4>2, <4>3
    <3>4. QED
      BY <3>2, <3>3
  <2>12. Verified'
    <3> SUFFICES ASSUME Leading', held'[owner].pc = "status" PROVE Checked(held'[owner])
      BY DEF Verified, Checked
    <3>1. owner # w
      BY DEF Leading
    <3>2. "status" \notin Judging \cup {"move"}
      BY DEF Judging
    <3>3. /\ held[owner].pc = "status" \/ Checked(held[owner])
          /\ held'[owner].c = held[owner].c /\ held'[owner].copy = held[owner].copy
      BY <2>3, <3>1, <3>2 DEF Leading
    <3>4. Checked(held[owner])
      BY <2>1, <2>5, <3>3 DEF Verified
    <3>5. QED
      BY <3>3, <3>4 DEF Checked
  <2>13. Over'
    <3>1. owner = w => roll \notin Ends
      BY <1>1, <2>1 DEF Over, Active, Work, Judging
    <3>2. ASSUME owner \in Controllers, roll \in Ends PROVE held'[owner].pc \in {"idle", "end"}
      <4>1. held[owner].pc \in {"idle", "end"} /\ Kept(held'[owner], held[owner])
        BY <2>1, <3>1, <3>2 DEF Over
      <4>2. QED
        BY <4>1 DEF Kept, Judging
    <3>3. QED
      BY <2>1, <3>2 DEF Over
  <2>14. QED
    BY <2>2, <2>6, <2>10, <2>11, <2>12, <2>13 DEF Deployed
<1>9. QED
  BY <1>7, <1>8 DEF EndInv

(* What a pass does next fits what it has decided.                         *)
Begins(g, h) ==
  /\ g.st = h.st /\ g.act = h.act /\ g.todo = h.todo /\ g.copy = h.copy /\ Tidy(g)
  /\ g.pc \in {"lifecycle", "move", "assign", "deploy", "health"}

LEMMA OnwardTidy ==
    ASSUME NEW h \in Memory, h.todo \subseteq Reached(h.act, h.copy),
           Back(h) => h.act \in {"cancel", "none"}, h.to \notin Ends,
           h.st \in Resumable /\ h.to = "none" => h.act = "resume"
    PROVE  Onward(h) = Ended \/ Begins(Onward(h), h)
<1> DEFINE g == Onward(h)
<1>1. CASE h.todo # {}
  <2>1. /\ g.pc = "lifecycle" /\ g.st = h.st /\ g.act = h.act /\ g.todo = h.todo /\ g.copy = h.copy
        /\ g.to = h.to
    BY <1>1 DEF Onward, Memory
  <2>2. Tidy(g)
    BY <1>1, <2>1 DEF Tidy, Judging, Back, Ends
  <2>3. QED
    BY <2>1, <2>2 DEF Begins
<1>2. CASE h.todo = {} /\ h.to # "none"
  <2>1. /\ g.pc = "move" /\ g.st = h.st /\ g.act = h.act /\ g.todo = h.todo /\ g.copy = h.copy
        /\ g.to = h.to
    BY <1>2 DEF Onward, Memory
  <2>2. Tidy(g)
    BY <1>2, <2>1 DEF Tidy, Judging, Back, Ends
  <2>3. QED
    BY <2>1, <2>2 DEF Begins
<1>3. CASE h.todo = {} /\ h.to = "none" /\ h.st = "paused"
  BY <1>3 DEF Onward
<1>4. CASE h.todo = {} /\ h.to = "none" /\ h.st # "paused" /\ Left(h) # {}
  <2>1. PICK c : g = OnCohort(h, c)
    BY <1>4 DEF Onward
  <2> DEFINE k == [h EXCEPT !.c = c]
  <2>2. /\ k.st = h.st /\ k.act = h.act /\ k.todo = h.todo /\ k.copy = h.copy /\ k.to = h.to
        /\ k.c = c
    BY DEF Memory
  <2>3. /\ DOMAIN k = DOMAIN h
        /\ DOMAIN h = {"pc", "ok", "st", "cur", "copy", "known", "c", "act", "todo", "to", "seen"}
    BY DEF Memory
  <2>4. OnCohort(h, c) = IF h.copy[c] \in Accepted(h) THEN AfterAssign(k)
                         ELSE [k EXCEPT !.pc = IF h.copy[c] = Assigning(h) THEN "deploy" ELSE "assign"]
    BY DEF OnCohort
  <2> HIDE DEF k
  <2>5. CASE h.copy[c] \in Accepted(h) /\ h.st = "preparing"
    <3>1. g = [k EXCEPT !.pc = "move", !.to = "canary"]
      BY <2>1, <2>2, <2>4, <2>5 DEF AfterAssign
    <3>2. /\ g.pc = "move" /\ g.st = h.st /\ g.act = h.act /\ g.todo = h.todo /\ g.copy = h.copy
          /\ g.to = "canary"
      BY <2>2, <2>3, <3>1
    <3>3. Tidy(g)
      BY <1>4, <3>2 DEF Tidy, Judging, Back
    <3>4. QED
      BY <3>2, <3>3 DEF Begins
  <2>6. CASE h.copy[c] \in Accepted(h) /\ h.st # "preparing"
    <3>1. g = [k EXCEPT !.pc = "health"]
      BY <2>1, <2>2, <2>4, <2>6 DEF AfterAssign
    <3>2. /\ g.pc = "health" /\ g.st = h.st /\ g.act = h.act /\ g.todo = h.todo /\ g.copy = h.copy
          /\ g.to = h.to /\ g.c = c
      BY <2>2, <2>3, <3>1
    <3>3. Tidy(g)
      BY <1>4, <2>6, <3>2 DEF Tidy, Judging, Back, Accepted
    <3>4. QED
      BY <3>2, <3>3 DEF Begins
  <2>7. CASE h.copy[c] \notin Accepted(h)
    <3>1. PICK p \in {"deploy", "assign"} : g = [k EXCEPT !.pc = p]
      BY <2>1, <2>4, <2>7
    <3>2. /\ g.pc = p /\ g.st = h.st /\ g.act = h.act /\ g.todo = h.todo /\ g.copy = h.copy
          /\ g.to = h.to
      BY <2>2, <2>3, <3>1
    <3>3. Tidy(g)
      BY <1>4, <3>2 DEF Tidy, Judging, Back
    <3>4. QED
      BY <3>2, <3>3 DEF Begins
  <2>8. QED
    BY <2>5, <2>6, <2>7
<1>5. CASE h.todo = {} /\ h.to = "none" /\ h.st # "paused" /\ Left(h) = {}
  <2>1. PICK to : g = [h EXCEPT !.pc = "move", !.to = to]
    BY <1>5 DEF Onward
  <2>2. /\ g.pc = "move" /\ g.st = h.st /\ g.act = h.act /\ g.todo = h.todo /\ g.copy = h.copy
    BY <2>1 DEF Memory
  <2>3. Tidy(g)
    BY <1>5, <2>2 DEF Tidy, Judging, Back
  <2>4. QED
    BY <2>2, <2>3 DEF Begins
<1>6. QED
  BY <1>1, <1>2, <1>3, <1>4, <1>5

LEMMA Written ==
    ASSUME OrderInv, EndInv, NEW w \in Controllers, NEW g, Write(w, g)
    PROVE  held'[w] = g /\ \A v \in Controllers \ {w} : held'[v] = held[v] /\ Kept(held'[v], held[v])
<1>1. held'[w] = g /\ \A v \in Controllers \ {w} : held'[v] = held[v]
  BY DEF Write, OrderInv, Memories
<1>2. ASSUME NEW v \in Controllers \ {w} PROVE Kept(held'[v], held[v])
  <2>1. held[v].pc \in Active => Tidy(held[v])
    BY DEF EndInv, Passes
  <2>2. QED
    BY <1>1, <2>1, KeptSame
<1>3. QED
  BY <1>1, <1>2

LEMMA QuietWrite ==
    ASSUME OrderInv, EndInv, NEW w \in Controllers, NEW g, Write(w, g), Kept(g, held[w]),
           UNCHANGED <<roll, rows, dep, assigned>>, late => late',
           owner' = owner \/ owner' \notin Controllers
    PROVE  EndInv'
  BY Written, QuietStep

(* A call of the owner, about one cohort.                                  *)
LEMMA CallStep ==
    ASSUME OrderInv, EndInv, NEW w \in Controllers, NEW h \in Memory, h = held[w], h.pc \in Active,
           UNCHANGED <<roll, owner, rows>>, Called(w), NEW g, Write(w, g),
           g.pc \in Active => /\ g.st = h.st /\ g.act = h.act /\ g.copy = h.copy /\ Tidy(g),
           NEW c \in Cohorts, \A d \in Cohorts \ {c} : dep'[d] = dep[d] /\ assigned'[d] = assigned[d],
           dep'[c].op \in {dep[c].op, Desired(h.copy[c])},
           assigned'[c] \in {assigned[c], Desired(h.copy[c])},
           ~late' =>
             /\ dep'[c].ctl = "resumed" \/ h.copy[c] \notin Restoring
             /\ g.pc \in Active /\ h.act = "resume" =>
                  dep'[c].ctl = "resumed" /\ h.todo \subseteq g.todo \cup {c}
             /\ g.pc \in {"status", "accept"} =>
                  g.c = c /\ dep'[c].op = Desired(h.copy[c]) /\ dep'[c].ctl = "resumed"
             /\ g.pc = "accept" => assigned'[c] = Desired(h.copy[c])
    PROVE  EndInv'
<1>1. Placed(h) /\ Faithful(h, roll, rows, Past) /\ Tidy(h) /\ Restored(h, rows)
  BY PassReading
<1>2. held'[w] = g /\ \A v \in Controllers \ {w} : held'[v] = held[v] /\ Kept(held'[v], held[v])
  BY Written
<1>3. Passes'
  <2>1. g.pc \in Active => Restored(g, rows')
    BY <1>1 DEF Restored
  <2>2. QED
    BY <1>2, <2>1, PassesKept DEF EndInv
<1>4. ASSUME ~late' PROVE Deployed'
  <2>0. /\ dep'[c].ctl = "resumed" \/ h.copy[c] \notin Restoring
        /\ g.pc \in Active /\ h.act = "resume" =>
             dep'[c].ctl = "resumed" /\ h.todo \subseteq g.todo \cup {c}
        /\ g.pc \in {"status", "accept"} =>
             g.c = c /\ dep'[c].op = Desired(h.copy[c]) /\ dep'[c].ctl = "resumed"
        /\ g.pc = "accept" => assigned'[c] = Desired(h.copy[c])
    BY <1>4
  <2>1. ~late /\ owner = w /\ Standing /\ Ready /\ Alone /\ Swept /\ Over
    BY <1>4 DEF EndInv, Deployed, Called
  <2>2. Leading
    BY <2>1 DEF Leading
  <2>3. roll \notin Ends
    BY <2>1, <2>2 DEF Over, Leading, Active, Work, Judging
  <2>4. ASSUME rows[c] \in Reverted \/ \E v \in Controllers \ {w} : Waits(held[v]) /\ held[v].c = c
        PROVE  h.copy[c] \in Restoring
    BY <2>1, <2>2, <2>4 DEF Alone
  <2>5. rows[c] \notin Restoring => h.copy[c] \notin Restoring
    BY <1>1 DEF Restored
  <2>6. Standing'
    <3> SUFFICES ASSUME NEW d \in Cohorts
                 PROVE  /\ rows[d] \in Advanced => dep'[d].op = "to" /\ assigned'[d] = "to"
                        /\ rows[d] \in Reverted => /\ dep'[d].op = "from" /\ assigned'[d] = "from"
                                                   /\ dep'[d].ctl = "resumed"
      BY DEF Standing, Told
    <3>1. CASE d # c
      BY <2>1, <3>1 DEF Standing, Told
    <3>2. CASE d = c /\ rows[c] \in Advanced
      <4>1. Desired(h.copy[c]) = "to" /\ rows[c] \notin Reverted
        BY <2>5, <3>2 DEF Desired, Advanced, Restoring, Reverted
      <4>2. QED
        BY <2>0, <2>1, <3>2, <4>1 DEF Standing, Told
    <3>3. CASE d = c /\ rows[c] \in Reverted
      <4>1. Desired(h.copy[c]) = "from" /\ rows[c] \notin Advanced /\ h.copy[c] \in Restoring
        BY <2>4, <3>3 DEF Desired, Advanced, Reverted
      <4>2. QED
        BY <2>0, <2>1, <3>3, <4>1 DEF Standing, Told
    <3>4. QED
      BY <3>1, <3>2, <3>3
  <2>7. Ready'
    <3> SUFFICES ASSUME NEW v \in Controllers, held'[v].pc = "accept", held'[v].c \in held'[v].known
                 PROVE  /\ dep'[held'[v].c].op = Desired(held'[v].copy[held'[v].c])
                        /\ assigned'[held'[v].c] = Desired(held'[v].copy[held'[v].c])
                        /\ v = owner \/ Back(held'[v]) => dep'[held'[v].c].ctl = "resumed"
      BY DEF Ready, Told, Desired, Back
    <3>1. CASE v = w
      <4>1. g.pc \in Active
        BY <1>2, <3>1 DEF Active, Work
      <4>2. QED
        BY <1>2, <2>0, <3>1, <4>1
    <3>2. CASE v # w
      <4>1. PICK m : m = held[v] /\ m = held'[v]
        BY <1>2, <3>2
      <4>2. /\ m.pc = "accept" /\ m.c \in m.known /\ dep[m.c].op = Desired(m.copy[m.c])
            /\ assigned[m.c] = Desired(m.copy[m.c]) /\ (Back(m) => dep[m.c].ctl = "resumed")
        BY <2>1, <4>1 DEF Ready, Told
      <4>3. m.pc \in Active
        BY <4>2 DEF Active, Work
      <4>4. m \in Memory /\ Placed(m) /\ Faithful(m, roll, rows, Past)
        BY <4>1, <4>3, PassReading
      <4>5. m.c \in Cohorts /\ rows[m.c] = m.copy[m.c] /\ m.copy[m.c] = Assigning(m)
        BY <4>2, <4>4 DEF Memory, Placed, Faithful
      <4>6. CASE m.c # c
        BY <2>1, <3>2, <4>1, <4>2, <4>5, <4>6
      <4>7. CASE m.c = c /\ Back(m)
        <5>1. Waits(m)
          BY <4>2, <4>7 DEF Waits
        <5>2. h.copy[c] \in Restoring /\ m.copy[c] \in Restoring
          BY <2>4, <3>2, <4>1, <4>5, <4>7, <5>1 DEF Assigning, Restoring
        <5>3. QED
          BY <2>0, <4>1, <4>2, <4>7, <5>2 DEF Desired
      <4>8. CASE m.c = c /\ ~Back(m)
        <5>1. m.copy[c] \notin Restoring
          BY <4>5, <4>8 DEF Assigning, Restoring
        <5>2. h.copy[c] \notin Restoring
          BY <2>5, <4>5, <4>8, <5>1
        <5>3. QED
          BY <2>1, <3>2, <4>1, <4>2, <4>8, <5>1, <5>2 DEF Desired
      <4>9. QED
        BY <4>6, <4>7, <4>8
    <3>3. QED
      BY <3>1, <3>2
  <2>8. Alone'
    BY <1>2, <2>1, <2>2 DEF Alone, Leading, Waits, Back
  <2>9. Swept'
    <3> SUFFICES ASSUME Leading', g.act = "resume", NEW d \in Reached("resume", g.copy) \ g.todo
                 PROVE  dep'[d].ctl = "resumed"
      BY <1>2, <2>1 DEF Swept, Reached
    <3>1. g.pc \in Active /\ h.act = "resume" /\ d \in Cohorts /\ d \in Reached("resume", h.copy)
      BY <1>2, <2>1 DEF Leading, Reached
    <3>2. CASE d = c
      BY <2>0, <3>1, <3>2
    <3>3. CASE d # c
      <4>1. d \notin h.todo
        BY <2>0, <3>1, <3>3
      <4>2. QED
        BY <2>1, <2>2, <3>1, <3>3, <4>1 DEF Swept
    <3>4. QED
      BY <3>2, <3>3
  <2>10. Verified'
    <3> SUFFICES ASSUME g.pc = "status"
                 PROVE  dep'[g.c].op = Desired(g.copy[g.c]) /\ dep'[g.c].ctl = "resumed"
      BY <1>2, <2>1 DEF Verified, Checked, Desired
    <3>1. g.copy = h.copy
      BY DEF Active, Work
    <3>2. QED
      BY <2>0, <3>1
  <2>11. Over'
    BY <2>3 DEF Over
  <2>12. QED
    BY <2>6, <2>7, <2>8, <2>9, <2>10, <2>11 DEF Deployed
<1>5. QED
  BY <1>3, <1>4 DEF EndInv

-----------------------------------------------------------------------------
(* The actions, again                                                      *)

(* A pass that ends.                                                       *)
LEMMA EndingDeploys ==
    ASSUME OrderInv, EndInv, NEW w \in Controllers, Write(w, Idle) \/ Write(w, Ended),
           UNCHANGED <<roll, rows, dep, assigned>>, late => late',
           owner' = owner \/ owner' \notin Controllers
    PROVE  EndInv'
<1>1. Kept(Idle, held[w]) /\ Kept(Ended, held[w])
  BY IdleIn DEF Kept
<1>2. QED
  BY <1>1, QuietWrite

LEMMA CheckLeaseDeploys ==
    ASSUME OrderInv, EndInv, NEW w \in Controllers, CheckLease(w) PROVE EndInv'
<1>1. PICK h \in Memory : h = held[w]
  BY Reading
<1> DEFINE k == [h EXCEPT !.ok = TRUE]
<1>2. Write(w, k) /\ UNCHANGED <<roll, rows, dep, assigned, late, owner>>
  BY <1>1 DEF CheckLease, rollVars, deployVars
<1>3. /\ k.pc = h.pc /\ k.st = h.st /\ k.copy = h.copy /\ k.c = h.c /\ k.to = h.to
      /\ k.act = h.act /\ k.todo = h.todo /\ k.known = h.known
  BY DEF Memory
<1> HIDE DEF k
<1>4. Kept(k, h)
  BY <1>1, <1>3, KeptSame DEF EndInv, Passes
<1>5. QED
  BY <1>1, <1>2, <1>4, QuietWrite

(* What is read is decided at once.                                        *)
LEMMA PlanDeploys ==
    ASSUME OrderInv, EndInv, NEW w \in Controllers, owner = w,
           NEW act \in {"none", "pause", "resume", "cancel"},
           NEW to \in {"none", "failed", "rolling_back", "paused", "preparing"},
           roll \in Resumable \cup {"paused", "rolling_back"},
           roll = "rolling_back" => act \in {"cancel", "none"},
           roll \in Resumable /\ to = "none" => act = "resume",
           Plan(w, act, to), UNCHANGED <<roll, owner, rows, dep, assigned, late>>
    PROVE  EndInv'
<1> DEFINE h == [Idle EXCEPT !.st = roll, !.cur = TRUE, !.copy = rows, !.known = Cohorts,
                             !.act = act, !.todo = Reached(act, rows), !.to = to]
           g == Onward(h)
<1>1. Reached(act, rows) \subseteq Cohorts
  BY DEF Reached
<1>2. to \in RolloutStates \cup {"none"} /\ to \notin Ends
  BY DEF RolloutStates, Claimable, Resumable, Forward, Ends
<1>3. /\ h \in Memory /\ h.st = roll /\ h.copy = rows /\ h.to = to /\ h.act = act
      /\ h.todo = Reached(act, rows)
  BY ZenonT(30), <1>1, <1>2, IdleIn DEF Memory, OrderInv, Rows
<1>4. Write(w, g)
  BY DEF Plan
<1> HIDE DEF h
<1>5. Back(h) <=> roll = "rolling_back"
  BY <1>3 DEF Back
<1>6. g = Ended \/ Begins(g, h)
  BY <1>2, <1>3, <1>5, OnwardTidy
<1> HIDE DEF g
<1>7. CASE g = Ended
  BY <1>4, <1>7, EndingDeploys
<1>8. CASE Begins(g, h)
  <2>1. /\ g.copy = rows /\ g.act = act /\ g.todo = Reached(act, rows) /\ Tidy(g)
        /\ g.pc \in Active \ {"status", "accept"}
    BY <1>3, <1>8 DEF Begins, Active, Work, Judging
  <2>2. held'[w] = g /\ \A v \in Controllers \ {w} : held'[v] = held[v] /\ Kept(held'[v], held[v])
    BY <1>4, Written
  <2>3. Passes'
    BY <2>1, <2>2, PassesKept DEF EndInv, Restored
  <2>4. ASSUME ~late' PROVE Deployed'
    <3>1. Standing /\ Ready /\ Over
      BY <2>4 DEF EndInv, Deployed
    <3>2. Standing'
      BY <3>1 DEF Standing, Told
    <3>3. Ready'
      <4> SUFFICES ASSUME NEW v \in Controllers, held'[v].pc = "accept", held'[v].c \in held'[v].known
                   PROVE  /\ Told(held'[v].c, Desired(held'[v].copy[held'[v].c]))
                          /\ v = owner \/ Back(held'[v]) => dep[held'[v].c].ctl = "resumed"
        BY DEF Ready, Told, Desired, Back
      <4>1. v # w
        BY <2>1, <2>2
      <4>2. QED
        BY <2>2, <3>1, <4>1 DEF Ready
    <3>4. Alone'
      <4> SUFFICES ASSUME NEW d \in Cohorts, rows[d] \notin Restoring
                   PROVE  /\ rows[d] \notin Reverted \cup {"reconciliation_failed"}
                          /\ \A v \in Controllers \ {w} : Waits(held[v]) => held[v].c # d
        BY <2>1, <2>2 DEF Alone, Waits, Back
      <4>1. rows[d] \notin Reverted \cup {"reconciliation_failed"}
        BY DEF Reverted, Restoring
      <4>2. ASSUME NEW v \in Controllers \ {w}, Waits(held[v]), held[v].c = d PROVE FALSE
        <5>1. held[v].pc \in Active
          BY <4>2 DEF Waits, Active, Work
        <5>2. held[v].copy[d] \in Restoring /\ Restored(held[v], rows)
          BY <4>2, <5>1, PassReading, WaitsRestored
        <5>3. QED
          BY <5>2 DEF Restored
      <4>3. QED
        BY <4>1, <4>2
    <3>5. Swept'
      BY <2>1, <2>2 DEF Swept, Reached
    <3>6. Verified'
      BY <2>1, <2>2 DEF Verified
    <3>7. Over'
      BY DEF Over, Ends, Resumable, Forward
    <3>8. QED
      BY <3>2, <3>3, <3>4, <3>5, <3>6, <3>7 DEF Deployed
  <2>5. QED
    BY <2>3, <2>4 DEF EndInv
<1>9. QED
  BY <1>6, <1>7, <1>8

LEMMA ReconcileDeploys ==
    ASSUME OrderInv, EndInv, NEW w \in Controllers, Reconcile(w) PROVE EndInv'
<1>1. UNCHANGED <<roll, owner, rows, dep, assigned, late>> /\ owner = w
  BY DEF Reconcile, Current, rollVars, deployVars
<1>2. CASE roll = "paused"
  <2>1. Plan(w, "pause", "none")
    BY <1>2 DEF Reconcile, Resumable, Forward
  <2>2. QED
    BY <1>1, <1>2, <2>1, PlanDeploys DEF Resumable, Forward
<1>3. CASE roll = "rolling_back"
  <2>1. ReconcileBack(w)
    BY <1>3 DEF Reconcile, Resumable, Forward
  <2>2. \E act \in {"none", "cancel"}, to \in {"none", "failed"} : Plan(w, act, to)
    BY <2>1 DEF ReconcileBack
  <2>3. QED
    BY <1>1, <1>3, <2>2, PlanDeploys DEF Resumable, Forward
<1>4. CASE roll \in Resumable
  <2>1. ReconcileForward(w)
    BY <1>4 DEF Reconcile, Resumable, Forward
  <2>2. \E act \in {"none", "pause", "resume"},
           to \in {"none", "failed", "rolling_back", "paused", "preparing"} :
          Plan(w, act, to) /\ (to = "none" => act = "resume")
    BY <2>1 DEF ReconcileForward
  <2>3. roll \notin {"paused", "rolling_back"}
    BY <1>4 DEF Resumable, Forward
  <2>4. QED
    BY <1>1, <1>4, <2>2, <2>3, PlanDeploys
<1>5. CASE roll \notin Resumable \cup {"paused", "rolling_back"}
  <2>1. Write(w, Ended)
    BY <1>5 DEF Reconcile
  <2>2. QED
    BY <1>1, <2>1, EndingDeploys
<1>6. QED
  BY <1>2, <1>3, <1>4, <1>5

LEMMA ApplyLifecycleDeploys ==
    ASSUME OrderInv, EndInv, NEW w \in Controllers, ApplyLifecycle(w) PROVE EndInv'
<1>1. PICK h \in Memory : h = held[w] /\ h.pc = "lifecycle" /\ Placed(h) /\ Tidy(h)
  <2>1. held[w].pc = "lifecycle"
    BY DEF ApplyLifecycle
  <2>2. QED
    BY <2>1, PassReading DEF Active
<1>2. h.todo # {} /\ h.todo \subseteq Cohorts
  BY <1>1 DEF Tidy, Memory
<1>3. PICK c \in h.todo : c = First(h.todo)
  BY <1>2, FirstIs
<1>4. c \in Cohorts /\ h.copy[c] \notin Restoring
  BY <1>1, TodoForward
<1> DEFINE k == [h EXCEPT !.todo = @ \ {c}]
           g == Onward(k)
<1>5. /\ k \in Memory /\ k.st = h.st /\ k.copy = h.copy /\ k.to = h.to /\ k.act = h.act
      /\ k.todo = h.todo \ {c}
  BY DEF Memory
<1>6. /\ Write(w, g) /\ dep' = [dep EXCEPT ![c].ctl = Word(h.act)] /\ Called(w)
      /\ UNCHANGED <<roll, owner, rows, assigned>>
  BY <1>1, <1>3 DEF ApplyLifecycle, rollVars
<1> HIDE DEF k
<1>7. g = Ended \/ Begins(g, k)
  <2>1. k.to \notin Ends
    BY <1>1, <1>5 DEF Placed, Ends
  <2>2. k.todo \subseteq Reached(k.act, k.copy)
    BY <1>1, <1>5 DEF Tidy
  <2>3. /\ Back(k) => k.act \in {"cancel", "none"}
        /\ k.st \in Resumable /\ k.to = "none" => k.act = "resume"
    BY <1>1, <1>5 DEF Tidy, Back
  <2>4. QED
    BY <1>5, <2>1, <2>2, <2>3, OnwardTidy
<1> HIDE DEF g
<1>8. CASE g = Ended
  <2>1. g.pc \notin Active /\ g.pc \notin {"status", "accept"}
    BY <1>8, IdleIn DEF Active, Work, Judging
  <2>2. /\ \A d \in Cohorts \ {c} : dep'[d] = dep[d]
        /\ dep'[c].op = dep[c].op
    BY <1>4, <1>6 DEF OrderInv, Rows
  <2>3. h.pc \in Active
    BY <1>1 DEF Active
  <2>4. QED
    BY <1>1, <1>4, <1>6, <2>1, <2>2, <2>3, CallStep
<1>9. CASE Begins(g, k)
  <2>1. /\ g.st = h.st /\ g.act = h.act /\ g.copy = h.copy /\ g.todo = h.todo \ {c} /\ Tidy(g)
        /\ g.pc \notin {"status", "accept"}
    BY <1>5, <1>9 DEF Begins
  <2>2. /\ \A d \in Cohorts \ {c} : dep'[d] = dep[d]
        /\ dep'[c].op = dep[c].op /\ dep'[c].ctl = Word(h.act)
    BY <1>4, <1>6 DEF OrderInv, Rows
  <2>3. h.pc \in Active /\ (h.act = "resume" => Word(h.act) = "resumed")
    BY <1>1 DEF Active, Word
  <2>4. h.todo \subseteq g.todo \cup {c}
    BY <2>1
  <2>5. QED
    BY <1>1, <1>4, <1>6, <2>1, <2>2, <2>3, <2>4, CallStep
<1>10. QED
  BY <1>7, <1>8, <1>9

LEMMA WorkPass ==
    ASSUME OrderInv, EndInv, NEW w \in Controllers, held[w].pc \in Work
    PROVE  /\ held[w] \in Memory /\ held[w].pc \in Active /\ held[w].c \in Cohorts
           /\ AtWork(held[w], roll, rows, Past) /\ Tidy(held[w]) /\ held[w].todo = {}
<1>1. held[w].pc \in Active /\ held[w].pc # "lifecycle"
  BY DEF Active, Work, Judging
<1>2. held[w] \in Memory /\ Tidy(held[w]) /\ AtWork(held[w], roll, rows, Past)
  BY <1>1, PassReading, WorkReading
<1>3. QED
  BY <1>1, <1>2 DEF Tidy, Memory

(* A call on the cohort a pass works on.                                   *)
LEMMA TidyOn ==
    ASSUME NEW h \in Memory, Tidy(h), NEW g, g.st = h.st, g.act = h.act, g.todo = h.todo,
           g.to = h.to, h.pc # "lifecycle", g.pc \notin Judging \cup {"lifecycle"}, g.copy = h.copy
    PROVE  Tidy(g)
  BY DEF Tidy, Back

LEMMA DeployDeploys ==
    ASSUME OrderInv, EndInv, NEW w \in Controllers, Deploy(w) PROVE EndInv'
<1>1. held[w].pc = "deploy"
  BY Zenon DEF Deploy, At
<1>2. PICK h \in Memory : /\ h = held[w] /\ h.pc = "deploy" /\ h.c \in Cohorts /\ Tidy(h)
                          /\ h.todo = {}
  BY <1>1, WorkPass DEF Work
<1>3. PICK t : t = Target(w) /\ t = Desired(h.copy[h.c])
  BY <1>2 DEF Target
<1> DEFINE k == [h EXCEPT !.pc = "readback", !.ok = FALSE]
           m == [h EXCEPT !.pc = "status", !.ok = FALSE]
<1>4. UNCHANGED <<roll, owner, rows, assigned>> /\ Called(w)
  BY Zenon DEF Deploy, rollVars
<1>5. \/ Write(w, Ended) /\ UNCHANGED dep
      \/ Write(w, m) /\ dep[h.c] = [op |-> t, ctl |-> "resumed"] /\ UNCHANGED dep
      \/ Write(w, k) /\ dep' = [dep EXCEPT ![h.c] = [op |-> t, ctl |-> "resumed"]]
  BY <1>2, <1>3 DEF Deploy, Matches
<1>6. /\ k.pc = "readback" /\ k.st = h.st /\ k.act = h.act /\ k.copy = h.copy /\ k.todo = h.todo
      /\ k.to = h.to
      /\ m.pc = "status" /\ m.st = h.st /\ m.act = h.act /\ m.copy = h.copy /\ m.todo = h.todo
      /\ m.to = h.to /\ m.c = h.c
  BY DEF Memory
<1> HIDE DEF k, m
<1>7. Tidy(k) /\ Tidy(m)
  BY <1>2, <1>6, TidyOn DEF Judging
<1>8. h.pc \in Active
  BY <1>2 DEF Active, Work
<1>9. CASE Write(w, Ended) /\ UNCHANGED dep
  BY <1>4, <1>9, EndingDeploys DEF Called
<1>10. CASE Write(w, m) /\ dep[h.c] = [op |-> t, ctl |-> "resumed"] /\ UNCHANGED dep
  <2>1. /\ \A d \in Cohorts \ {h.c} : dep'[d] = dep[d]
        /\ dep'[h.c].op = t /\ dep'[h.c].ctl = "resumed"
    BY <1>10
  <2>2. QED
    BY <1>2, <1>3, <1>4, <1>6, <1>7, <1>8, <1>10, <2>1, CallStep
<1>11. CASE Write(w, k) /\ dep' = [dep EXCEPT ![h.c] = [op |-> t, ctl |-> "resumed"]]
  <2>1. /\ \A d \in Cohorts \ {h.c} : dep'[d] = dep[d]
        /\ dep'[h.c].op = t /\ dep'[h.c].ctl = "resumed"
    BY <1>2, <1>11 DEF OrderInv, Rows
  <2>2. QED
    BY <1>2, <1>3, <1>4, <1>6, <1>7, <1>8, <1>11, <2>1, CallStep
<1>12. QED
  BY <1>5, <1>9, <1>10, <1>11

LEMMA ReadbackDeploys ==
    ASSUME OrderInv, EndInv, NEW w \in Controllers, Readback(w) PROVE EndInv'
<1>1. held[w].pc = "readback"
  BY Zenon DEF Readback
<1>2. PICK h \in Memory : /\ h = held[w] /\ h.pc = "readback" /\ h.c \in Cohorts /\ Tidy(h)
                          /\ h.todo = {}
  BY <1>1, WorkPass DEF Work
<1> DEFINE k == [h EXCEPT !.pc = "status"]
<1>3. /\ UNCHANGED <<roll, owner, rows, dep, assigned, late>>
      /\ \/ Write(w, Ended)
         \/ Write(w, k) /\ Matches(w)
  BY <1>2 DEF Readback, rollVars, deployVars
<1>4. /\ k.pc = "status" /\ k.st = h.st /\ k.act = h.act /\ k.copy = h.copy /\ k.todo = h.todo
      /\ k.to = h.to /\ k.c = h.c /\ k.known = h.known
  BY DEF Memory
<1> HIDE DEF k
<1>5. CASE Write(w, Ended)
  BY <1>3, <1>5, EndingDeploys
<1>6. CASE Write(w, k) /\ Matches(w)
  <2>1. Checked(h)
    BY <1>2, <1>6 DEF Matches, Target, Checked
  <2>2. Tidy(k)
    BY <1>2, <1>4, TidyOn DEF Judging
  <2>3. Kept(k, h)
    BY <1>2, <1>4, <2>1, <2>2 DEF Kept
  <2>4. QED
    BY <1>2, <1>3, <1>6, <2>3, QuietWrite
<1>7. QED
  BY <1>3, <1>5, <1>6

LEMMA AssignWorkersDeploys ==
    ASSUME OrderInv, EndInv, assigned \in [Cohorts -> {"none", "to", "from"}],
           NEW w \in Controllers, AssignWorkers(w)
    PROVE  EndInv'
<1>1. held[w].pc = "status"
  BY Zenon DEF AssignWorkers
<1>2. PICK h \in Memory : /\ h = held[w] /\ h.pc = "status" /\ h.c \in Cohorts /\ Tidy(h)
                          /\ h.todo = {}
  BY <1>1, WorkPass DEF Work
<1>3. PICK t : t = Target(w) /\ t = Desired(h.copy[h.c])
  BY <1>2 DEF Target
<1> DEFINE k == [h EXCEPT !.pc = "accept"]
<1>4. /\ UNCHANGED <<roll, owner, rows, dep>> /\ Called(w)
      /\ Write(w, k) /\ assigned' = [assigned EXCEPT ![h.c] = t]
  BY <1>2, <1>3 DEF AssignWorkers, rollVars
<1>5. /\ k.pc = "accept" /\ k.st = h.st /\ k.act = h.act /\ k.copy = h.copy /\ k.todo = h.todo
      /\ k.to = h.to /\ k.c = h.c
  BY DEF Memory
<1> HIDE DEF k
<1>6. /\ \A d \in Cohorts \ {h.c} : dep'[d] = dep[d] /\ assigned'[d] = assigned[d]
      /\ assigned'[h.c] = t /\ dep'[h.c] = dep[h.c]
  BY <1>2, <1>4
<1>7. Tidy(k)
  BY <1>2, <1>5, TidyOn DEF Judging
<1>8. h.pc \in Active
  BY <1>2 DEF Active, Work
<1>9. ~late' => dep'[h.c].op = t /\ dep'[h.c].ctl = "resumed"
  <2> SUFFICES ASSUME ~late' PROVE dep[h.c].op = t /\ dep[h.c].ctl = "resumed"
    BY <1>6
  <2>1. ~late /\ owner = w
    BY <1>4 DEF Called
  <2>2. Verified /\ Leading
    BY <1>2, <1>8, <2>1 DEF EndInv, Deployed, Leading
  <2>3. Checked(h)
    BY <1>2, <2>1, <2>2 DEF Verified
  <2>4. QED
    BY <1>3, <2>3 DEF Checked
<1>10. QED
  BY <1>2, <1>3, <1>4, <1>5, <1>6, <1>7, <1>8, <1>9, CallStep

LEMMA CrashInApplyDeploys ==
    ASSUME OrderInv, EndInv, NEW w \in Controllers, CrashInApply(w) PROVE EndInv'
<1>1. held[w].pc = "deploy"
  BY Zenon DEF CrashInApply, At
<1>2. PICK h \in Memory : h = held[w] /\ h.pc = "deploy" /\ h.c \in Cohorts
  BY <1>1, WorkPass DEF Work
<1>3. /\ Write(w, Idle) /\ dep' = [dep EXCEPT ![h.c].ctl = "resumed"] /\ Called(w)
      /\ UNCHANGED <<roll, owner, rows, assigned>>
  BY <1>2 DEF CrashInApply, rollVars
<1>4. /\ \A d \in Cohorts \ {h.c} : dep'[d] = dep[d]
      /\ dep'[h.c].op = dep[h.c].op /\ dep'[h.c].ctl = "resumed"
  BY <1>2, <1>3 DEF OrderInv, Rows
<1>5. Idle.pc \notin Active /\ Idle.pc \notin {"status", "accept"} /\ h.pc \in Active
  BY <1>2, IdleIn DEF Active, Work, Judging
<1>6. QED
  BY <1>2, <1>3, <1>4, <1>5, CallStep

LEMMA HealthDeploys ==
    ASSUME OrderInv, EndInv, NEW w \in Controllers, Health(w) PROVE EndInv'
<1>1. held[w].pc = "health"
  BY Zenon DEF Health
<1>2. PICK h \in Memory : h = held[w] /\ h.pc = "health" /\ Tidy(h)
  BY <1>1, WorkPass DEF Work, Judging
<1>3. /\ \/ Write(w, Ended)
         \/ \E v : Write(w, [h EXCEPT !.pc = "record", !.seen = v])
      /\ UNCHANGED <<roll, owner, rows, dep, assigned, late>>
  BY <1>2 DEF Health, rollVars, deployVars
<1>4. CASE Write(w, Ended)
  BY <1>3, <1>4, EndingDeploys
<1>5. ASSUME NEW v, Write(w, [h EXCEPT !.pc = "record", !.seen = v]) PROVE EndInv'
  <2> DEFINE k == [h EXCEPT !.pc = "record", !.seen = v]
  <2>1. /\ k.pc = "record" /\ k.st = h.st /\ k.act = h.act /\ k.copy = h.copy /\ k.todo = h.todo
        /\ k.to = h.to /\ k.c = h.c /\ k.known = h.known
    BY DEF Memory
  <2>2. Write(w, k)
    BY <1>5
  <2> HIDE DEF k
  <2>3. Tidy(k)
    BY <1>2, <2>1 DEF Tidy, Back, Accepted, Judging
  <2>4. Kept(k, h)
    BY <1>2, <2>1, <2>3 DEF Kept, Judging
  <2>5. QED
    BY <1>2, <1>3, <2>2, <2>4, QuietWrite
<1>6. QED
  BY <1>3, <1>4, <1>5

(* UpdateRolloutCohort, when the version is known and when it is not.      *)
LEMMA UpdateCases ==
    ASSUME OrderInv, EndInv, NEW w \in Controllers, NEW h \in Memory, h = held[w],
           h.c \in Cohorts, NEW s, NEW g \in Memory, UpdateRolloutCohort(w, s, g),
           UNCHANGED <<roll, owner, dep, assigned, late>>
    PROVE  \/ EndInv'
           \/ /\ h.c \in h.known /\ rows' = [rows EXCEPT ![h.c] = s]
              /\ held'[w] \in Memory
              /\ held'[w].pc = g.pc /\ held'[w].st = g.st /\ held'[w].act = g.act
              /\ held'[w].todo = g.todo /\ held'[w].copy = g.copy /\ held'[w].c = g.c
              /\ held'[w].to = g.to /\ held'[w].known = g.known
              /\ \A v \in Controllers \ {w} : Kept(held'[v], held[v])
<1>1. CASE h.c \notin h.known
  <2>1. Write(w, Ended) /\ UNCHANGED rows
    BY <1>1 DEF UpdateRolloutCohort
  <2>2. QED
    BY <2>1, EndingDeploys
<1>2. CASE h.c \in h.known
  <2>1. /\ rows' = [rows EXCEPT ![h.c] = s]
        /\ held' = [v \in Controllers |-> IF v = w THEN [g EXCEPT !.ok = FALSE]
                                           ELSE [held[v] EXCEPT !.known = @ \ {h.c}]]
    BY <1>2 DEF UpdateRolloutCohort
  <2> DEFINE k == [g EXCEPT !.ok = FALSE]
  <2>2. /\ k \in Memory /\ k.pc = g.pc /\ k.st = g.st /\ k.act = g.act /\ k.todo = g.todo
        /\ k.copy = g.copy /\ k.c = g.c /\ k.to = g.to /\ k.known = g.known
    BY DEF Memory
  <2>3. held'[w] = k
    BY <2>1
  <2> HIDE DEF k
  <2>4. ASSUME NEW v \in Controllers \ {w} PROVE Kept(held'[v], held[v])
    <3>1. PICK m \in Memory : m = held[v] /\ (m.pc \in Active => Tidy(m))
      BY Reading DEF EndInv, Passes
    <3> DEFINE n == [m EXCEPT !.known = @ \ {h.c}]
    <3>2. /\ n.pc = m.pc /\ n.st = m.st /\ n.act = m.act /\ n.todo = m.todo
          /\ n.copy = m.copy /\ n.c = m.c /\ n.to = m.to /\ n.known \subseteq m.known
      BY DEF Memory
    <3>3. held'[v] = n
      BY <2>1, <3>1
    <3> HIDE DEF n
    <3>4. QED
      BY <3>1, <3>2, <3>3, KeptSame
  <2>5. QED
    BY <1>2, <2>1, <2>2, <2>3, <2>4
<1>3. QED
  BY <1>1, <1>2

LEMMA StartAssignmentDeploys ==
    ASSUME OrderInv, EndInv, NEW w \in Controllers, StartAssignment(w) PROVE EndInv'
<1>1. held[w].pc = "assign"
  BY Zenon DEF StartAssignment, At
<1>2. PICK h \in Memory : /\ h = held[w] /\ h.pc = "assign" /\ h.c \in Cohorts /\ Tidy(h)
                          /\ h.todo = {} /\ h.copy \in [Cohorts -> CohortStates]
  BY <1>1, WorkPass DEF Work, Memory
<1>3. PICK s \in CohortStates : /\ s = Assigning(h) /\ (s \in Restoring <=> Back(h))
                                /\ s \notin Advanced \cup Reverted \cup {"reconciliation_failed"}
  BY DEF Assigning, CohortStates, Restoring, Advanced, Reverted
<1> DEFINE g == [h EXCEPT !.pc = "deploy", !.copy = [h.copy EXCEPT ![h.c] = s]]
<1>4. UpdateRolloutCohort(w, s, g) /\ UNCHANGED <<roll, owner, dep, assigned, late>>
  BY <1>2, <1>3 DEF StartAssignment, rollVars, deployVars, Memory
<1>5. /\ g \in Memory /\ g.pc = "deploy" /\ g.st = h.st /\ g.act = h.act /\ g.todo = {}
      /\ g.c = h.c /\ g.to = h.to /\ g.copy = [h.copy EXCEPT ![h.c] = s]
  BY <1>2 DEF Memory, Active, Work
<1> HIDE DEF g
<1>6. CASE /\ h.c \in h.known /\ rows' = [rows EXCEPT ![h.c] = s]
           /\ held'[w] \in Memory
           /\ held'[w].pc = g.pc /\ held'[w].st = g.st /\ held'[w].act = g.act
           /\ held'[w].todo = g.todo /\ held'[w].copy = g.copy /\ held'[w].c = g.c
           /\ held'[w].to = g.to /\ held'[w].known = g.known
           /\ \A v \in Controllers \ {w} : Kept(held'[v], held[v])
  <2>1. PICK k \in Memory : k = held'[w]
    BY <1>6
  <2>2. /\ k.pc = "deploy" /\ k.st = h.st /\ k.act = h.act /\ k.todo = h.todo /\ k.c = h.c
        /\ k.copy = [h.copy EXCEPT ![h.c] = s] /\ k.to = h.to /\ k.todo = {}
    BY <1>2, <1>5, <1>6, <2>1
  <2>3. Tidy(k)
    BY <1>2, <2>2 DEF Tidy, Judging, Back
  <2>4. /\ k.pc \notin {"lifecycle", "readback", "status", "accept"}
        /\ k.pc \in Judging => h.pc \in {"accept"} \cup Judging
        /\ k.st = h.st /\ k.act = h.act /\ k.todo = h.todo /\ k.c = h.c /\ Tidy(k)
        /\ k.copy = h.copy \/ k.copy = [h.copy EXCEPT ![h.c] = s]
    BY <2>2, <2>3 DEF Judging
  <2>5. h.pc \in Work
    BY <1>2 DEF Work
  <2>6. /\ h = held[w] /\ h.c \in h.known /\ rows' = [rows EXCEPT ![h.c] = s]
        /\ \A v \in Controllers \ {w} : Kept(held'[v], held[v])
        /\ held'[w] = k /\ UNCHANGED <<roll, owner, dep, assigned, late>>
    BY <1>2, <1>4, <1>6, <2>1
  <2>7. QED
    <3>1. Rewritten(w, h, s, k)
      BY <1>3, <2>4, <2>5, <2>6 DEF Rewritten
    <3>2. s \notin Advanced \cup Reverted
      BY <1>3
    <3>3. QED
      BY <3>1, <3>2, RowStep
<1>7. QED
  BY <1>2, <1>4, <1>5, <1>6, UpdateCases

LEMMA AcceptAssignmentDeploys ==
    ASSUME OrderInv, EndInv, NEW w \in Controllers, AcceptAssignment(w) PROVE EndInv'
<1>1. held[w].pc = "accept"
  BY Zenon DEF AcceptAssignment, At
<1>2. PICK h \in Memory : /\ h = held[w] /\ h.pc = "accept" /\ h.c \in Cohorts /\ Tidy(h)
                          /\ h.todo = {} /\ h.copy \in [Cohorts -> CohortStates]
                          /\ AtWork(h, roll, rows, Past)
  BY <1>1, WorkPass DEF Work, Memory
<1>3. h.copy[h.c] = Assigning(h)
  BY <1>2 DEF AtWork, Placed
<1>4. PICK s \in CohortStates : /\ s = Observing(h) /\ (s \in Restoring <=> Back(h))
                                /\ s \in Accepted(h)
  BY DEF Observing, CohortStates, Restoring, Accepted
<1> DEFINE k == [h EXCEPT !.copy = [h.copy EXCEPT ![h.c] = s]]
           g == AfterAssign(k)
<1>5. UpdateRolloutCohort(w, s, g) /\ UNCHANGED <<roll, owner, dep, assigned, late>>
  BY <1>2, <1>4 DEF AcceptAssignment, rollVars, deployVars, Memory
<1>6. /\ k \in Memory /\ k.st = h.st /\ k.act = h.act /\ k.todo = h.todo /\ k.c = h.c
      /\ k.to = h.to /\ k.copy = [h.copy EXCEPT ![h.c] = s]
  BY <1>2 DEF Memory
<1> HIDE DEF k
<1>7. /\ g \in Memory /\ g.pc \in {"move", "health"} /\ g.st = h.st /\ g.act = h.act
      /\ g.todo = h.todo /\ g.c = h.c /\ g.copy = k.copy /\ g.to \in {h.to, "canary"}
  <2>1. CASE k.st = "preparing"
    <3> DEFINE m == [k EXCEPT !.pc = "move", !.to = "canary"]
    <3>1. g = m
      BY <2>1 DEF AfterAssign
    <3>2. "canary" \in RolloutStates
      BY DEF RolloutStates, Claimable, Resumable, Forward
    <3>3. /\ m \in Memory /\ m.pc = "move" /\ m.st = k.st /\ m.act = k.act /\ m.todo = k.todo
          /\ m.c = k.c /\ m.copy = k.copy /\ m.to = "canary"
      BY <1>6, <3>2 DEF Memory, Active
    <3> HIDE DEF m
    <3>4. QED
      BY <1>6, <3>1, <3>3
  <2>2. CASE k.st # "preparing"
    <3> DEFINE m == [k EXCEPT !.pc = "health"]
    <3>1. g = m
      BY <2>2 DEF AfterAssign
    <3>2. /\ m \in Memory /\ m.pc = "health" /\ m.st = k.st /\ m.act = k.act /\ m.todo = k.todo
          /\ m.c = k.c /\ m.copy = k.copy /\ m.to = k.to
      BY <1>6 DEF Memory, Active, Work, Judging
    <3> HIDE DEF m
    <3>3. QED
      BY <1>6, <3>1, <3>2
  <2>3. QED
    BY <2>1, <2>2
<1> HIDE DEF g
<1>8. CASE /\ h.c \in h.known /\ rows' = [rows EXCEPT ![h.c] = s]
           /\ held'[w] \in Memory
           /\ held'[w].pc = g.pc /\ held'[w].st = g.st /\ held'[w].act = g.act
           /\ held'[w].todo = g.todo /\ held'[w].copy = g.copy /\ held'[w].c = g.c
           /\ held'[w].to = g.to /\ held'[w].known = g.known
           /\ \A v \in Controllers \ {w} : Kept(held'[v], held[v])
  <2>1. PICK m \in Memory : m = held'[w]
    BY <1>8
  <2>2. /\ m.pc \in {"move", "health"} /\ m.st = h.st /\ m.act = h.act /\ m.todo = h.todo
        /\ m.c = h.c /\ m.copy = [h.copy EXCEPT ![h.c] = s] /\ m.to \in {h.to, "canary"}
        /\ m.todo = {}
    BY <1>2, <1>6, <1>7, <1>8, <2>1
  <2>3. m.copy[m.c] = s /\ Accepted(m) = Accepted(h)
    BY <1>2, <2>2 DEF Accepted, Back
  <2>4. Tidy(m)
    <3>1. "canary" \notin {"none", "completed"}
      OBVIOUS
    <3>2. QED
      BY <1>2, <1>4, <2>2, <2>3, <3>1 DEF Tidy, Back
  <2>5. ~late => /\ s \in Advanced => Told(h.c, "to")
                 /\ s \in Reverted => Told(h.c, "from") /\ dep[h.c].ctl = "resumed"
                 /\ w = owner => dep[h.c].ctl = "resumed"
    <3> SUFFICES ASSUME ~late
                 PROVE  /\ s \in Advanced => Told(h.c, "to")
                        /\ s \in Reverted => Told(h.c, "from") /\ dep[h.c].ctl = "resumed"
                        /\ w = owner => dep[h.c].ctl = "resumed"
      OBVIOUS
    <3>1. /\ Told(h.c, Desired(h.copy[h.c]))
          /\ w = owner \/ Back(h) => dep[h.c].ctl = "resumed"
      BY <1>2, <1>8 DEF EndInv, Deployed, Ready
    <3>2. CASE Back(h)
      <4>1. s = "rollback_observing" /\ Desired(h.copy[h.c]) = "from"
        BY <1>3, <1>4, <3>2 DEF Observing, Assigning, Desired, Restoring
      <4>2. QED
        BY <3>1, <3>2, <4>1 DEF Advanced
    <3>3. CASE ~Back(h)
      <4>1. s = "observing" /\ Desired(h.copy[h.c]) = "to"
        BY <1>3, <1>4, <3>3 DEF Observing, Assigning, Desired, Restoring
      <4>2. QED
        BY <3>1, <4>1 DEF Reverted
    <3>4. QED
      BY <3>2, <3>3
  <2>6. h.pc \in Work
    BY <1>2 DEF Work
  <2>7. /\ m.pc \notin {"lifecycle", "readback", "status", "accept"}
        /\ m.pc \in Judging => h.pc \in {"accept"} \cup Judging
        /\ m.st = h.st /\ m.act = h.act /\ m.todo = h.todo /\ m.c = h.c /\ Tidy(m)
        /\ m.copy = h.copy \/ m.copy = [h.copy EXCEPT ![h.c] = s]
    BY <1>2, <2>2, <2>4 DEF Judging
  <2>8. /\ h = held[w] /\ h.c \in h.known /\ rows' = [rows EXCEPT ![h.c] = s]
        /\ \A v \in Controllers \ {w} : Kept(held'[v], held[v])
        /\ held'[w] = m /\ UNCHANGED <<roll, owner, dep, assigned, late>>
    BY <1>2, <1>5, <1>8, <2>1
  <2>9. h.pc \in {"accept"} \cup Judging
    BY <1>2
  <2>10. QED
    <3>1. Rewritten(w, h, s, m)
      BY <1>4, <2>6, <2>7, <2>8, <2>9 DEF Rewritten
    <3>2. QED
      BY <2>5, <3>1, RowStep
<1>9. QED
  BY <1>2, <1>5, <1>7, <1>8, UpdateCases

(* What follows a verdict.                                                 *)
LEMMA Verdicted ==
    ASSUME NEW h \in Memory, Tidy(h), h.pc \in Judging, h.todo = {}, NEW g,
           \/ g = Ended
           \/ \E s : g = Settling(h, s)
           \/ \E to \in RolloutStates \ Ends : g = Moving(h, to)
    PROVE  /\ Kept(g, h)
           /\ g.pc \in Active => /\ g.pc \in Judging \cup {"move"} /\ g.st = h.st /\ g.act = h.act
                                 /\ g.todo = h.todo /\ g.copy = h.copy /\ g.c = h.c
                                 /\ g.known = h.known /\ Tidy(g)
<1>1. CASE g = Ended
  BY <1>1, IdleIn DEF Kept, Active, Work, Judging
<1>2. ASSUME NEW s, g = Settling(h, s) PROVE /\ Kept(g, h) /\ Tidy(g) /\ g.pc \in Judging \cup {"move"}
                                             /\ g.st = h.st /\ g.act = h.act /\ g.todo = h.todo
                                             /\ g.copy = h.copy /\ g.c = h.c /\ g.known = h.known
  <2>1. /\ g.pc = "settle" /\ g.st = h.st /\ g.act = h.act /\ g.todo = h.todo
        /\ g.copy = h.copy /\ g.c = h.c /\ g.known = h.known /\ g.to = h.to
    BY <1>2 DEF Settling, Memory
  <2>2. Tidy(g)
    BY <2>1 DEF Tidy, Judging, Back, Accepted
  <2>3. QED
    BY <2>1, <2>2 DEF Kept, Judging
<1>3. ASSUME NEW to \in RolloutStates \ Ends, g = Moving(h, to)
      PROVE  /\ Kept(g, h) /\ Tidy(g) /\ g.pc \in Judging \cup {"move"}
             /\ g.st = h.st /\ g.act = h.act /\ g.todo = h.todo
             /\ g.copy = h.copy /\ g.c = h.c /\ g.known = h.known
  <2>1. /\ g.pc = "move" /\ g.st = h.st /\ g.act = h.act /\ g.todo = h.todo
        /\ g.copy = h.copy /\ g.c = h.c /\ g.known = h.known /\ g.to = to
    BY <1>3 DEF Moving, Memory
  <2>2. to \notin {"none", "completed"}
    BY DEF Ends, RolloutStates, Claimable, Resumable, Forward
  <2>3. Tidy(g)
    BY <2>1, <2>2 DEF Tidy, Judging, Back
  <2>4. QED
    BY <2>1, <2>3 DEF Kept, Judging
<1>4. QED
  BY <1>1, <1>2, <1>3

LEMMA RecordHealthDeploys ==
    ASSUME OrderInv, EndInv, NEW w \in Controllers, RecordHealth(w) PROVE EndInv'
<1>1. held[w].pc = "record"
  BY Zenon DEF RecordHealth, At
<1>2. PICK h \in Memory : /\ h = held[w] /\ h.pc = "record" /\ h.c \in Cohorts /\ Tidy(h)
                          /\ h.todo = {} /\ AtWork(h, roll, rows, Past)
  BY <1>1, WorkPass DEF Work, Judging
<1>3. PICK g : /\ g = IF Back(h) THEN JudgeBack(h, h.c \in due) ELSE JudgeForward(h, h.c \in due)
               /\ UpdateRolloutCohort(w, h.copy[h.c], g)
  BY <1>2 DEF RecordHealth
<1>4. UNCHANGED <<roll, owner, dep, assigned, late>>
  BY DEF RecordHealth, rollVars, deployVars
<1>5. \/ g = Ended
      \/ \E s : g = Settling(h, s)
      \/ \E to \in RolloutStates \ Ends : g = Moving(h, to)
  <2>1. {"rolling_back", "paused"} \subseteq RolloutStates \ Ends
    BY DEF RolloutStates, Claimable, Ends
  <2>2. CASE Back(h)
    BY <1>3, <2>2 DEF JudgeBack
  <2>3. CASE ~Back(h)
    <3>1. \/ g = Ended
          \/ \E s : g = Settling(h, s)
          \/ \E to \in {"rolling_back", "paused"} : g = Moving(h, to)
      BY <1>3, <2>3 DEF JudgeForward
    <3>2. QED
      BY <2>1, <3>1
  <2>4. QED
    BY <2>2, <2>3
<1>6. h.pc \in Judging /\ (h.c \in due) \in BOOLEAN
  BY <1>2 DEF Judging
<1>7. /\ Kept(g, h) /\ g \in Memory
      /\ g.pc \in Active => Tidy(g)
  <2>1. g \in Memory
    BY <1>2, <1>3, <1>6, JudgeStays DEF Stays
  <2>2. QED
    BY <1>2, <1>5, <1>6, <2>1, Verdicted
<1>8. CASE /\ h.c \in h.known /\ rows' = [rows EXCEPT ![h.c] = h.copy[h.c]]
           /\ held'[w] \in Memory
           /\ held'[w].pc = g.pc /\ held'[w].st = g.st /\ held'[w].act = g.act
           /\ held'[w].todo = g.todo /\ held'[w].copy = g.copy /\ held'[w].c = g.c
           /\ held'[w].to = g.to /\ held'[w].known = g.known
           /\ \A v \in Controllers \ {w} : Kept(held'[v], held[v])
  <2>1. rows[h.c] = h.copy[h.c]
    BY <1>2, <1>8 DEF AtWork, Faithful
  <2>2. UNCHANGED rows
    BY <1>8, <2>1 DEF OrderInv, Rows
  <2>3. Kept(held'[w], g)
    <3>1. PICK m \in Memory : m = held'[w]
      BY <1>8
    <3>2. QED
      BY <1>7, <1>8, <3>1, KeptSame
  <2>4. Kept(held'[w], h)
    BY <1>2, <1>7, <2>3 DEF Kept, Active, Work, Judging
  <2>5. \A v \in Controllers : Kept(held'[v], held[v])
    BY <1>2, <1>8, <2>4
  <2>6. QED
    BY <1>4, <2>2, <2>5, QuietStep
<1>9. QED
  BY <1>2, <1>3, <1>4, <1>7, <1>8, UpdateCases

LEMMA SettleCohortDeploys ==
    ASSUME OrderInv, EndInv, NEW w \in Controllers, SettleCohort(w) PROVE EndInv'
<1>1. held[w].pc = "settle"
  BY Zenon DEF SettleCohort, At
<1>2. PICK h \in Memory : /\ h = held[w] /\ h.pc = "settle" /\ h.c \in Cohorts /\ Tidy(h)
                          /\ h.todo = {} /\ AtWork(h, roll, rows, Past)
  BY <1>1, WorkPass DEF Work, Judging
<1>3. UNCHANGED <<roll, owner, dep, assigned, late>>
  BY DEF SettleCohort, rollVars, deployVars
<1>4. {"verifying", "rolling_out", "failed"} \subseteq RolloutStates \ Ends
  BY DEF RolloutStates, Claimable, Resumable, Forward, Ends
<1>5. h.pc \in Judging /\ h.pc \in Work
  BY <1>2 DEF Judging, Work
<1>6. CASE Write(w, [Moving(h, "failed") EXCEPT !.ok = FALSE]) /\ UNCHANGED rows
  <2> DEFINE m == Moving(h, "failed")
             k == [m EXCEPT !.ok = FALSE]
  <2>1. Kept(m, h) /\ m \in Memory
    <3>1. Kept(m, h)
      BY <1>2, <1>4, <1>5, Verdicted
    <3>2. m \in Memory
      BY DEF Moving, Memory, Active, RolloutStates
    <3>3. QED
      BY <3>1, <3>2
  <2>2. Write(w, k)
    BY <1>6
  <2> HIDE DEF m
  <2>3. /\ k.pc = m.pc /\ k.st = m.st /\ k.act = m.act /\ k.todo = m.todo /\ k.copy = m.copy
        /\ k.c = m.c /\ k.to = m.to /\ k.known = m.known
    BY <2>1 DEF Memory
  <2> HIDE DEF k
  <2>4. Kept(k, h)
    <3>1. Tidy(m) => Tidy(k)
      BY <2>3 DEF Tidy, Back, Accepted
    <3>2. QED
      BY <2>1, <2>3, <3>1 DEF Kept
  <2>5. QED
    BY <1>2, <1>3, <1>6, <2>2, <2>4, QuietWrite
<1>7. CASE UpdateRolloutCohort(w, h.seen, Settled(h))
  <2>1. PICK s : s = h.seen /\ s \in Outcome(h)
    BY <1>2 DEF AtWork, Placed
  <2>2. PICK g : g = Settled(h)
    OBVIOUS
  <2>3. \/ g = Ended
        \/ \E to \in {"verifying", "rolling_out", "failed"} : g = Moving(h, to)
    BY <2>2 DEF Settled
  <2>4. g \in Memory
    <3>1. ASSUME NEW to \in {"verifying", "rolling_out", "failed"}, g = Moving(h, to)
          PROVE  g \in Memory
      BY <1>4, <3>1 DEF Moving, Memory, Active
    <3>2. QED
      BY <2>3, <3>1, IdleIn
  <2>5. /\ Kept(g, h)
        /\ g.pc \in Active => /\ g.pc \in Judging \cup {"move"} /\ g.st = h.st /\ g.act = h.act
                              /\ g.todo = h.todo /\ g.copy = h.copy /\ g.c = h.c
                              /\ g.known = h.known /\ Tidy(g)
    <3>1. g = Ended \/ \E to \in RolloutStates \ Ends : g = Moving(h, to)
      BY <1>4, <2>3
    <3>2. QED
      BY <1>2, <1>5, <3>1, Verdicted
  <2>6. CASE /\ h.c \in h.known /\ rows' = [rows EXCEPT ![h.c] = s]
             /\ held'[w] \in Memory
             /\ held'[w].pc = g.pc /\ held'[w].st = g.st /\ held'[w].act = g.act
             /\ held'[w].todo = g.todo /\ held'[w].copy = g.copy /\ held'[w].c = g.c
             /\ held'[w].to = g.to /\ held'[w].known = g.known
             /\ \A v \in Controllers \ {w} : Kept(held'[v], held[v])
    <3>1. PICK k \in Memory : k = held'[w]
      BY <2>6
    <3>2. /\ k.pc = g.pc /\ k.st = g.st /\ k.act = g.act /\ k.todo = g.todo /\ k.copy = g.copy
          /\ k.c = g.c /\ k.to = g.to
      BY <2>6, <3>1
    <3>3. Tidy(g) => Tidy(k)
      BY <3>2 DEF Tidy, Back, Accepted
    <3>4. k.pc \in Active => /\ k.pc \notin {"lifecycle", "readback", "status", "accept"}
                             /\ k.st = h.st /\ k.act = h.act /\ k.todo = h.todo /\ k.c = h.c
                             /\ Tidy(k) /\ k.copy = h.copy
      BY <2>5, <3>2, <3>3 DEF Judging
    <3>5. CASE Back(h)
      <4>1. s \in {"rolled_back", "reconciliation_failed"}
        BY <2>1, <3>5 DEF Outcome, Back
      <4>2. s \in CohortStates /\ s \in Restoring /\ s \notin Advanced
        BY <4>1 DEF CohortStates, Restoring, Advanced
      <4>3. Rewritten(w, h, s, k)
        BY <1>2, <1>3, <1>5, <2>6, <3>1, <3>4, <3>5, <4>2 DEF Rewritten
      <4>4. h.copy[h.c] \in Reverted
        BY <1>2, <1>5, <3>5 DEF Tidy, Accepted, Reverted
      <4>5. rows[h.c] \in Reverted
        BY <1>2, <2>6, <4>4 DEF AtWork, Faithful
      <4>6. ~late => Told(h.c, "from") /\ dep[h.c].ctl = "resumed"
        BY <1>2, <4>5 DEF EndInv, Deployed, Standing
      <4>7. QED
        BY <4>2, <4>3, <4>6, RowStep
    <3>6. CASE ~Back(h)
      <4>1. s \in {"healthy", "completed"}
        BY <2>1, <3>6 DEF Outcome, Back
      <4>2. s \in CohortStates /\ s \notin Restoring /\ s \notin Reverted
        BY <4>1 DEF CohortStates, Restoring, Reverted
      <4>3. Rewritten(w, h, s, k)
        BY <1>2, <1>3, <1>5, <2>6, <3>1, <3>4, <3>6, <4>2 DEF Rewritten
      <4>4. h.copy[h.c] \in Advanced
        BY <1>2, <1>5, <3>6 DEF Tidy, Accepted, Advanced
      <4>5. rows[h.c] \in Advanced
        BY <1>2, <2>6, <4>4 DEF AtWork, Faithful
      <4>6. ~late => Told(h.c, "to")
        BY <1>2, <4>5 DEF EndInv, Deployed, Standing
      <4>7. k.pc \in Active => k.copy = h.copy
        BY <3>4
      <4>8. QED
        BY <4>2, <4>3, <4>6, <4>7, RowStep
    <3>7. QED
      BY <3>5, <3>6
  <2>7. QED
    BY <1>2, <1>3, <1>7, <2>1, <2>2, <2>4, <2>6, UpdateCases
<1>8. QED
  BY <1>2, <1>6, <1>7 DEF SettleCohort

(* A pass that learns that the rollout has changed.                        *)
LEMMA BlindKept ==
    ASSUME OrderInv, EndInv, NEW v \in Controllers PROVE Kept(Blind(held[v]), held[v])
<1>1. PICK m \in Memory : m = held[v] /\ (m.pc \in Active => Tidy(m))
  BY Reading DEF EndInv, Passes
<1> DEFINE k == Blind(m)
<1>2. /\ k.pc = m.pc /\ k.st = m.st /\ k.act = m.act /\ k.todo = m.todo /\ k.copy = m.copy
      /\ k.c = m.c /\ k.to = m.to /\ k.known = m.known
  BY DEF Blind, Memory
<1> HIDE DEF k
<1>3. Kept(k, m)
  BY <1>1, <1>2, KeptSame
<1>4. QED
  BY <1>1, <1>3 DEF k

LEMMA MoveDeploys ==
    ASSUME OrderInv, EndInv, NEW w \in Controllers, Move(w) PROVE EndInv'
<1>1. held[w].pc = "move"
  BY Zenon DEF Move, At
<1>2. PICK h \in Memory : /\ h = held[w] /\ h.pc = "move" /\ Placed(h) /\ Tidy(h)
                          /\ Faithful(h, roll, rows, Past)
  BY <1>1, PassReading DEF Active
<1>3. UNCHANGED <<rows, owner, dep, assigned>>
  BY Zenon DEF Move
<1>4. CASE ~h.cur
  <2>1. Write(w, Ended) /\ UNCHANGED <<roll, late>>
    BY <1>2, <1>4, Zenon DEF Move
  <2>2. QED
    BY <1>3, <2>1, EndingDeploys
<1>5. CASE h.cur
  <2>1. TransitionRollout(h.to) /\ Called(w)
    BY <1>2, <1>5, Zenon DEF Move
  <2>2. held' = [v \in Controllers |-> IF v = w THEN Ended ELSE Blind(held[v])]
    BY <1>2, <1>5, Zenon DEF Move, Blind
  <2>3. held'[w] = Ended /\ \A v \in Controllers \ {w} : held'[v] = Blind(held[v])
    BY <2>2
  <2>4. \A v \in Controllers : Kept(held'[v], held[v])
    BY <2>3, BlindKept, IdleIn DEF Kept
  <2>5. CASE h.to \notin Ends
    <3>1. roll' \notin Ends /\ (late => late')
      BY <2>1, <2>5 DEF TransitionRollout, Called
    <3>2. QED
      BY <1>3, <2>4, <3>1, QuietStep
  <2>6. CASE h.to \in Ends
    <3>1. Passes'
      BY <1>3, <2>4, PassesKept DEF EndInv
    <3>2. ASSUME ~late' PROVE Deployed'
      <4>1. ~late /\ owner = w /\ Standing /\ Ready /\ Swept
        BY <2>1, <3>2 DEF EndInv, Deployed, Called
      <4>2. owner' = w /\ held'[w].pc = "end"
        BY <1>3, <2>3, <4>1, IdleIn
      <4>3. ~Leading'
        BY <4>2 DEF Leading, Active, Work, Judging
      <4>4. Standing'
        BY <1>3, <4>1 DEF Standing, Told
      <4>5. Ready'
        <5> SUFFICES ASSUME NEW v \in Controllers, held'[v].pc = "accept", held'[v].c \in held'[v].known
                     PROVE  /\ Told(held'[v].c, Desired(held'[v].copy[held'[v].c]))
                            /\ Back(held'[v]) => dep[held'[v].c].ctl = "resumed"
                            /\ v # w
          BY <1>3, <4>2 DEF Ready, Told, Desired, Back
        <5>1. v # w
          BY <4>2
        <5>2. PICK m \in Memory : m = held[v] /\ held'[v] = Blind(m)
          BY <2>3, <5>1, Reading
        <5> DEFINE k == Blind(m)
        <5>3. /\ k.pc = m.pc /\ k.c = m.c /\ k.copy = m.copy /\ k.known = m.known /\ k.st = m.st
          BY DEF Blind, Memory
        <5>4. held'[v] = k
          BY <5>2
        <5> HIDE DEF k
        <5>5. m.pc = "accept" /\ m.c \in m.known
          BY <5>3, <5>4
        <5>6. Told(m.c, Desired(m.copy[m.c])) /\ (Back(m) => dep[m.c].ctl = "resumed")
          BY <4>1, <5>2, <5>5 DEF Ready
        <5>7. QED
          BY <5>1, <5>3, <5>4, <5>6 DEF Back
      <4>6. Alone' /\ Swept'
        BY <4>3 DEF Alone, Swept
      <4>7. ASSUME roll' = "completed", NEW c \in Cohorts PROVE dep[c].ctl = "resumed"
        <5>1. h.to = "completed" /\ roll = "rolling_out" /\ h.st = roll
          BY <1>2, <1>5, <2>1, <4>7
             DEF TransitionRollout, rolloutTransitions, Faithful, Resumable, Forward
        <5>2. h.act = "resume" /\ h.todo = {}
          BY <1>2, <5>1 DEF Tidy, Resumable, Forward
        <5>3. h.copy[c] = "completed"
          BY <1>2, <5>1 DEF Placed
        <5>4. c \in Reached("resume", h.copy)
          BY <5>3 DEF Reached, HasDeployment
        <5>5. Leading
          BY <1>1, <4>1 DEF Leading, Active
        <5>6. held[owner] = h
          BY <1>2, <4>1
        <5>7. QED
          BY <4>1, <5>2, <5>4, <5>5, <5>6 DEF Swept
      <4>8. Over' /\ Verified'
        BY <1>3, <4>2, <4>3, <4>7 DEF Over, Verified
      <4>9. QED
        BY <4>4, <4>5, <4>6, <4>8 DEF Deployed
    <3>3. QED
      BY <3>1, <3>2 DEF EndInv
  <2>7. QED
    BY <2>5, <2>6
<1>6. QED
  BY <1>4, <1>5

LEMMA RequestDeploys ==
    ASSUME OrderInv, EndInv, NEW to, TransitionRollout(to), Outdate,
           UNCHANGED <<rows, owner, dep, assigned, late>>, to \in {"paused", "rolling_back", asked}
    PROVE  EndInv'
<1>1. held' = [v \in Controllers |-> Blind(held[v])]
  BY Zenon DEF Outdate, Blind
<1>2. \A v \in Controllers : Kept(held'[v], held[v])
  BY <1>1, BlindKept
<1>3. asked \in Forward \cup {"none"}
  BY DEF OrderInv, Rows
<1>4. roll' \notin Ends
  BY <1>3 DEF TransitionRollout, Forward, Ends
<1>5. QED
  BY <1>2, <1>4, QuietStep

(* What touches neither a row, a memory nor the deployment.                *)
LEMMA FrameDeploys ==
    ASSUME OrderInv, EndInv, UNCHANGED <<roll, rows, owner, held, dep, assigned, late>>
    PROVE  EndInv'
<1>1. \A v \in Controllers : Kept(held'[v], held[v])
  <2> TAKE v \in Controllers
  <2>1. held[v].pc \in Active => Tidy(held[v])
    BY DEF EndInv, Passes
  <2>2. QED
    BY <2>1, KeptSame
<1>2. QED
  BY <1>1, QuietStep

Orders == assigned \in [Cohorts -> {"none", "to", "from"}]

LEMMA PassDeploys ==
    ASSUME OrderInv, EndInv, Orders, NEW w \in Controllers, Pass(w) PROVE EndInv'
<1>1. CASE ClaimNextRollout(w)
  <2> DEFINE k == [Idle EXCEPT !.pc = "load"]
  <2>1. k.pc = "load"
    BY IdleIn DEF Memory
  <2>2. Write(w, k) /\ owner' = w /\ UNCHANGED <<roll, rows, dep, assigned, late>>
    BY <1>1 DEF ClaimNextRollout, deployVars
  <2>3. roll \notin Ends
    BY <1>1 DEF ClaimNextRollout, Claimable, Resumable, Forward, Ends
  <2> HIDE DEF k
  <2>4. held'[w] = k /\ \A v \in Controllers \ {w} : Kept(held'[v], held[v])
    BY <2>2, Written
  <2>5. QED
    BY <2>1, <2>2, <2>3, <2>4, QuietStep
<1>2. CASE ReleaseRolloutClaim(w)
  <2>1. Write(w, Idle) /\ UNCHANGED <<roll, rows, dep, assigned, late>>
    BY <1>2 DEF ReleaseRolloutClaim, deployVars
  <2>2. owner' = owner \/ owner' \notin Controllers
    BY <1>2, RolloutAssumption DEF ReleaseRolloutClaim, RolloutAssumption
  <2>3. QED
    BY <2>1, <2>2, EndingDeploys
<1>3. CASE Stop(w)
  BY <1>3, EndingDeploys DEF Stop, rollVars, deployVars
<1>4. QED
  BY <1>1, <1>2, <1>3, CheckLeaseDeploys, ReconcileDeploys, ApplyLifecycleDeploys,
     StartAssignmentDeploys, DeployDeploys, ReadbackDeploys, AssignWorkersDeploys, AcceptAssignmentDeploys,
     HealthDeploys, RecordHealthDeploys, SettleCohortDeploys, MoveDeploys, Zenon DEF Pass, Orders

LEMMA NextDeploys ==
    ASSUME OrderInv, EndInv, Orders, [Next]_vars PROVE EndInv'
<1>1. CASE \E w \in Controllers : Pass(w)
  BY <1>1, PassDeploys
<1>2. CASE \E w \in Controllers : Fail(w)
  BY <1>2, EndingDeploys DEF Fail, rollVars, deployVars
<1>3. CASE \E w \in Controllers : CrashInApply(w)
  BY <1>3, CrashInApplyDeploys
<1>4. CASE Expire \/ Suspend
  BY <1>4, FrameDeploys DEF Expire, Suspend, Unlease, rollVars, deployVars
<1>5. CASE CloseGate \/ RevokeRelease
  BY <1>5, FrameDeploys DEF CloseGate, RevokeRelease, deployVars
<1>6. CASE \E c \in Cohorts : PassDeadline(c)
  BY <1>6, FrameDeploys DEF PassDeadline, rollVars, deployVars
<1>7. CASE \E to \in {"paused", "rolling_back"} : Operate(to)
  BY <1>7, RequestDeploys DEF Operate, deployVars
<1>8. CASE AskResume
  BY <1>8, FrameDeploys DEF AskResume, deployVars
<1>9. CASE Resume
  BY <1>9, RequestDeploys DEF Resume, deployVars
<1>10. CASE UNCHANGED vars
  BY <1>10, FrameDeploys DEF vars, rollVars, deployVars
<1>11. QED
  BY <1>1, <1>2, <1>3, <1>4, <1>5, <1>6, <1>7, <1>8, <1>9, <1>10, Zenon DEF Next

LEMMA OrdersKept ==
    ASSUME Orders, [Next]_vars PROVE Orders'
<1>1. ASSUME NEW w \in Controllers, AssignWorkers(w) PROVE Orders'
  BY <1>1 DEF AssignWorkers, Orders, Target, Desired
<1>2. ASSUME NEW w \in Controllers, Pass(w), ~AssignWorkers(w) PROVE UNCHANGED assigned
  <2>1. Deploy(w) \/ ApplyLifecycle(w) \/ Move(w) => UNCHANGED assigned
    BY Zenon DEF Deploy, ApplyLifecycle, Move
  <2>2. ClaimNextRollout(w) \/ CheckLease(w) \/ Stop(w) \/ Reconcile(w) => UNCHANGED assigned
    BY DEF ClaimNextRollout, CheckLease, Stop, Reconcile, deployVars
  <2>3. StartAssignment(w) \/ AcceptAssignment(w) \/ ReleaseRolloutClaim(w) => UNCHANGED assigned
    BY DEF StartAssignment, AcceptAssignment, ReleaseRolloutClaim, deployVars
  <2>4. Readback(w) \/ Health(w) \/ RecordHealth(w) \/ SettleCohort(w) => UNCHANGED assigned
    BY DEF Readback, Health, RecordHealth, SettleCohort, deployVars
  <2>5. QED
    BY <1>2, <2>1, <2>2, <2>3, <2>4, Zenon DEF Pass
<1>3. ASSUME NEW w \in Controllers, Fail(w) \/ CrashInApply(w) PROVE UNCHANGED assigned
  BY <1>3 DEF Fail, CrashInApply, deployVars
<1>4. CASE Expire \/ Suspend \/ CloseGate \/ RevokeRelease \/ \E c \in Cohorts : PassDeadline(c)
  BY <1>4 DEF Expire, Suspend, Unlease, CloseGate, RevokeRelease, PassDeadline, deployVars, Orders
<1>5. CASE (\E to \in {"paused", "rolling_back"} : Operate(to)) \/ AskResume \/ Resume
  BY <1>5 DEF Operate, AskResume, Resume, deployVars, Orders
<1>6. CASE UNCHANGED vars
  BY <1>6 DEF vars, deployVars, Orders
<1>7. UNCHANGED assigned => Orders'
  BY DEF Orders
<1>8. QED
  BY <1>1, <1>2, <1>3, <1>4, <1>5, <1>6, <1>7, Zenon DEF Next

LEMMA InitEnds == Init => EndInv /\ Orders
<1> SUFFICES ASSUME Init PROVE EndInv /\ Orders
  OBVIOUS
<1>1. \A w \in Controllers : held[w] = Idle /\ held[w].pc = "idle"
  BY IdleIn DEF Init
<1>2. Passes /\ Ready /\ ~Leading /\ Verified
  BY <1>1 DEF Passes, Ready, Leading, Verified, Active, Work, Judging
<1>3. Standing
  BY DEF Init, Standing, Advanced, Reverted
<1>4. Alone /\ Swept /\ Over
  BY <1>2 DEF Alone, Swept, Over, Init, Ends
<1>5. Orders
  BY DEF Init, Orders
<1>6. QED
  BY <1>2, <1>3, <1>4, <1>5 DEF EndInv, Deployed

(* A rollout that ended completed, or rolled back, has every cohort so in  *)
(* its row and, unless a replaced controller has made a call, deployed,    *)
(* resumed and announced to the workers so.                                *)
THEOREM EndsAsDeployedHolds == Spec => []EndsAsDeployed
<1>1. OrderInv /\ EndInv /\ Orders /\ [Next]_vars => OrderInv' /\ EndInv' /\ Orders'
  BY NextKeeps, NextDeploys, OrdersKept
<1>2. OrderInv /\ EndInv => EndsAsDeployed
  <2> SUFFICES ASSUME OrderInv, EndInv PROVE EndsAsDeployed
    OBVIOUS
  <2>1. EndsInRows /\ \A c \in Cohorts : dep[c] \in [op : {"none", "to", "from"},
                                  ctl : {"none", "resumed", "paused", "cancelled"}]
    BY DEF OrderInv, Rows
  <2>2. ASSUME roll = "completed", ~late, NEW c \in Cohorts
        PROVE  dep[c] = [op |-> "to", ctl |-> "resumed"] /\ assigned[c] = "to"
    <3>1. rows[c] = "completed"
      BY <2>1, <2>2 DEF EndsInRows
    <3>2. Told(c, "to") /\ dep[c].ctl = "resumed"
      BY <2>2, <3>1 DEF EndInv, Deployed, Standing, Over, Ends, Advanced
    <3>3. QED
      BY <2>1, <3>2 DEF Told
  <2>3. ASSUME roll = "rolled_back", ~late, NEW c \in Cohorts
        PROVE  dep[c] = [op |-> "from", ctl |-> "resumed"] /\ assigned[c] = "from"
    <3>1. rows[c] = "rolled_back"
      BY <2>1, <2>3 DEF EndsInRows
    <3>2. Told(c, "from") /\ dep[c].ctl = "resumed"
      BY <2>3, <3>1 DEF EndInv, Deployed, Standing, Reverted
    <3>3. QED
      BY <2>1, <3>2 DEF Told
  <2>4. QED
    BY <2>1, <2>2, <2>3 DEF EndsAsDeployed
<1>3. QED
  BY InitOrder, InitEnds, <1>1, <1>2, PTL DEF Spec

-----------------------------------------------------------------------------
(* Types: what OrderInv and Orders leave open.                             *)

Frame ==
  /\ plan \in Snapshots
  /\ boundary \in {"none", "paused"} \cup Resumable
  /\ due \subseteq Cohorts
  /\ owner \in Controllers \cup {None} /\ fresh \in BOOLEAN
  /\ late \in BOOLEAN
  /\ good \subseteq {"from", "to"} /\ open \in BOOLEAN
  /\ budget \in [requests : 0 .. MaxRequests, faults : 0 .. MaxFaults]

\* A transition out of a state that can be paused leaves a boundary.
LEMMA BoundaryTyped ==
    ASSUME Frame, NEW to, TransitionRollout(to)
    PROVE  boundary' \in {"none", "paused"} \cup Resumable
  BY DEF Frame, TransitionRollout, rolloutTransitions, Resumable, Forward

LEMMA FaultTyped == ASSUME Frame, Fault PROVE budget' \in [requests : 0 .. MaxRequests, faults : 0 .. MaxFaults]
<1>1. MaxRequests \in Nat /\ MaxFaults \in Nat
  BY RolloutAssumption DEF RolloutAssumption
<1>2. budget.faults > 0 /\ budget' = [budget EXCEPT !.faults = budget.faults - 1]
  BY DEF Fault
<1>3. budget.faults - 1 \in 0 .. MaxFaults
  BY <1>1, <1>2 DEF Frame
<1>4. QED
  BY <1>2, <1>3 DEF Frame

LEMMA RequestTyped == ASSUME Frame, Request PROVE budget' \in [requests : 0 .. MaxRequests, faults : 0 .. MaxFaults]
<1>1. MaxRequests \in Nat /\ MaxFaults \in Nat
  BY RolloutAssumption DEF RolloutAssumption
<1>2. budget.requests > 0 /\ budget' = [budget EXCEPT !.requests = budget.requests - 1]
  BY DEF Request
<1>3. budget.requests - 1 \in 0 .. MaxRequests
  BY <1>1, <1>2 DEF Frame
<1>4. QED
  BY <1>2, <1>3 DEF Frame

LEMMA PassFrame == ASSUME Frame, NEW w \in Controllers, Pass(w) PROVE Frame'
<1>1. ClaimEvent => boundary' \in {"none", "paused"} \cup Resumable
  BY DEF ClaimEvent, Frame
<1>2. CASE ClaimNextRollout(w) \/ ReleaseRolloutClaim(w)
  BY <1>1, <1>2 DEF ClaimNextRollout, ReleaseRolloutClaim, deployVars, Frame
<1>3. CASE CheckLease(w) \/ Stop(w) \/ Reconcile(w) \/ Readback(w) \/ Health(w)
  BY <1>3 DEF CheckLease, Stop, Reconcile, Readback, Health, rollVars, deployVars, Frame
<1>4. CASE AcceptAssignment(w) \/ RecordHealth(w) \/ SettleCohort(w) \/ StartAssignment(w)
  BY <1>4 DEF AcceptAssignment, RecordHealth, SettleCohort, StartAssignment, rollVars, deployVars, Frame
<1>5. CASE ApplyLifecycle(w) \/ Deploy(w) \/ AssignWorkers(w)
  <2>1. Called(w) /\ UNCHANGED <<plan, boundary, due, owner, fresh, good, open, budget>>
    BY <1>5, Zenon DEF ApplyLifecycle, Deploy, AssignWorkers, rollVars
  <2>2. QED
    BY <2>1 DEF Called, Frame
<1>6. CASE Move(w)
  <2>1. UNCHANGED <<plan, due, owner, fresh, good, open, budget>>
    BY <1>6, Zenon DEF Move
  <2>2. \/ TransitionRollout(held[w].to) /\ Called(w)
        \/ UNCHANGED <<boundary, late>>
    BY <1>6, Zenon DEF Move
  <2>3. boundary' \in {"none", "paused"} \cup Resumable /\ late' \in BOOLEAN
    BY <2>2, BoundaryTyped DEF Called, Frame
  <2>4. QED
    BY <2>1, <2>3 DEF Frame
<1>7. QED
  BY <1>2, <1>3, <1>4, <1>5, <1>6, Zenon DEF Pass

LEMMA NextFrame == ASSUME Frame, [Next]_vars PROVE Frame'
<1>1. CASE \E w \in Controllers : Pass(w)
  BY <1>1, PassFrame
<1>2. CASE \E w \in Controllers : Fail(w) \/ CrashInApply(w)
  <2>1. PICK w \in Controllers : Fail(w) \/ CrashInApply(w)
    BY <1>2
  <2>2. Fault /\ UNCHANGED <<plan, boundary, due, owner, fresh, good, open>> /\ late' \in BOOLEAN
    BY <2>1 DEF Fail, CrashInApply, Called, rollVars, deployVars, Frame
  <2>3. QED
    BY <2>2, FaultTyped DEF Frame
<1>3. CASE Expire \/ Suspend
  <2>1. Unlease /\ (Fault \/ UNCHANGED budget)
    BY <1>3 DEF Expire, Suspend
  <2>2. UNCHANGED <<plan, boundary, due, owner, good, open, late>> /\ fresh' = FALSE
    BY <2>1 DEF Unlease, rollVars, deployVars
  <2>3. QED
    BY <2>1, <2>2, FaultTyped DEF Frame
<1>4. CASE CloseGate \/ \E c \in Cohorts : PassDeadline(c)
  BY <1>4 DEF CloseGate, PassDeadline, rollVars, deployVars, Frame
<1>5. CASE RevokeRelease \/ AskResume
  <2>1. Request /\ UNCHANGED <<plan, boundary, due, owner, fresh, open, late>> /\ good' \subseteq good
    BY <1>5 DEF RevokeRelease, AskResume, deployVars
  <2>2. QED
    BY <2>1, RequestTyped DEF Frame
<1>6. CASE Resume \/ \E to \in {"paused", "rolling_back"} : Operate(to)
  <2>1. PICK to : TransitionRollout(to) /\ (Request \/ UNCHANGED budget)
                  /\ UNCHANGED <<plan, due, owner, fresh, good, open, late>>
    BY <1>6 DEF Resume, Operate, deployVars
  <2>2. QED
    BY <2>1, BoundaryTyped, RequestTyped DEF Frame
<1>7. CASE UNCHANGED vars
  BY <1>7 DEF vars, rollVars, deployVars, Frame
<1>8. QED
  BY <1>1, <1>2, <1>3, <1>4, <1>5, <1>6, <1>7, Zenon DEF Next

LEMMA InitFrame == Init => Frame
<1>1. MaxRequests \in 0 .. MaxRequests /\ MaxFaults \in 0 .. MaxFaults
  BY RolloutAssumption DEF RolloutAssumption
<1>2. Init => budget \in [requests : 0 .. MaxRequests, faults : 0 .. MaxFaults]
  BY <1>1 DEF Init
<1>3. QED
  BY <1>2 DEF Init, Frame

(* Rows, passes, deployments, claims and budgets keep their types: what a  *)
(* resume decides on is a state a rollout can be resumed at.               *)
THEOREM RolloutTypeHolds == Spec => []RolloutTypeOK
<1>1. OrderInv /\ Orders /\ Frame /\ [Next]_vars => OrderInv' /\ Orders' /\ Frame'
  BY NextKeeps, OrdersKept, NextFrame
<1>2. OrderInv /\ Orders /\ Frame => RolloutTypeOK
  <2> SUFFICES ASSUME OrderInv, Orders, Frame PROVE RolloutTypeOK
    OBVIOUS
  <2>1. ASSUME NEW w \in Controllers
        PROVE  /\ held[w].pc \in Working \cup {"idle", "end"}
               /\ held[w].copy \in [Cohorts -> CohortStates] /\ held[w].known \subseteq Cohorts
               /\ held[w].c \in Cohorts /\ held[w].todo \subseteq Cohorts
    <3>1. PICK m \in Memory : m = held[w]
      BY Reading
    <3>2. m.pc \in Active \cup {"idle", "end", "load"}
      BY DEF Memory
    <3>3. m.pc \in Working \cup {"idle", "end"}
      BY <3>2 DEF Active, Work, Judging, Working, Guarded
    <3>4. QED
      BY <3>1, <3>3 DEF Memory
  <2>2. Rows
    BY DEF OrderInv
  <2>3. budget.requests \in 0 .. MaxRequests /\ budget.faults \in 0 .. MaxFaults
    BY DEF Frame
  <2>4. QED
    BY <2>1, <2>2, <2>3 DEF RolloutTypeOK, Rows, Orders, Frame
<1>3. QED
  BY InitOrder, InitEnds, InitFrame, <1>1, <1>2, PTL DEF Spec

=============================================================================
