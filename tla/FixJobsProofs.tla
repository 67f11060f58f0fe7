---------------------------- MODULE FixJobsProofs --------------------------
(***************************************************************************)
(* For every set of origins, branches, workers and requests and for every  *)
(* bound: what the revision of a fix job fences, and why two agents never  *)
(* run on one branch.                                                      *)
(*                                                                         *)
(* A worker's result, a resume and a cancellation compare nothing but the  *)
(* revision they read.  FixInv is what makes that sufficient: revisions    *)
(* only grow, and a worker that still has the newest one still has the     *)
(* claim.  The store looks for shared workspaces as well as for shared     *)
(* branches; Homes says that a workspace never leaves the session it was   *)
(* made for, so that no job joins another branch after it was claimed.     *)
(* Lineage says how the jobs of a session follow each other: at most one   *)
(* is unsettled, and what it follows has succeeded or was superseded.      *)
(* NeededThere says who still needs a workspace, and that it is there;     *)
(* EngineIn, that the newest claim's engine works where its job says.      *)
(***************************************************************************)
EXTENDS FixJobs, TLAPS, WellFoundedInduction

Rows == [status : Statuses, rev : Nat, rem : Nat, cleanup : BOOLEAN,
         worker : Workers \cup {None}, claim : Nat, ws : Nat, pushed : BOOLEAN,
         run : Nat, from : Nat]
Sessions == [origin : Origins, state : {"open", "frozen", "discarded"}, ws : Nat]
ScanRows == [rem : Nat, ws : Nat, job : Nat,
             status : {"pending", "failed", "checking", "creating", "over"}]
Mem == [job : Nat, rev : Nat, claim : Nat, ws : Nat, out : Results \cup {NoResult},
        phase : {"idle", "claimed", "engine", "stopped", "done", "saved", "alone"}]
Reqs == [op : {"none", "cancel", "cleanup", "resume"}, job : Nat, rev : Nat]

(* What is true of the memory h of worker w, given the rows.               *)
Sound(h, w, rows) ==
  /\ h \in Mem
  /\ h.phase # "idle" => h.job \in DOMAIN rows
  /\ h.phase \in {"claimed", "engine"} =>
       /\ h.rev <= rows[h.job].rev
       /\ h.rev = rows[h.job].rev =>
            rows[h.job].worker = w /\ rows[h.job].claim = h.claim /\ rows[h.job].status \in Active

TablesOK ==
  /\ claims \in Nat
  /\ jobs \in Seq(Rows) /\ rems \in Seq(Sessions)
  /\ \A j \in JobIds : jobs[j].rem \in RemIds

ScansOK == scans \in Seq(ScanRows) /\ \A s \in DOMAIN scans : scans[s].job \in JobIds

ReqsOK ==
  /\ req \in [Clients -> Reqs]
  /\ \A c \in Clients : req[c].op # "none" => req[c].job \in JobIds

FixInv ==
  /\ TablesOK
  /\ ScansOK
  /\ ReqsOK
  /\ held \in [Workers -> Mem]
  /\ \A w \in Workers : Sound(held[w], w, jobs)

-----------------------------------------------------------------------------
(* What a step may do to the tables                                        *)

(* A row gets a larger revision or stays as it is, keeps its session, and  *)
(* keeps a terminal status.                                                *)
Later(old, new) ==
  /\ old.rev <= new.rev
  /\ old.rev = new.rev => new = old
  /\ new.rem = old.rem
  /\ old.status \in Terminal => new.status = old.status

(* A new job finds every other job of its session terminal.                *)
NewJobs ==
  \A k \in DOMAIN jobs' \ JobIds :
    /\ jobs'[k].rem \in DOMAIN rems' /\ jobs'[k].status = "queued"
    /\ \A j \in DOMAIN jobs' \ {k} :
         jobs'[j].rem = jobs'[k].rem => jobs'[j].status \in Terminal

RemsKept ==
  /\ rems' \in Seq(Sessions) /\ RemIds \subseteq DOMAIN rems'
  /\ \A r \in RemIds : rems'[r].origin = rems[r].origin

JobsKept ==
  /\ jobs' \in Seq(Rows) /\ JobIds \subseteq DOMAIN jobs'
  /\ \A j \in JobIds : Later(jobs[j], jobs'[j])

Advanced == JobsKept /\ RemsKept /\ NewJobs

(* No job becomes active: every step but a claim.                          *)
Calm == \A j \in JobIds : jobs'[j].status \in Active => jobs[j].status \in Active

LEMMA Ids == ASSUME TablesOK PROVE JobIds = DOMAIN jobs /\ RemIds = DOMAIN rems
  BY DEF TablesOK, JobIds, RemIds

LEMMA RowType ==
    ASSUME TablesOK, NEW j \in JobIds
    PROVE  /\ jobs[j] \in Rows /\ jobs[j].rev \in Nat /\ jobs[j].status \in Statuses
           /\ jobs[j].ws \in Nat /\ jobs[j].claim \in Nat
           /\ jobs[j].rem \in RemIds /\ rems[jobs[j].rem] \in Sessions
<1>1. jobs[j] \in Rows /\ jobs[j].rem \in RemIds /\ rems[jobs[j].rem] \in Sessions
  BY Ids DEF TablesOK
<1>2. QED
  BY <1>1 DEF Rows

LEMMA SoundKept ==
    ASSUME FixInv, Advanced, NEW w \in Workers, NEW h, Sound(h, w, jobs)
    PROVE  Sound(h, w, jobs')
<1>1. CASE h.phase = "idle"
  BY <1>1 DEF Sound
<1>2. CASE h.phase # "idle"
  <2>1. h.job \in JobIds /\ h.job \in DOMAIN jobs' /\ h.rev \in Nat
    BY <1>2, Ids DEF Sound, Advanced, JobsKept, FixInv, Mem
  <2>2. jobs[h.job].rev \in Nat /\ jobs'[h.job] \in Rows
    BY <2>1, RowType DEF FixInv, Advanced, JobsKept
  <2>3. jobs'[h.job].rev \in Nat
    BY <2>2 DEF Rows
  <2>4. Later(jobs[h.job], jobs'[h.job])
    BY <2>1 DEF Advanced, JobsKept
  <2>5. QED
    BY <1>2, <2>1, <2>2, <2>3, <2>4 DEF Sound, Later
<1>3. QED
  BY <1>1, <1>2

(* The rest of the state follows the tables.                               *)
LEMMA Keeps ==
    ASSUME FixInv, Advanced, claims' \in Nat,
           scans' \in Seq(ScanRows), req' \in [Clients -> Reqs],
           \A s \in DOMAIN scans' : scans'[s].job \in JobIds,
           \A c \in Clients : req'[c].op # "none" => req'[c].job \in JobIds,
           held' \in [Workers -> Mem],
           \A w \in Workers : held'[w] = held[w] \/ Sound(held'[w], w, jobs')
    PROVE  FixInv'
<1>1. JobIds \subseteq JobIds' /\ RemIds \subseteq RemIds' /\ JobIds' = DOMAIN jobs'
      /\ RemIds' = DOMAIN rems' /\ JobIds = DOMAIN jobs
  BY Ids DEF Advanced, JobsKept, RemsKept, JobIds, RemIds, FixInv
<1>2. TablesOK'
  <2>1. ASSUME NEW j \in JobIds' PROVE jobs'[j].rem \in RemIds'
    <3>1. CASE j \in JobIds
      BY <1>1, <3>1, RowType DEF Advanced, JobsKept, Later, FixInv
    <3>2. CASE j \notin JobIds
      BY <1>1, <3>2 DEF Advanced, NewJobs
    <3>3. QED
      BY <3>1, <3>2
  <2>2. QED
    BY <2>1 DEF TablesOK, Advanced, JobsKept, RemsKept
<1>3. ScansOK' /\ ReqsOK'
  BY <1>1 DEF ScansOK, ReqsOK
<1>4. ASSUME NEW w \in Workers PROVE Sound(held'[w], w, jobs')
  BY SoundKept DEF FixInv
<1>5. QED
  BY <1>2, <1>3, <1>4 DEF FixInv

-----------------------------------------------------------------------------
(* Writes of jobs and of sessions                                          *)

LEMMA SameJobs ==
    ASSUME TablesOK, UNCHANGED jobs PROVE JobsKept /\ NewJobs /\ Calm
<1>1. ASSUME NEW j \in JobIds PROVE jobs[j].rev <= jobs[j].rev
  BY RowType
<1>2. QED
  BY <1>1, Ids DEF JobsKept, NewJobs, Calm, Later, TablesOK

LEMMA SameRems == ASSUME TablesOK, UNCHANGED rems PROVE RemsKept
  BY Ids DEF RemsKept, TablesOK

(* Some rows change, each to its next revision.                            *)
LEMMA ManyJobs ==
    ASSUME TablesOK, DOMAIN jobs' = JobIds,
           \A j \in JobIds :
             \/ jobs'[j] = jobs[j]
             \/ /\ jobs'[j] \in Rows /\ jobs'[j].rev = jobs[j].rev + 1
                /\ jobs'[j].rem = jobs[j].rem
                /\ jobs[j].status \in Terminal => jobs'[j].status = jobs[j].status,
           jobs' = [j \in JobIds |-> jobs'[j]]
    PROVE  JobsKept /\ NewJobs
<1>1. \A j \in JobIds : jobs'[j] \in Rows
  BY RowType
<1>2. JobIds = 1..Len(jobs) /\ Len(jobs) \in Nat
  BY DEF JobIds, TablesOK
<1>3. jobs' \in Seq(Rows)
  BY <1>1, <1>2
<1>4. ASSUME NEW j \in JobIds PROVE Later(jobs[j], jobs'[j])
  <2>1. jobs[j].rev \in Nat
    BY RowType
  <2>2. QED
    BY <2>1 DEF Later
<1>5. QED
  BY <1>3, <1>4 DEF JobsKept, NewJobs

LEMMA OneJob ==
    ASSUME TablesOK, NEW j \in JobIds, NEW row \in Rows, row.rev = jobs[j].rev,
           row.rem = jobs[j].rem, jobs[j].status \in Terminal => row.status = jobs[j].status,
           SetJob(j, row)
    PROVE  /\ JobsKept /\ NewJobs /\ DOMAIN jobs' = JobIds
           /\ jobs'[j] = [row EXCEPT !.rev = jobs[j].rev + 1]
           /\ jobs'[j].rev = jobs[j].rev + 1 /\ jobs'[j].status = row.status
           /\ jobs'[j].worker = row.worker /\ jobs'[j].claim = row.claim
           /\ jobs'[j].ws = row.ws /\ jobs'[j].rem = jobs[j].rem
           /\ jobs'[j].from = row.from /\ jobs'[j].cleanup = row.cleanup
           /\ \A k \in JobIds \ {j} : jobs'[k] = jobs[k]
<1>1. PICK v \in Nat : v = jobs[j].rev + 1
  BY RowType
<1> DEFINE new == [row EXCEPT !.rev = v]
<1>2. jobs' = [jobs EXCEPT ![j] = new]
  BY <1>1 DEF SetJob, Bump
<1>3. new \in Rows /\ new.rev = v /\ new.status = row.status /\ new.rem = row.rem
      /\ new.worker = row.worker /\ new.claim = row.claim /\ new.ws = row.ws
      /\ new.from = row.from /\ new.cleanup = row.cleanup
  BY DEF Rows
<1> HIDE DEF new
<1>4. JobIds = DOMAIN jobs /\ DOMAIN jobs' = JobIds /\ jobs'[j] = new
      /\ jobs' = [k \in JobIds |-> jobs'[k]]
      /\ \A k \in JobIds \ {j} : jobs'[k] = jobs[k]
  BY <1>2, Ids DEF TablesOK
<1>5. JobsKept /\ NewJobs
  BY <1>1, <1>3, <1>4, ManyJobs
<1>6. QED
  BY <1>1, <1>3, <1>4, <1>5 DEF new

LEMMA OneRem ==
    ASSUME TablesOK, NEW r \in RemIds, NEW s \in Sessions, s.origin = rems[r].origin,
           rems' = [rems EXCEPT ![r] = s]
    PROVE  RemsKept
  BY Ids DEF RemsKept, TablesOK

(* A job that is not written keeps everything; a write never revives one.  *)
LEMMA CalmWrite ==
    ASSUME TablesOK, NEW j \in JobIds, \A k \in JobIds \ {j} : jobs'[k] = jobs[k],
           jobs'[j].status \in Active => jobs[j].status \in Active
    PROVE  Calm
  BY DEF Calm

(* The transactions of the model that write jobs by themselves             *)

LEMMA SupersededRow ==
    ASSUME TablesOK, NEW j \in JobIds, jobs[j].status \in Paused
    PROVE  LET row == Bump([jobs[j] EXCEPT !.status = "superseded"])
           IN  /\ row \in Rows /\ row.rev = jobs[j].rev + 1 /\ row.rem = jobs[j].rem
               /\ row.status = "superseded" /\ jobs[j].status \notin Terminal
               /\ row.ws = jobs[j].ws /\ row.claim = jobs[j].claim
               /\ row.from = jobs[j].from /\ row.worker = jobs[j].worker
<1>1. PICK v \in Nat : v = jobs[j].rev + 1
  BY RowType
<1>2. jobs[j] \in Rows
  BY RowType
<1> DEFINE row == [jobs[j] EXCEPT !.status = "superseded", !.rev = v]
<1>3. Bump([jobs[j] EXCEPT !.status = "superseded"]) = row
  BY <1>1, <1>2 DEF Bump, Rows
<1>4. row \in Rows /\ row.rev = v /\ row.rem = jobs[j].rem /\ row.status = "superseded"
      /\ row.ws = jobs[j].ws /\ row.claim = jobs[j].claim
      /\ row.from = jobs[j].from /\ row.worker = jobs[j].worker
  BY <1>2 DEF Rows, Statuses, Terminal
<1>5. QED
  BY <1>1, <1>3, <1>4 DEF Paused, Terminal

(* A nonempty set of row numbers has a largest one.                        *)
LEMMA HasMax ==
    ASSUME NEW n \in Nat, NEW S \in SUBSET (1..n), S # {}
    PROVE  \E x \in S : \A y \in S : y <= x
<1> DEFINE R == {p \in Nat \X Nat : p[1] < p[2]}
<1> DEFINE T == {n - x : x \in S}
<1>1. T \subseteq Nat /\ T # {}
  <2>1. ASSUME NEW x \in S PROVE n - x \in Nat
    OBVIOUS
  <2>2. PICK x \in S : TRUE
    OBVIOUS
  <2>3. n - x \in T
    OBVIOUS
  <2>4. QED
    BY <2>1, <2>3
<1>2. IsWellFoundedOn(R, Nat)
  BY NatLessThanWellFounded DEF OpToRel
<1> HIDE DEF R, T
<1>3. PICK t \in T : \A u \in T : ~ (<<u, t>> \in R)
  BY <1>1, <1>2, WFMin
<1>4. PICK x \in S : t = n - x
  BY <1>3 DEF T
<1>5. ASSUME NEW y \in S PROVE y <= x
  <2>1. n - y \in T /\ n - y \in Nat /\ n - x \in Nat /\ x \in Nat /\ y \in Nat
    BY DEF T
  <2>2. ~ (<<n - y, n - x>> \in R)
    BY <1>3, <1>4, <2>1
  <2>3. ~ (n - y < n - x)
    BY <2>1, <2>2 DEF R
  <2>4. QED
    BY <2>1, <2>3
<1>6. QED
  BY <1>5

(* The session createFixJob finds exists.                                  *)
LEMMA LatestExists ==
    ASSUME TablesOK, NEW o PROVE LatestRem(o) = 0 \/ LatestRem(o) \in RemIds
<1> DEFINE mine == {r \in RemIds : rems[r].origin = o}
<1>1. CASE mine = {}
  BY <1>1 DEF LatestRem
<1>2. CASE mine # {}
  <2>1. RemIds = 1..Len(rems) /\ Len(rems) \in Nat
    BY DEF TablesOK, RemIds
  <2>2. mine \in SUBSET (1..Len(rems))
    BY <2>1
  <2>3. LatestRem(o) = CHOOSE r \in mine : \A q \in mine : q <= r
    BY <1>2 DEF LatestRem
  <2> HIDE DEF mine
  <2>4. \E r \in mine : \A q \in mine : q <= r
    BY <1>2, <2>1, <2>2, HasMax
  <2>5. LatestRem(o) \in mine
    BY <2>3, <2>4
  <2>6. QED
    BY <2>5 DEF mine
<1>3. QED
  BY <1>1, <1>2

LEMMA EnqueueAdvances ==
    ASSUME TablesOK, NEW o \in Origins, NEW run \in Nat, NEW from \in Nat, Enqueue(o, run, from)
    PROVE  /\ Advanced /\ Calm
           /\ \A j \in JobIds : jobs'[j].ws = jobs[j].ws /\ jobs'[j].claim = jobs[j].claim
           /\ \A j \in DOMAIN jobs' \ JobIds :
                /\ jobs'[j].claim = 0
                /\ jobs'[j].ws = 0 \/ (jobs'[j].rem \in RemIds /\ jobs'[j].ws = rems[jobs'[j].rem].ws)
           /\ \A r \in DOMAIN rems' : rems'[r].ws = 0 \/ (r \in RemIds /\ rems'[r].ws = rems[r].ws)
<1> DEFINE r == LatestRem(o)
<1> DEFINE open == r # 0 /\ rems[r].state = "open"
<1> DEFINE rem == IF open THEN r ELSE Len(rems) + 1
<1> DEFINE ws == IF open THEN rems[r].ws ELSE 0
<1> DEFINE job == [status |-> "queued", rev |-> 0, rem |-> rem, cleanup |-> FALSE,
              worker |-> None, claim |-> 0, ws |-> ws, pushed |-> FALSE, run |-> run, from |-> from]
<1> DEFINE row(k) == IF k \in PausedOn(rem)
                     THEN Bump([jobs[k] EXCEPT !.status = "superseded"]) ELSE jobs[k]
<1> DEFINE new == [origin |-> o, state |-> "open", ws |-> 0]
<1>1. /\ open => ~BusyOn(r)
      /\ rems' = IF open THEN rems ELSE Append(rems, new)
      /\ jobs' = Append([k \in JobIds |-> row(k)], job)
  BY DEF Enqueue
<1>2. Len(rems) \in Nat /\ Len(jobs) \in Nat /\ RemIds = 1..Len(rems) /\ JobIds = 1..Len(jobs)
      /\ RemIds = DOMAIN rems /\ rems \in Seq(Sessions)
  BY DEF TablesOK, RemIds, JobIds
<1>3. open => r \in RemIds /\ rems[r].ws \in Nat
  <2> SUFFICES ASSUME open PROVE r \in RemIds /\ rems[r].ws \in Nat
    OBVIOUS
  <2>1. r \in RemIds
    BY LatestExists
  <2>2. rems[r] \in Sessions
    BY <1>2, <2>1
  <2>3. QED
    BY <2>1, <2>2 DEF Sessions
<1>4. rem \in Nat /\ ws \in Nat /\ (open => rem \in RemIds /\ ws = rems[rem].ws) /\ (~open => rem = Len(rems) + 1 /\ ws = 0)
  BY <1>2, <1>3
<1>5. new \in Sessions
  BY DEF Sessions
<1> HIDE DEF r, new
<1>6. RemsKept /\ rem \in DOMAIN rems' /\ \A q \in DOMAIN rems' : rems'[q].ws = 0 \/ (q \in RemIds /\ rems'[q].ws = rems[q].ws)
  <2>1. CASE open
    BY <1>1, <1>2, <1>4, <2>1, SameRems
  <2>2. CASE ~open
    <3>1. rems' = Append(rems, new) /\ rem = Len(rems) + 1
      BY <1>1, <1>4, <2>2
    <3>2. rems' \in Seq(Sessions) /\ DOMAIN rems' = 1..(Len(rems) + 1) /\ rems'[Len(rems) + 1] = new
          /\ \A q \in RemIds : rems'[q] = rems[q]
      BY <1>2, <1>5, <3>1
    <3>3. new.ws = 0
      BY DEF new
    <3>4. QED
      BY <1>2, <3>1, <3>2, <3>3 DEF RemsKept
  <2>3. QED
    BY <2>1, <2>2
<1>7. job \in Rows
  BY <1>4 DEF Rows, Statuses, Busy
<1> HIDE DEF rem, ws, open
<1>8. ASSUME NEW k \in JobIds
      PROVE  /\ row(k) \in Rows /\ row(k).rem = jobs[k].rem /\ Later(jobs[k], row(k))
             /\ row(k).ws = jobs[k].ws /\ row(k).claim = jobs[k].claim
             /\ row(k).status \in Active => jobs[k].status \in Active
             /\ k \in PausedOn(rem) => row(k).status = "superseded"
             /\ k \notin PausedOn(rem) => row(k) = jobs[k]
  <2>1. jobs[k].rev \in Nat /\ jobs[k] \in Rows
    BY RowType
  <2>2. CASE k \in PausedOn(rem)
    <3>1. jobs[k].status \in Paused
      BY <2>2 DEF PausedOn
    <3>2. QED
      BY <2>1, <2>2, <3>1, SupersededRow DEF Later, Active
  <2>3. CASE k \notin PausedOn(rem)
    BY <2>1, <2>3 DEF Later
  <2>4. QED
    BY <2>2, <2>3
<1> DEFINE old == [k \in JobIds |-> row(k)]
<1> HIDE DEF row, job
<1>9. old \in Seq(Rows) /\ Len(old) = Len(jobs)
  BY <1>2, <1>8
<1>10. /\ jobs' \in Seq(Rows) /\ DOMAIN jobs' = 1..(Len(jobs) + 1) /\ jobs'[Len(jobs) + 1] = job
       /\ \A k \in JobIds : jobs'[k] = row(k)
  BY <1>1, <1>2, <1>7, <1>9
<1>11. job.rem = rem /\ job.status = "queued" /\ job.claim = 0 /\ job.ws = ws
  BY DEF job
<1>12. ASSUME NEW k \in JobIds, jobs'[k].rem = rem PROVE jobs'[k].status \in Terminal
  <2>1. jobs[k].rem = rem /\ jobs[k].rem \in RemIds /\ jobs[k].status \in Statuses
    BY <1>8, <1>10, <1>12, RowType
  <2>2. open /\ rem = r
    BY <1>2, <1>4, <2>1 DEF rem
  <2>3. jobs[k].status \notin Busy
    BY <1>1, <2>1, <2>2 DEF BusyOn
  <2>4. CASE k \in PausedOn(rem)
    BY <1>8, <1>10, <2>4 DEF Terminal
  <2>5. CASE k \notin PausedOn(rem)
    BY <1>8, <1>10, <2>1, <2>3, <2>5 DEF PausedOn, Statuses
  <2>6. QED
    BY <2>4, <2>5
<1>13. DOMAIN jobs' \ JobIds = {Len(jobs) + 1}
  BY <1>2, <1>10
<1>14. JobsKept /\ NewJobs
  BY <1>2, <1>6, <1>8, <1>10, <1>11, <1>12, <1>13 DEF JobsKept, NewJobs
<1>15. Calm /\ \A j \in JobIds : jobs'[j].ws = jobs[j].ws /\ jobs'[j].claim = jobs[j].claim
  BY <1>8, <1>10 DEF Calm
<1>16. ASSUME NEW j \in DOMAIN jobs' \ JobIds
       PROVE  /\ jobs'[j].claim = 0
              /\ jobs'[j].ws = 0 \/ (jobs'[j].rem \in RemIds /\ jobs'[j].ws = rems[jobs'[j].rem].ws)
  <2>1. jobs'[j].rem = rem /\ jobs'[j].ws = ws /\ jobs'[j].claim = 0
    BY <1>10, <1>11, <1>13
  <2>2. QED
    BY <1>4, <2>1
<1>17. QED
  BY <1>6, <1>14, <1>15, <1>16 DEF Advanced

-----------------------------------------------------------------------------
(* Every step but a claim                                                  *)

(* Where a claim and a workspace come from: the row itself, the claim of   *)
(* the worker that runs the job, or the session.                           *)
Traced ==
  /\ claims' = claims
  /\ \A j \in JobIds :
       /\ jobs'[j].claim = jobs[j].claim
       /\ \/ jobs'[j].ws \in {0, jobs[j].ws}
          \/ \E w \in Workers : /\ held[w].phase # "idle" /\ held[w].job = j
                                /\ jobs'[j].ws = held[w].claim
  /\ \A j \in DOMAIN jobs' \ JobIds :
       /\ jobs'[j].claim = 0
       /\ jobs'[j].ws = 0 \/ (jobs'[j].rem \in RemIds /\ jobs'[j].ws = rems[jobs'[j].rem].ws)
  /\ \A r \in DOMAIN rems' :
       \/ rems'[r].ws = 0
       \/ r \in RemIds /\ rems'[r].ws = rems[r].ws
       \/ \E w \in Workers : /\ held[w].phase # "idle" /\ jobs[held[w].job].rem = r
                             /\ rems'[r].ws = held[w].ws

HeldTraced ==
  \A w \in Workers : held'[w].phase # "idle" =>
    /\ held[w].phase # "idle" /\ held'[w].job = held[w].job /\ held'[w].claim = held[w].claim
    /\ held'[w].ws \in {held[w].ws, jobs'[held[w].job].ws}

Step == Advanced /\ Calm /\ Traced /\ HeldTraced

LEMMA HeldType ==
    ASSUME FixInv, NEW w \in Workers, held[w].phase # "idle"
    PROVE  /\ held[w] \in Mem /\ held[w].job \in JobIds /\ held[w].rev \in Nat
           /\ held[w].claim \in Nat /\ held[w].ws \in Nat /\ jobs[held[w].job].rem \in RemIds
<1>1. held[w] \in Mem /\ held[w].job \in JobIds
  BY Ids DEF FixInv, Sound
<1>2. QED
  BY <1>1, RowType DEF Mem, FixInv

LEMMA IdleSound == ASSUME NEW w, NEW rows PROVE Sound(Idle, w, rows) /\ Idle.phase = "idle"
  BY DEF Sound, Idle, Mem

(* Scans, requests and workers that stay as they are.                      *)
LEMMA AloneKeeps ==
    ASSUME FixInv, Advanced, claims' \in Nat, UNCHANGED <<scans, req, held>> PROVE FixInv'
<1>1. scans' \in Seq(ScanRows) /\ req' \in [Clients -> Reqs] /\ held' \in [Workers -> Mem]
      /\ (\A s \in DOMAIN scans' : scans'[s].job \in JobIds)
      /\ (\A c \in Clients : req'[c].op # "none" => req'[c].job \in JobIds)
  BY DEF FixInv, ScansOK, ReqsOK
<1>2. QED
  BY <1>1, Keeps

LEMMA WorkerKeeps ==
    ASSUME FixInv, Advanced, claims' \in Nat, UNCHANGED <<scans, req>>,
           NEW w \in Workers, NEW g, Sound(g, w, jobs'), held' = [held EXCEPT ![w] = g]
    PROVE  FixInv'
<1>1. scans' \in Seq(ScanRows) /\ req' \in [Clients -> Reqs]
      /\ (\A s \in DOMAIN scans' : scans'[s].job \in JobIds)
      /\ (\A c \in Clients : req'[c].op # "none" => req'[c].job \in JobIds)
  BY DEF FixInv, ScansOK, ReqsOK
<1>2. held' \in [Workers -> Mem] /\ held'[w] = g /\ \A v \in Workers \ {w} : held'[v] = held[v]
  BY DEF FixInv, Sound
<1>3. QED
  BY <1>1, <1>2, Keeps

(* A worker that only changes its phase, or forgets the job.               *)
LEMMA PhaseSound ==
    ASSUME FixInv, Advanced, NEW w \in Workers, held[w].phase # "idle",
           NEW p, p \in {"stopped", "done", "saved", "alone"}
    PROVE  LET g == [held[w] EXCEPT !.phase = p]
           IN  /\ Sound(g, w, jobs') /\ g.job = held[w].job /\ g.claim = held[w].claim
               /\ g.ws = held[w].ws /\ g.phase = p
<1>1. held[w] \in Mem /\ held[w].job \in DOMAIN jobs'
  BY HeldType DEF Advanced, JobsKept
<1>2. QED
  BY <1>1 DEF Sound, Mem

LEMMA WorkerTraced ==
    ASSUME FixInv, NEW w \in Workers, NEW g, held' = [held EXCEPT ![w] = g],
           g.phase # "idle" =>
             /\ held[w].phase # "idle" /\ g.job = held[w].job /\ g.claim = held[w].claim
             /\ g.ws \in {held[w].ws, jobs'[held[w].job].ws}
    PROVE  HeldTraced
  BY DEF HeldTraced, FixInv

LEMMA SameTraced == ASSUME UNCHANGED <<jobs, rems, claims>>, TablesOK PROVE Traced
  BY Ids DEF Traced

LEMMA SameHeld == ASSUME UNCHANGED held PROVE HeldTraced
  BY DEF HeldTraced

(* Requests and child scans.                                               *)
LEMMA ScansOnly ==
    ASSUME FixInv, Advanced, claims' \in Nat, UNCHANGED <<held, req>>,
           NEW s \in DOMAIN scans, NEW st \in {"pending", "failed", "checking", "creating", "over"},
           SetScan(s, st)
    PROVE  FixInv'
<1>1. scans[s] \in ScanRows
  BY DEF FixInv, ScansOK
<1> DEFINE row == [scans[s] EXCEPT !.status = st]
<1>2. row \in ScanRows /\ row.job = scans[s].job
  BY <1>1 DEF ScanRows
<1> HIDE DEF row
<1>3. scans' = [scans EXCEPT ![s] = row]
  BY DEF SetScan, row
<1>4. scans' \in Seq(ScanRows) /\ \A q \in DOMAIN scans' : scans'[q].job \in JobIds
  BY <1>2, <1>3 DEF FixInv, ScansOK
<1>5. req' \in [Clients -> Reqs] /\ held' \in [Workers -> Mem]
      /\ (\A c \in Clients : req'[c].op # "none" => req'[c].job \in JobIds)
  BY DEF FixInv, ReqsOK
<1>6. QED
  BY <1>4, <1>5, Keeps

LEMMA ReqOnly ==
    ASSUME FixInv, Advanced, claims' \in Nat, UNCHANGED <<held, scans>>,
           NEW c \in Clients, NEW q \in Reqs, q.op # "none" => q.job \in JobIds,
           req' = [req EXCEPT ![c] = q]
    PROVE  FixInv'
<1>1. req' \in [Clients -> Reqs] /\ \A d \in Clients : req'[d].op # "none" => req'[d].job \in JobIds
  BY DEF FixInv, ReqsOK
<1>2. scans' \in Seq(ScanRows) /\ held' \in [Workers -> Mem]
      /\ (\A s \in DOMAIN scans' : scans'[s].job \in JobIds)
  BY DEF FixInv, ScansOK
<1>3. QED
  BY <1>1, <1>2, Keeps

LEMMA Untouched ==
    ASSUME FixInv, UNCHANGED <<jobs, rems, claims>> PROVE Advanced /\ Calm /\ Traced
  BY SameJobs, SameRems, SameTraced DEF FixInv, Advanced

(* Creation and the follow-up run                                          *)

LEMMA EnqueueStep ==
    ASSUME TablesOK, NEW o \in Origins, NEW run \in Nat, NEW from \in Nat,
           Enqueue(o, run, from), claims' = claims
    PROVE  Advanced /\ Calm /\ Traced
  BY EnqueueAdvances DEF Traced

LEMMA CreateFixStep ==
    ASSUME FixInv, NEW o \in Origins, CreateFix(o) PROVE FixInv' /\ Step
<1>1. Enqueue(o, 1, 0) /\ UNCHANGED <<claims, scans, req, held>> /\ claims' \in Nat
  BY DEF CreateFix, FixInv, TablesOK
<1>2. Advanced /\ Calm /\ Traced
  BY <1>1, EnqueueStep DEF FixInv
<1>3. QED
  BY <1>1, <1>2, AloneKeeps, SameHeld DEF Step

LEMMA NextRunCreateStep ==
    ASSUME FixInv, NEW s \in DOMAIN scans, NextRunCreate(s) PROVE FixInv' /\ Step
<1> DEFINE j == scans[s].job
<1> DEFINE o == rems[jobs[j].rem].origin
<1>1. /\ SetScan(s, "over") /\ UNCHANGED <<claims, req, held>> /\ claims' \in Nat
      /\ Enqueue(o, NextRun(j), j) \/ UNCHANGED <<jobs, rems>>
  BY DEF NextRunCreate, FixInv, TablesOK
<1>2. j \in JobIds
  BY DEF FixInv, ScansOK
<1>3. o \in Origins /\ jobs[j].run \in Nat /\ j \in Nat
  <2>1. jobs[j] \in Rows /\ rems[jobs[j].rem] \in Sessions
    BY <1>2, RowType DEF FixInv
  <2>2. j \in Nat
    BY <1>2 DEF JobIds, FixInv, TablesOK
  <2>3. QED
    BY <2>1, <2>2 DEF Rows, Sessions
<1>4. NextRun(j) \in Nat
  BY <1>3 DEF NextRun
<1>5. Advanced /\ Calm /\ Traced
  BY <1>1, <1>3, <1>4, EnqueueStep, Untouched DEF FixInv
<1>6. QED
  BY <1>1, <1>5, ScansOnly, SameHeld DEF Step

-----------------------------------------------------------------------------
(* The claim's life                                                        *)

LEMMA HeartbeatStep ==
    ASSUME FixInv, NEW w \in Workers, Heartbeat(w) PROVE FixInv' /\ Step
<1> DEFINE g == [held[w] EXCEPT !.phase = "stopped"]
<1>1. Advanced /\ Calm /\ Traced /\ held[w].phase # "idle" /\ UNCHANGED <<scans, req>> /\ claims' \in Nat
  BY Untouched DEF Heartbeat, FixInv, TablesOK
<1>2. CASE UNCHANGED held
  BY <1>1, <1>2, AloneKeeps, SameHeld DEF Step
<1>3. CASE held' = [held EXCEPT ![w] = g]
  <2>1. Sound(g, w, jobs') /\ g.job = held[w].job /\ g.claim = held[w].claim /\ g.ws = held[w].ws
    BY <1>1, PhaseSound
  <2> HIDE DEF g
  <2>2. QED
    BY <1>1, <1>3, <2>1, WorkerKeeps, WorkerTraced DEF Step
<1>4. QED
  BY <1>2, <1>3 DEF Heartbeat

LEMMA CrashStep ==
    ASSUME FixInv, NEW w \in Workers, Crash(w) PROVE FixInv' /\ Step
<1>1. Advanced /\ Calm /\ Traced /\ UNCHANGED <<scans, req>> /\ claims' \in Nat
      /\ held' = [held EXCEPT ![w] = Idle]
  BY Untouched DEF Crash, FixInv, TablesOK
<1>2. Sound(Idle, w, jobs') /\ Idle.phase = "idle"
  BY IdleSound
<1>3. QED
  BY <1>1, <1>2, WorkerKeeps, WorkerTraced DEF Step

LEMMA AgeStep ==
    ASSUME FixInv, NEW j \in JobIds, Expire(j) \/ Suspend(j) PROVE FixInv' /\ Step
<1>1. UNCHANGED <<jobs, rems, claims, held, scans, req>> /\ claims' \in Nat
  BY DEF Expire, Suspend, Age, FixInv, TablesOK
<1>2. QED
  BY <1>1, Untouched, AloneKeeps, SameHeld DEF Step

LEMMA ReclaimedRow ==
    ASSUME TablesOK, NEW j \in JobIds
    PROVE  LET row == Bump([jobs[j] EXCEPT !.status = "queued", !.worker = None])
           IN  /\ row \in Rows /\ row.rev = jobs[j].rev + 1 /\ row.rem = jobs[j].rem
               /\ row.status = "queued" /\ row.ws = jobs[j].ws /\ row.claim = jobs[j].claim
               /\ row.from = jobs[j].from /\ row.worker = None
<1>1. PICK v \in Nat : v = jobs[j].rev + 1
  BY RowType
<1>2. jobs[j] \in Rows
  BY RowType
<1> DEFINE row == [jobs[j] EXCEPT !.status = "queued", !.worker = None, !.rev = v]
<1>3. Bump([jobs[j] EXCEPT !.status = "queued", !.worker = None]) = row
  BY <1>1, <1>2 DEF Bump, Rows
<1>4. row \in Rows /\ row.rev = v /\ row.rem = jobs[j].rem /\ row.status = "queued"
      /\ row.ws = jobs[j].ws /\ row.claim = jobs[j].claim
      /\ row.from = jobs[j].from /\ row.worker = None
  BY <1>2 DEF Rows, Statuses, Busy
<1>5. QED
  BY <1>1, <1>3, <1>4

LEMMA ReclaimStep == ASSUME FixInv, Reclaim PROVE FixInv' /\ Step
<1> DEFINE row(j) == IF j \in Stale
                     THEN Bump([jobs[j] EXCEPT !.status = "queued", !.worker = None]) ELSE jobs[j]
<1>1. jobs' = [j \in JobIds |-> row(j)] /\ UNCHANGED <<rems, claims, held, scans, req>>
      /\ claims' \in Nat
  BY DEF Reclaim, FixInv, TablesOK
<1>2. ASSUME NEW j \in JobIds
      PROVE  /\ \/ row(j) = jobs[j]
                \/ /\ row(j) \in Rows /\ row(j).rev = jobs[j].rev + 1 /\ row(j).rem = jobs[j].rem
                   /\ jobs[j].status \in Terminal => row(j).status = jobs[j].status
             /\ row(j).status \in Active => jobs[j].status \in Active
             /\ row(j).ws = jobs[j].ws /\ row(j).claim = jobs[j].claim
  <2>1. j \in Stale => jobs[j].status \in Active /\ jobs[j].status \notin Terminal
    BY DEF Stale, Active, Terminal
  <2>2. CASE j \in Stale
    BY <2>1, <2>2, ReclaimedRow DEF FixInv
  <2>3. CASE j \notin Stale
    BY <2>3
  <2>4. QED
    BY <2>2, <2>3
<1> HIDE DEF row
<1>3. DOMAIN jobs' = JobIds /\ jobs' = [j \in JobIds |-> jobs'[j]]
      /\ \A j \in JobIds : jobs'[j] = row(j)
  BY <1>1
<1>4. JobsKept /\ NewJobs /\ Calm /\ RemsKept
  BY <1>1, <1>2, <1>3, ManyJobs, SameRems DEF Calm, FixInv
<1>5. Traced
  BY <1>1, <1>2, <1>3, Ids DEF Traced, FixInv
<1>6. QED
  BY <1>1, <1>4, <1>5, AloneKeeps, SameHeld DEF Step, Advanced

-----------------------------------------------------------------------------
(* A worker's write lands only while the worker owns the active claim.     *)

LEMMA LandsOwned ==
    ASSUME FixInv, NEW w \in Workers, held[w].phase \in {"claimed", "engine"},
           NEW status, MayWrite(held[w].job, held[w].rev, status)
    PROVE  LET j == held[w].job
           IN  jobs[j].worker = w /\ jobs[j].claim = held[w].claim /\ jobs[j].status \in Active
  BY DEF MayWrite, FixInv, Sound

LEMMA SaveStep ==
    ASSUME FixInv, NEW w \in Workers, held[w].phase \in {"claimed", "engine"},
           NEW job \in Rows, job.rev = jobs[held[w].job].rev, job.rem = jobs[held[w].job].rem,
           job.claim = jobs[held[w].job].claim, job.worker = jobs[held[w].job].worker,
           job.ws \in {jobs[held[w].job].ws, held[w].claim},
           NEW p, p = "done" \/ (p = "engine" /\ job.status \in Active),
           NEW out \in Results \cup {NoResult},
           Save(w, job, p, out), UNCHANGED <<rems, claims, scans, req>>
    PROVE  FixInv' /\ Step
<1> DEFINE j == held[w].job
<1>0. j \in JobIds /\ held[w].phase # "idle" /\ claims' \in Nat
  BY HeldType DEF FixInv, TablesOK
<1>1. CASE MayWrite(j, held[w].rev, job.status)
  <2>0. PICK v \in Nat : v = jobs[j].rev + 1
    BY <1>0, RowType DEF FixInv
  <2> DEFINE g == [held[w] EXCEPT !.rev = v, !.ws = job.ws, !.phase = p, !.out = out]
  <2>1. SetJob(j, job) /\ held' = [held EXCEPT ![w] = g]
    <3>1. held' = [held EXCEPT ![w].rev = jobs[j].rev + 1, ![w].ws = job.ws,
                               ![w].phase = p, ![w].out = out]
      BY <1>1 DEF Save
    <3>2. QED
      BY <1>1, <2>0, <3>1 DEF Save
  <2>2. jobs[j].worker = w /\ jobs[j].claim = held[w].claim /\ jobs[j].status \in Active
    BY <1>1, LandsOwned
  <2>3. jobs[j].status \notin Terminal
    BY <2>2 DEF Active, Terminal
  <2>4. /\ JobsKept /\ NewJobs /\ DOMAIN jobs' = JobIds
        /\ jobs'[j].rev = jobs[j].rev + 1 /\ jobs'[j].status = job.status
        /\ jobs'[j].worker = job.worker /\ jobs'[j].claim = job.claim
        /\ jobs'[j].ws = job.ws /\ \A k \in JobIds \ {j} : jobs'[k] = jobs[k]
    BY ZenonT(30), <1>0, <2>1, <2>3, OneJob DEF FixInv
  <2>5. Advanced /\ Calm
    BY <1>0, <2>2, <2>4, SameRems, CalmWrite DEF Advanced, FixInv
  <2>6. job.ws \in Nat /\ held[w] \in Mem
    BY HeldType, <1>0 DEF Rows
  <2>7. g \in Mem /\ g.job = j /\ g.claim = held[w].claim /\ g.rev = v /\ g.phase = p /\ g.ws = job.ws
    BY <2>6 DEF Mem
  <2>8. jobs'[j].rev = v /\ j \in DOMAIN jobs' /\ v <= v
    BY <1>0, <2>0, <2>4
  <2>9. Sound(g, w, jobs')
    BY <2>2, <2>4, <2>7, <2>8 DEF Sound
  <2>10. Traced
    BY <1>0, <2>2, <2>4, Ids DEF Traced, FixInv
  <2> HIDE DEF g
  <2>11. HeldTraced
    BY <1>0, <2>1, <2>4, <2>7, WorkerTraced
  <2>12. QED
    BY <1>0, <2>1, <2>5, <2>9, <2>10, <2>11, WorkerKeeps DEF Step
<1>2. CASE ~MayWrite(j, held[w].rev, job.status)
  <2> DEFINE g == [held[w] EXCEPT !.phase = "stopped"]
  <2>1. held' = [held EXCEPT ![w] = g] /\ UNCHANGED jobs
    BY <1>2 DEF Save
  <2>2. Advanced /\ Calm /\ Traced
    BY <2>1, Untouched
  <2>3. Sound(g, w, jobs') /\ g.job = held[w].job /\ g.claim = held[w].claim /\ g.ws = held[w].ws
    BY <1>0, <2>2, PhaseSound
  <2> HIDE DEF g
  <2>4. QED
    BY <1>0, <2>1, <2>2, <2>3, WorkerKeeps, WorkerTraced DEF Step
<1>3. QED
  BY <1>1, <1>2

LEMMA StartEngineStep ==
    ASSUME FixInv, NEW w \in Workers, StartEngine(w) PROVE FixInv' /\ Step
<1> DEFINE j == held[w].job
<1> DEFINE ws == IF jobs[j].ws = 0 THEN held[w].claim ELSE jobs[j].ws
<1> DEFINE job == [jobs[j] EXCEPT !.status = "running", !.ws = ws]
<1>1. /\ held[w].phase = "claimed" /\ Save(w, job, "engine", NoResult)
      /\ UNCHANGED <<rems, claims, scans, req>>
  BY DEF StartEngine
<1>2. j \in JobIds /\ held[w].claim \in Nat
  BY <1>1, HeldType
<1>3. jobs[j] \in Rows /\ ws \in Nat /\ ws \in {jobs[j].ws, held[w].claim}
  BY <1>2, RowType DEF FixInv
<1> HIDE DEF ws
<1>4. job \in Rows /\ job.rev = jobs[j].rev /\ job.rem = jobs[j].rem /\ job.claim = jobs[j].claim
      /\ job.worker = jobs[j].worker /\ job.ws = ws /\ job.status \in Active
  BY <1>3 DEF Rows, Statuses, Busy, Active
<1> HIDE DEF job
<1>5. QED
  BY <1>1, <1>3, <1>4, SaveStep

(* What an agent run may end with.                                         *)
LEMMA ResultType ==
    ASSUME NEW out \in Results PROVE out.status \in Statuses /\ out.pushed \in BOOLEAN
<1>1. \/ \E st \in Paused \cup {"succeeded", "failed"} : out = [status |-> st, pushed |-> FALSE]
      \/ \E st \in {"succeeded", "push_failed"} : out = [status |-> st, pushed |-> TRUE]
  BY DEF Results
<1>2. \A st \in Paused \cup {"succeeded", "failed", "push_failed"} : st \in Statuses
  BY DEF Statuses, Paused, Terminal
<1>3. CASE \E st \in Paused \cup {"succeeded", "failed"} : out = [status |-> st, pushed |-> FALSE]
  <2>1. PICK st \in Paused \cup {"succeeded", "failed"} : out = [status |-> st, pushed |-> FALSE]
    BY <1>3
  <2>2. out.status = st /\ out.pushed = FALSE
    BY <2>1
  <2>3. QED
    BY <1>2, <2>2
<1>4. CASE \E st \in {"succeeded", "push_failed"} : out = [status |-> st, pushed |-> TRUE]
  <2>1. PICK st \in {"succeeded", "push_failed"} : out = [status |-> st, pushed |-> TRUE]
    BY <1>4
  <2>2. out.status = st /\ out.pushed = TRUE
    BY <2>1
  <2>3. QED
    BY <1>2, <2>2
<1>5. QED
  BY <1>1, <1>3, <1>4

LEMMA FinishStep ==
    ASSUME FixInv, NEW w \in Workers, Finish(w) PROVE FixInv' /\ Step
<1> DEFINE j == held[w].job
<1>1. PICK out \in Ends :
        /\ held[w].phase = "engine"
        /\ Save(w, [jobs[j] EXCEPT !.status = out.status, !.pushed = out.pushed], "done", out)
        /\ UNCHANGED <<rems, claims, scans, req>>
  BY DEF Finish
<1> DEFINE job == [jobs[j] EXCEPT !.status = out.status, !.pushed = out.pushed]
<1>2. out \in Results
  BY FixAssumption DEF FixAssumption
<1>3. out.status \in Statuses /\ out.pushed \in BOOLEAN
  BY <1>2, ResultType
<1>4. jobs[j] \in Rows
  BY <1>1, HeldType, RowType DEF FixInv
<1>5. job \in Rows /\ job.rev = jobs[j].rev /\ job.rem = jobs[j].rem /\ job.claim = jobs[j].claim
      /\ job.worker = jobs[j].worker /\ job.ws = jobs[j].ws
  BY <1>3, <1>4 DEF Rows
<1> HIDE DEF job
<1>6. Save(w, job, "done", out)
  BY <1>1 DEF job
<1>7. QED
  BY <1>1, <1>2, <1>5, <1>6, SaveStep

-----------------------------------------------------------------------------
(* Releasing a checkout                                                    *)

LEMMA ReleaseAdvances ==
    ASSUME FixInv, NEW j \in JobIds, Release(j), claims' = claims
    PROVE  Advanced /\ Calm /\ Traced
<1> DEFINE job == [jobs[j] EXCEPT !.cleanup = FALSE, !.worker = None, !.ws = 0]
<1> DEFINE r == jobs[j].rem
<1> DEFINE s == IF rems[r].state = "open" THEN [rems[r] EXCEPT !.state = "discarded", !.ws = 0]
                ELSE rems[r]
<1>1. jobs[j] \in Rows /\ r \in RemIds /\ rems[r] \in Sessions
  BY RowType DEF FixInv
<1>2. job \in Rows /\ job.rev = jobs[j].rev /\ job.rem = jobs[j].rem /\ job.claim = jobs[j].claim
      /\ job.ws = 0 /\ job.status = jobs[j].status
  BY <1>1 DEF Rows
<1>3. s \in Sessions /\ s.origin = rems[r].origin /\ s.ws \in {0, rems[r].ws}
  BY <1>1 DEF Sessions
<1>4. SetJob(j, job) /\ rems' = [rems EXCEPT ![r] = s]
  BY DEF Release
<1> HIDE DEF job, s
<1>5. RemsKept /\ DOMAIN rems' = RemIds /\ rems'[r] = s /\ \A q \in RemIds \ {r} : rems'[q] = rems[q]
  BY <1>1, <1>3, <1>4, OneRem, Ids DEF FixInv
<1>6. /\ JobsKept /\ NewJobs /\ DOMAIN jobs' = JobIds
      /\ jobs'[j].status = jobs[j].status /\ jobs'[j].claim = jobs[j].claim /\ jobs'[j].ws = 0
      /\ \A k \in JobIds \ {j} : jobs'[k] = jobs[k]
  BY <1>2, <1>4, OneJob DEF FixInv
<1>7. Calm
  BY <1>6, CalmWrite DEF FixInv
<1>8. Traced
  <2>1. \A k \in JobIds : jobs'[k].claim = jobs[k].claim /\ jobs'[k].ws \in {0, jobs[k].ws}
    BY <1>6
  <2>2. \A q \in DOMAIN rems' : rems'[q].ws = 0 \/ (q \in RemIds /\ rems'[q].ws = rems[q].ws)
    BY <1>1, <1>3, <1>5
  <2>3. QED
    BY <1>6, <2>1, <2>2 DEF Traced
<1>9. QED
  BY <1>5, <1>6, <1>7, <1>8 DEF Advanced

LEMMA ReleaseFailsAdvances ==
    ASSUME FixInv, NEW j \in JobIds, NEW rev, NEW worker \in Workers \cup {None},
           ReleaseFails(j, rev, worker), claims' = claims
    PROVE  Advanced /\ Calm /\ Traced
<1> DEFINE job == [jobs[j] EXCEPT !.worker = worker]
<1>1. UNCHANGED rems /\ (SetJob(j, job) \/ UNCHANGED jobs)
  BY DEF ReleaseFails
<1>2. CASE UNCHANGED jobs
  BY <1>1, <1>2, Untouched
<1>3. CASE SetJob(j, job)
  <2>1. jobs[j] \in Rows
    BY RowType DEF FixInv
  <2>2. job \in Rows /\ job.rev = jobs[j].rev /\ job.rem = jobs[j].rem /\ job.claim = jobs[j].claim
        /\ job.ws = jobs[j].ws /\ job.status = jobs[j].status
    BY <2>1 DEF Rows
  <2> HIDE DEF job
  <2>3. /\ JobsKept /\ NewJobs /\ DOMAIN jobs' = JobIds
        /\ jobs'[j].status = jobs[j].status /\ jobs'[j].claim = jobs[j].claim
        /\ jobs'[j].ws = jobs[j].ws /\ \A k \in JobIds \ {j} : jobs'[k] = jobs[k]
    BY <1>3, <2>2, OneJob DEF FixInv
  <2>4. Calm /\ RemsKept
    BY <1>1, <2>3, CalmWrite, SameRems DEF FixInv
  <2>5. Traced
    BY <1>1, <2>3, Ids DEF Traced, FixInv
  <2>6. QED
    BY <2>3, <2>4, <2>5 DEF Advanced
<1>4. QED
  BY <1>1, <1>2, <1>3

LEMMA AcknowledgeStep ==
    ASSUME FixInv, NEW w \in Workers, Acknowledge(w) PROVE FixInv' /\ Step
<1> DEFINE j == held[w].job
<1>1. /\ held[w].phase = "stopped" /\ held' = [held EXCEPT ![w] = Idle]
      /\ UNCHANGED <<scans, claims, req>> /\ claims' \in Nat
      /\ \/ UNCHANGED <<jobs, rems>> \/ Release(j) \/ ReleaseFails(j, jobs[j].rev, None)
  BY DEF Acknowledge, FixInv, TablesOK
<1>2. j \in JobIds
  BY <1>1, HeldType
<1>3. Advanced /\ Calm /\ Traced
  BY <1>1, <1>2, Untouched, ReleaseAdvances, ReleaseFailsAdvances
<1>4. Sound(Idle, w, jobs') /\ Idle.phase = "idle"
  BY IdleSound
<1>5. QED
  BY <1>1, <1>3, <1>4, WorkerKeeps, WorkerTraced DEF Step

-----------------------------------------------------------------------------
(* The lineage after an agent run                                          *)

LEMMA AfterRunStep ==
    ASSUME FixInv, NEW w \in Workers, AfterRun(w) PROVE FixInv' /\ Step
<1> DEFINE r == jobs[held[w].job].rem
<1> DEFINE live == jobs[held[w].job].rev = held[w].rev /\ rems[r].state = "open"
<1> DEFINE g == [held[w] EXCEPT !.phase = "saved"]
<1> DEFINE s == [rems[r] EXCEPT !.ws = held[w].ws]
<1>1. /\ held[w].phase = "done" /\ UNCHANGED <<jobs, claims, scans, req>> /\ claims' \in Nat
      /\ live => rems' = [rems EXCEPT ![r] = s] /\ held' = [held EXCEPT ![w] = g]
      /\ ~live => rems' = rems /\ held' = [held EXCEPT ![w] = Idle]
  BY DEF AfterRun, FixInv, TablesOK
<1>2. held[w].job \in JobIds /\ held[w].ws \in Nat /\ r \in RemIds /\ rems[r] \in Sessions
  BY <1>1, HeldType, RowType DEF FixInv
<1>3. JobsKept /\ NewJobs /\ Calm
  BY <1>1, SameJobs DEF FixInv
<1>4. CASE live
  <2>1. s \in Sessions /\ s.origin = rems[r].origin /\ s.ws = held[w].ws
    BY <1>2 DEF Sessions
  <2> HIDE DEF s
  <2>2. RemsKept /\ DOMAIN rems' = RemIds /\ rems'[r] = s /\ \A q \in RemIds \ {r} : rems'[q] = rems[q]
    BY <1>1, <1>2, <1>4, <2>1, OneRem, Ids DEF FixInv
  <2>3. Advanced
    BY <1>3, <2>2 DEF Advanced
  <2>4. Traced
    BY <1>1, <1>2, <2>1, <2>2, Ids DEF Traced, FixInv
  <2>5. Sound(g, w, jobs') /\ g.job = held[w].job /\ g.claim = held[w].claim /\ g.ws = held[w].ws
    BY <1>1, <2>3, PhaseSound
  <2>6. held' = [held EXCEPT ![w] = g] /\ held[w].phase # "idle"
    BY <1>1, <1>4
  <2> HIDE DEF g
  <2>7. QED
    BY <1>1, <1>3, <2>3, <2>4, <2>5, <2>6, WorkerKeeps, WorkerTraced DEF Step
<1>5. CASE ~live
  <2>1. Advanced /\ Traced
    BY <1>1, <1>5, Untouched
  <2>2. Sound(Idle, w, jobs') /\ Idle.phase = "idle"
    BY IdleSound
  <2>3. QED
    BY <1>1, <1>3, <1>5, <2>1, <2>2, WorkerKeeps, WorkerTraced DEF Step
<1>6. QED
  BY <1>4, <1>5

(* The listed sibling had moved on: the worker gives up.                   *)
SiblingMoved(w) == held[w].phase = "saved" /\ held' = [held EXCEPT ![w] = Idle] /\ UNCHANGED jobs

LEMMA SupersedeCases ==
    ASSUME NEW w \in Workers, SupersedeSiblings(w)
    PROVE  /\ \/ SiblingMoved(w)
              \/ /\ held[w].phase = "saved" /\ held' = [held EXCEPT ![w].phase = "alone"]
                 /\ jobs' = [k \in JobIds |-> IF k \in PausedOn(jobs[held[w].job].rem) \ {held[w].job}
                                            THEN Bump([jobs[k] EXCEPT !.status = "superseded"])
                                            ELSE jobs[k]]
           /\ UNCHANGED <<rems, scans, beat, claims, dead, req, checkouts, lost, asks, faults>>
  BY DEF SupersedeSiblings, SiblingMoved

LEMMA SiblingMovedStep ==
    ASSUME FixInv, NEW w \in Workers, SupersedeSiblings(w), SiblingMoved(w) PROVE FixInv' /\ Step
<1>1. /\ held[w].phase = "saved" /\ held' = [held EXCEPT ![w] = Idle]
      /\ UNCHANGED <<jobs, rems, claims, scans, req>> /\ claims' \in Nat
  BY DEF SiblingMoved, SupersedeSiblings, FixInv, TablesOK
<1>2. Advanced /\ Calm /\ Traced
  BY <1>1, Untouched
<1>3. Sound(Idle, w, jobs') /\ Idle.phase = "idle"
  BY IdleSound
<1>4. QED
  BY <1>1, <1>2, <1>3, WorkerKeeps, WorkerTraced DEF Step

LEMMA SupersedeStep ==
    ASSUME FixInv, NEW w \in Workers, SupersedeSiblings(w) PROVE FixInv' /\ Step
<1>0. SUFFICES ASSUME ~SiblingMoved(w) PROVE FixInv' /\ Step
  BY SiblingMovedStep
<1> DEFINE j == held[w].job
<1> DEFINE row(k) == IF k \in PausedOn(jobs[j].rem) \ {j}
                     THEN Bump([jobs[k] EXCEPT !.status = "superseded"]) ELSE jobs[k]
<1> DEFINE g == [held[w] EXCEPT !.phase = "alone"]
<1>1. /\ held[w].phase = "saved" /\ jobs' = [k \in JobIds |-> row(k)]
      /\ held' = [held EXCEPT ![w] = g]
      /\ UNCHANGED <<rems, claims, scans, req>> /\ claims' \in Nat
  BY <1>0, SupersedeCases DEF FixInv, TablesOK
<1>2. ASSUME NEW k \in JobIds
      PROVE  /\ \/ row(k) = jobs[k]
                \/ /\ row(k) \in Rows /\ row(k).rev = jobs[k].rev + 1 /\ row(k).rem = jobs[k].rem
                   /\ jobs[k].status \in Terminal => row(k).status = jobs[k].status
             /\ row(k).status \in Active => jobs[k].status \in Active
             /\ row(k).ws = jobs[k].ws /\ row(k).claim = jobs[k].claim
  <2>1. CASE k \in PausedOn(jobs[j].rem) \ {j}
    <3>1. jobs[k].status \in Paused
      BY <2>1 DEF PausedOn
    <3>2. QED
      BY <2>1, <3>1, SupersededRow DEF FixInv, Active
  <2>2. CASE k \notin PausedOn(jobs[j].rem) \ {j}
    BY <2>2
  <2>3. QED
    BY <2>1, <2>2
<1> HIDE DEF row
<1>3. DOMAIN jobs' = JobIds /\ jobs' = [k \in JobIds |-> jobs'[k]]
      /\ \A k \in JobIds : jobs'[k] = row(k)
  BY <1>1
<1>4. JobsKept /\ NewJobs /\ Calm /\ RemsKept
  BY <1>1, <1>2, <1>3, ManyJobs, SameRems DEF Calm, FixInv
<1>5. Advanced /\ Traced
  BY <1>1, <1>2, <1>3, <1>4, Ids DEF Traced, FixInv, Advanced
<1>6. Sound(g, w, jobs') /\ g.job = held[w].job /\ g.claim = held[w].claim /\ g.ws = held[w].ws
  BY <1>1, <1>5, PhaseSound
<1>7. held[w].phase # "idle"
  BY <1>1
<1> HIDE DEF g
<1>8. QED
  BY <1>1, <1>4, <1>5, <1>6, <1>7, WorkerKeeps, WorkerTraced DEF Step

LEMMA ConcludeStep ==
    ASSUME FixInv, NEW w \in Workers, Conclude(w) PROVE FixInv' /\ Step
<1> DEFINE j == held[w].job
<1> DEFINE r == jobs[j].rem
<1> DEFINE s == [rems[r] EXCEPT !.state = "frozen"]
<1> DEFINE child == [rem |-> r, ws |-> held[w].ws, job |-> j, status |-> "pending"]
<1>1. /\ held[w].phase = "alone" /\ held' = [held EXCEPT ![w] = Idle]
      /\ rems' = rems \/ rems' = [rems EXCEPT ![r] = s]
      /\ scans' = scans \/ scans' = Append(scans, child)
      /\ UNCHANGED <<jobs, claims, req>> /\ claims' \in Nat
  BY DEF Conclude, FixInv, TablesOK
<1>2. j \in JobIds /\ held[w].ws \in Nat /\ r \in RemIds /\ rems[r] \in Sessions
  BY <1>1, HeldType, RowType DEF FixInv
<1>3. JobsKept /\ NewJobs /\ Calm
  BY <1>1, SameJobs DEF FixInv
<1>4. RemsKept /\ DOMAIN rems' = RemIds /\ \A q \in RemIds : rems'[q].ws = rems[q].ws
  <2>1. CASE rems' = rems
    BY <2>1, SameRems, Ids DEF FixInv
  <2>2. CASE rems' = [rems EXCEPT ![r] = s]
    <3>1. s \in Sessions /\ s.origin = rems[r].origin /\ s.ws = rems[r].ws
      BY <1>2 DEF Sessions
    <3> HIDE DEF s
    <3>2. QED
      BY <1>2, <2>2, <3>1, OneRem, Ids DEF FixInv
  <2>3. QED
    BY <1>1, <2>1, <2>2
<1>5. Advanced /\ Traced
  BY <1>1, <1>3, <1>4, Ids DEF Advanced, Traced, FixInv
<1>6. child \in ScanRows /\ child.job = j
  <2>1. j \in Nat /\ r \in Nat
    BY <1>2 DEF JobIds, RemIds, FixInv, TablesOK
  <2>2. QED
    BY <1>2, <2>1 DEF ScanRows
<1> HIDE DEF child
<1>7. scans' \in Seq(ScanRows) /\ \A q \in DOMAIN scans' : scans'[q].job \in JobIds
  <2>1. CASE scans' = scans
    BY <2>1 DEF FixInv, ScansOK
  <2>2. CASE scans' = Append(scans, child)
    BY <1>2, <1>6, <2>2 DEF FixInv, ScansOK
  <2>3. QED
    BY <1>1, <2>1, <2>2
<1>8. req' \in [Clients -> Reqs] /\ (\A c \in Clients : req'[c].op # "none" => req'[c].job \in JobIds)
  BY <1>1 DEF FixInv, ReqsOK
<1>9. held' \in [Workers -> Mem] /\ (\A v \in Workers : held'[v] = held[v] \/ Sound(held'[v], v, jobs'))
      /\ HeldTraced
  <2>1. Sound(Idle, w, jobs') /\ Idle.phase = "idle" /\ Idle \in Mem
    BY IdleSound DEF Sound
  <2>2. HeldTraced
    BY <1>1, <2>1, WorkerTraced
  <2>3. QED
    BY <1>1, <2>1, <2>2 DEF FixInv
<1>10. QED
  BY <1>1, <1>3, <1>5, <1>7, <1>8, <1>9, Keeps DEF Step

LEMMA ScanStep ==
    ASSUME FixInv, NEW s \in DOMAIN scans, EndScan(s) \/ NextRunCheck(s) PROVE FixInv' /\ Step
<1>1. /\ UNCHANGED <<jobs, rems, claims, held, req>> /\ claims' \in Nat
      /\ \E st \in {"checking", "failed", "creating", "over"} : SetScan(s, st)
  BY DEF EndScan, NextRunCheck, FixInv, TablesOK
<1>2. Advanced /\ Calm /\ Traced
  BY <1>1, Untouched
<1>3. QED
  BY <1>1, <1>2, ScansOnly, SameHeld DEF Step

-----------------------------------------------------------------------------
(* Requests                                                                *)

LEMMA ReqType ==
    ASSUME FixInv, NEW c \in Clients, req[c].op # "none"
    PROVE  req[c].job \in JobIds /\ req[c].job \in Nat /\ jobs[req[c].job] \in Rows
           /\ jobs[req[c].job].rev + 1 \in Nat
<1>1. req[c].job \in JobIds
  BY DEF FixInv, ReqsOK
<1>2. QED
  BY <1>1, RowType DEF FixInv, TablesOK, JobIds

LEMMA EndReqKeeps ==
    ASSUME FixInv, Advanced, claims' \in Nat, UNCHANGED <<held, scans>>, NEW c \in Clients, EndReq(c)
    PROVE  FixInv'
<1>1. NoReq \in Reqs /\ NoReq.op = "none"
  BY DEF NoReq, Reqs
<1>2. QED
  BY <1>1, ReqOnly DEF EndReq

LEMMA SetReqKeeps ==
    ASSUME FixInv, Advanced, claims' \in Nat, UNCHANGED <<held, scans>>, NEW c \in Clients,
           NEW op \in {"cancel", "cleanup", "resume"}, NEW j \in JobIds, NEW rev \in Nat,
           SetReq(c, op, j, rev)
    PROVE  FixInv'
<1> DEFINE q == [op |-> op, job |-> j, rev |-> rev]
<1>1. j \in Nat
  BY DEF FixInv, TablesOK, JobIds
<1>2. q \in Reqs /\ q.job = j
  BY <1>1 DEF Reqs
<1> HIDE DEF q
<1>3. req' = [req EXCEPT ![c] = q]
  BY DEF SetReq, q
<1>4. QED
  BY <1>2, <1>3, ReqOnly

LEMMA ReadStep ==
    ASSUME FixInv, NEW c \in Clients, CancelRead(c) \/ ResumeRead(c) PROVE FixInv' /\ Step
<1>1. /\ UNCHANGED <<jobs, rems, claims, held, scans>> /\ claims' \in Nat
      /\ \E j \in JobIds, op \in {"cancel", "cleanup", "resume"} : SetReq(c, op, j, jobs[j].rev)
  BY DEF CancelRead, ResumeRead, FixInv, TablesOK
<1>2. Advanced /\ Calm /\ Traced
  BY <1>1, Untouched
<1>3. \A j \in JobIds : jobs[j].rev \in Nat
  BY RowType DEF FixInv
<1>4. QED
  BY <1>1, <1>2, <1>3, SetReqKeeps, SameHeld DEF Step

(* A write of one row that keeps its session and its workspace, as the     *)
(* cancellation and the resume do.                                         *)
LEMMA StatusWrite ==
    ASSUME FixInv, NEW j \in JobIds, NEW row \in Rows, row.rev = jobs[j].rev,
           row.rem = jobs[j].rem, row.claim = jobs[j].claim, row.ws = jobs[j].ws,
           row.status \notin Active, jobs[j].status \in Terminal => row.status = jobs[j].status,
           SetJob(j, row), UNCHANGED <<rems, claims>>
    PROVE  Advanced /\ Calm /\ Traced
<1>1. /\ JobsKept /\ NewJobs /\ DOMAIN jobs' = JobIds
      /\ jobs'[j].status = row.status /\ jobs'[j].claim = jobs[j].claim
      /\ jobs'[j].ws = jobs[j].ws /\ \A k \in JobIds \ {j} : jobs'[k] = jobs[k]
  BY OneJob DEF FixInv
<1>2. Calm /\ RemsKept
  BY <1>1, CalmWrite, SameRems DEF FixInv
<1>3. Traced
  BY <1>1, Ids DEF Traced, FixInv
<1>4. QED
  BY <1>1, <1>2, <1>3 DEF Advanced

LEMMA CancelWriteStep ==
    ASSUME FixInv, NEW c \in Clients, CancelWrite(c) PROVE FixInv' /\ Step
<1> DEFINE j == req[c].job
<1> DEFINE worker == IF KeepsClaim(j) THEN jobs[j].worker ELSE None
<1> DEFINE row == [jobs[j] EXCEPT !.status = "cancelled", !.cleanup = TRUE, !.worker = worker]
<1>1. /\ req[c].op # "none" /\ UNCHANGED <<rems, claims, held, scans>> /\ claims' \in Nat
      /\ \/ /\ MayWrite(j, req[c].rev, "cancelled") /\ SetJob(j, row)
            /\ SetReq(c, "cleanup", j, jobs[j].rev + 1) \/ EndReq(c)
         \/ UNCHANGED jobs /\ EndReq(c)
  BY DEF CancelWrite, FixInv, TablesOK
<1>2. j \in JobIds /\ jobs[j] \in Rows /\ jobs[j].rev + 1 \in Nat
  BY <1>1, ReqType
<1>3. worker \in Workers \cup {None}
  BY <1>2 DEF Rows
<1> HIDE DEF worker
<1>4. row \in Rows /\ row.rev = jobs[j].rev /\ row.rem = jobs[j].rem /\ row.claim = jobs[j].claim
      /\ row.ws = jobs[j].ws /\ row.status = "cancelled" /\ row.status \notin Active
  BY <1>2, <1>3 DEF Rows, Statuses, Terminal, Active
<1> HIDE DEF row
<1>5. Advanced /\ Calm /\ Traced
  <2>1. CASE UNCHANGED jobs
    BY <1>1, <2>1, Untouched
  <2>2. CASE MayWrite(j, req[c].rev, "cancelled") /\ SetJob(j, row)
    <3>1. jobs[j].status \in Terminal => row.status = jobs[j].status
      BY <1>4, <2>2 DEF MayWrite
    <3>2. QED
      BY <1>1, <1>2, <1>4, <2>2, <3>1, StatusWrite
  <2>3. QED
    BY <1>1, <2>1, <2>2
<1>6. QED
  BY <1>1, <1>2, <1>5, SetReqKeeps, EndReqKeeps, SameHeld DEF Step

LEMMA CancelCleanupStep ==
    ASSUME FixInv, NEW c \in Clients, CancelCleanup(c) PROVE FixInv' /\ Step
<1> DEFINE j == req[c].job
<1>1. /\ req[c].op # "none" /\ EndReq(c) /\ UNCHANGED <<claims, held, scans>> /\ claims' \in Nat
      /\ Release(j) \/ ReleaseFails(j, req[c].rev, jobs[j].worker)
  BY DEF CancelCleanup, FixInv, TablesOK
<1>2. j \in JobIds /\ jobs[j].worker \in Workers \cup {None}
  BY <1>1, ReqType DEF Rows
<1>3. Advanced /\ Calm /\ Traced
  BY <1>1, <1>2, ReleaseAdvances, ReleaseFailsAdvances
<1>4. QED
  BY <1>1, <1>3, EndReqKeeps, SameHeld DEF Step

LEMMA ResumeWriteStep ==
    ASSUME FixInv, NEW c \in Clients, ResumeWrite(c) PROVE FixInv' /\ Step
<1> DEFINE j == req[c].job
<1> DEFINE row == [jobs[j] EXCEPT !.status = "queued", !.worker = None]
<1>1. /\ req[c].op # "none" /\ EndReq(c) /\ UNCHANGED <<rems, claims, held, scans>>
      /\ claims' \in Nat
      /\ (MayWrite(j, req[c].rev, "queued") /\ SetJob(j, row)) \/ UNCHANGED jobs
  BY DEF ResumeWrite, FixInv, TablesOK
<1>2. j \in JobIds /\ jobs[j] \in Rows
  BY <1>1, ReqType
<1>3. row \in Rows /\ row.rev = jobs[j].rev /\ row.rem = jobs[j].rem /\ row.claim = jobs[j].claim
      /\ row.ws = jobs[j].ws /\ row.status = "queued" /\ row.status \notin Active
  BY <1>2 DEF Rows, Statuses, Busy, Active
<1> HIDE DEF row
<1>4. Advanced /\ Calm /\ Traced
  <2>1. CASE UNCHANGED jobs
    BY <1>1, <2>1, Untouched
  <2>2. CASE MayWrite(j, req[c].rev, "queued") /\ SetJob(j, row)
    <3>1. jobs[j].status \in Terminal => row.status = jobs[j].status
      BY <1>3, <2>2 DEF MayWrite
    <3>2. QED
      BY <1>1, <1>2, <1>3, <2>2, <3>1, StatusWrite
  <2>3. QED
    BY <1>1, <2>1, <2>2
<1>5. QED
  BY <1>1, <1>4, EndReqKeeps, SameHeld DEF Step

LEMMA AcceptedRow ==
    ASSUME TablesOK, NEW j \in JobIds
    PROVE  LET row == Bump([jobs[j] EXCEPT !.status = "succeeded", !.ws = 0])
           IN  /\ row \in Rows /\ row.rev = jobs[j].rev + 1 /\ row.rem = jobs[j].rem
               /\ row.status = "succeeded" /\ row.ws = 0 /\ row.claim = jobs[j].claim
               /\ row.from = jobs[j].from /\ row.worker = jobs[j].worker
<1>1. PICK v \in Nat : v = jobs[j].rev + 1
  BY RowType
<1>2. jobs[j] \in Rows
  BY RowType
<1> DEFINE row == [jobs[j] EXCEPT !.status = "succeeded", !.ws = 0, !.rev = v]
<1>3. Bump([jobs[j] EXCEPT !.status = "succeeded", !.ws = 0]) = row
  BY <1>1, <1>2 DEF Bump, Rows
<1>4. row \in Rows /\ row.rev = v /\ row.rem = jobs[j].rem /\ row.status = "succeeded"
      /\ row.ws = 0 /\ row.claim = jobs[j].claim
      /\ row.from = jobs[j].from /\ row.worker = jobs[j].worker
  BY <1>2 DEF Rows, Statuses, Terminal
<1>5. QED
  BY <1>1, <1>3, <1>4

LEMMA AcceptStep ==
    ASSUME FixInv, NEW r \in RemIds, Accept(r) PROVE FixInv' /\ Step
<1> DEFINE done(k) == /\ jobs[k].rem = r
                      /\ \/ jobs[k].status \in Paused
                         \/ jobs[k].status = "succeeded" /\ jobs[k].ws = rems[r].ws
<1> DEFINE row(k) == IF done(k) THEN Bump([jobs[k] EXCEPT !.status = "succeeded", !.ws = 0]) ELSE jobs[k]
<1> DEFINE s == [rems[r] EXCEPT !.state = "frozen", !.ws = 0]
<1>1. /\ UNCHANGED <<claims, held, scans, req>> /\ claims' \in Nat
      /\ \/ /\ jobs' = [k \in JobIds |-> row(k)]
            /\ rems' = [rems EXCEPT ![r].state = "frozen", ![r].ws = 0]
         \/ UNCHANGED <<jobs, rems>>
  BY DEF Accept, FixInv, TablesOK
<1>2. CASE UNCHANGED <<jobs, rems>>
  BY <1>1, <1>2, Untouched, AloneKeeps, SameHeld DEF Step
<1>3. CASE /\ jobs' = [k \in JobIds |-> row(k)]
           /\ rems' = [rems EXCEPT ![r].state = "frozen", ![r].ws = 0]
  <2>1. rems' = [rems EXCEPT ![r] = s]
    BY <1>3
  <2>2. rems[r] \in Sessions
    BY Ids DEF FixInv, TablesOK
  <2>3. s \in Sessions /\ s.origin = rems[r].origin /\ s.ws = 0
    BY <2>2 DEF Sessions
  <2> HIDE DEF s
  <2>4. RemsKept /\ DOMAIN rems' = RemIds /\ rems'[r] = s /\ \A q \in RemIds \ {r} : rems'[q] = rems[q]
    BY <2>1, <2>3, OneRem, Ids DEF FixInv
  <2>5. ASSUME NEW k \in JobIds
        PROVE  /\ \/ row(k) = jobs[k]
                  \/ /\ row(k) \in Rows /\ row(k).rev = jobs[k].rev + 1 /\ row(k).rem = jobs[k].rem
                     /\ jobs[k].status \in Terminal => row(k).status = jobs[k].status
               /\ row(k).status \in Active => jobs[k].status \in Active
               /\ row(k).ws \in {0, jobs[k].ws} /\ row(k).claim = jobs[k].claim
    <3>1. CASE done(k)
      <4>1. jobs[k].status \in Paused \/ jobs[k].status = "succeeded"
        BY <3>1
      <4>2. jobs[k].status \in Terminal => jobs[k].status = "succeeded"
        BY <4>1 DEF Paused, Terminal
      <4>3. QED
        BY <3>1, <4>2, AcceptedRow DEF FixInv, Active
    <3>2. CASE ~done(k)
      BY <3>2
    <3>3. QED
      BY <3>1, <3>2
  <2> HIDE DEF row
  <2>6. DOMAIN jobs' = JobIds /\ jobs' = [k \in JobIds |-> jobs'[k]]
        /\ \A k \in JobIds : jobs'[k] = row(k)
    BY <1>3
  <2>7. JobsKept /\ NewJobs /\ Calm
    BY <2>5, <2>6, ManyJobs DEF Calm, FixInv
  <2>8. \A k \in JobIds : jobs'[k].claim = jobs[k].claim /\ jobs'[k].ws \in {0, jobs[k].ws}
    BY <2>5, <2>6
  <2>9. \A q \in DOMAIN rems' : rems'[q].ws = 0 \/ (q \in RemIds /\ rems'[q].ws = rems[q].ws)
    BY <2>3, <2>4
  <2>10. Traced
    BY <1>1, <2>6, <2>8, <2>9 DEF Traced
  <2>11. QED
    BY <1>1, <2>4, <2>7, <2>10, AloneKeeps, SameHeld DEF Step, Advanced
<1>4. QED
  BY <1>1, <1>2, <1>3

-----------------------------------------------------------------------------
(* The claim                                                               *)

LEMMA ClaimStep ==
    ASSUME FixInv, NEW w \in Workers, NEW j \in JobIds,
           held[w].phase = "idle", Claimable(j), claims' = claims + 1,
           SetJob(j, [jobs[j] EXCEPT !.status = "claimed", !.worker = w, !.claim = claims + 1]),
           held' = [held EXCEPT ![w] = [Idle EXCEPT !.job = j, !.rev = jobs[j].rev + 1,
                                                   !.claim = claims + 1, !.phase = "claimed"]],
           UNCHANGED <<rems, scans, req>>
    PROVE  /\ FixInv' /\ Advanced /\ DOMAIN jobs' = JobIds
           /\ \A k \in JobIds \ {j} : jobs'[k] = jobs[k]
           /\ jobs'[j].ws = jobs[j].ws /\ jobs'[j].claim = claims + 1
           /\ jobs'[j].from = jobs[j].from /\ jobs'[j].worker = w
           /\ \A v \in Workers \ {w} : held'[v] = held[v]
           /\ held'[w].phase = "claimed" /\ held'[w].job = j /\ held'[w].ws = 0
           /\ held'[w].claim = claims + 1
<1>1. PICK c \in Nat : c = claims + 1
  BY DEF FixInv, TablesOK
<1>2. PICK v \in Nat : v = jobs[j].rev + 1
  BY RowType DEF FixInv
<1>3. jobs[j] \in Rows /\ j \in Nat /\ jobs[j].status \notin Terminal
  BY RowType DEF FixInv, TablesOK, JobIds, Claimable, Terminal
<1> DEFINE row == [jobs[j] EXCEPT !.status = "claimed", !.worker = w, !.claim = c]
<1> DEFINE g == [Idle EXCEPT !.job = j, !.rev = v, !.claim = c, !.phase = "claimed"]
<1>4. SetJob(j, row) /\ held' = [held EXCEPT ![w] = g]
  BY <1>1, <1>2
<1>5. row \in Rows /\ row.rev = jobs[j].rev /\ row.rem = jobs[j].rem /\ row.claim = c
      /\ row.ws = jobs[j].ws /\ row.status = "claimed" /\ row.worker = w
      /\ row.from = jobs[j].from
  BY <1>3 DEF Rows, Statuses, Busy, Active
<1> HIDE DEF row, g
<1>6. /\ JobsKept /\ NewJobs /\ DOMAIN jobs' = JobIds /\ jobs'[j].rev = v
      /\ jobs'[j].status = "claimed" /\ jobs'[j].worker = w /\ jobs'[j].claim = c
      /\ jobs'[j].ws = jobs[j].ws /\ jobs'[j].from = jobs[j].from
      /\ \A k \in JobIds \ {j} : jobs'[k] = jobs[k]
  <2>1. jobs[j].status \in Terminal => row.status = jobs[j].status
    BY <1>3
  <2>2. /\ JobsKept /\ NewJobs /\ DOMAIN jobs' = JobIds /\ jobs'[j].rev = jobs[j].rev + 1
        /\ jobs'[j].status = row.status /\ jobs'[j].worker = row.worker
        /\ jobs'[j].claim = row.claim /\ jobs'[j].ws = row.ws /\ jobs'[j].from = row.from
        /\ \A k \in JobIds \ {j} : jobs'[k] = jobs[k]
    <3>1. TablesOK /\ SetJob(j, row) /\ row \in Rows
      BY <1>4, <1>5 DEF FixInv
    <3>2. row.rev = jobs[j].rev /\ row.rem = jobs[j].rem
      BY <1>5
    <3>3. QED
      BY <2>1, <3>1, <3>2, OneJob
  <2>3. QED
    BY <1>2, <1>5, <2>2
<1>7. Advanced
  BY <1>6, SameRems DEF Advanced, FixInv
<1>8. g \in Mem /\ g.job = j /\ g.rev = v /\ g.claim = c /\ g.phase = "claimed" /\ g.ws = 0
  BY <1>3 DEF Mem, Idle, g
<1>9. Sound(g, w, jobs')
  BY <1>2, <1>6, <1>8 DEF Sound, Active
<1>10. FixInv'
  BY <1>1, <1>4, <1>7, <1>9, WorkerKeeps
<1>11. held'[w] = g /\ \A u \in Workers \ {w} : held'[u] = held[u]
  BY <1>4 DEF FixInv
<1>12. QED
  BY <1>1, <1>6, <1>7, <1>8, <1>10, <1>11

(* What a claim finds and leaves.                                          *)
Claims(w, j) ==
  /\ Claimable(j) /\ held[w].phase = "idle"
  /\ FixInv' /\ Advanced /\ DOMAIN jobs' = JobIds /\ claims' = claims + 1
  /\ beat' = beat \cup {j} /\ UNCHANGED <<rems, scans, req, checkouts, lost>>
  /\ \A k \in JobIds \ {j} : jobs'[k] = jobs[k]
  /\ jobs'[j].ws = jobs[j].ws /\ jobs'[j].claim = claims + 1
  /\ jobs'[j].from = jobs[j].from /\ jobs'[j].worker = w
  /\ \A v \in Workers \ {w} : held'[v] = held[v]
  /\ held'[w].phase = "claimed" /\ held'[w].job = j /\ held'[w].ws = 0
  /\ held'[w].claim = claims + 1

LEMMA ClaimShape ==
    ASSUME FixInv, NEW w \in Workers, Claim(w) PROVE \E j \in JobIds : Claims(w, j)
<1>1. PICK j \in JobIds :
        /\ held[w].phase = "idle" /\ Claimable(j) /\ claims' = claims + 1
        /\ SetJob(j, [jobs[j] EXCEPT !.status = "claimed", !.worker = w, !.claim = claims + 1])
        /\ beat' = beat \cup {j}
        /\ held' = [held EXCEPT ![w] = [Idle EXCEPT !.job = j, !.rev = jobs[j].rev + 1,
                                                   !.claim = claims + 1, !.phase = "claimed"]]
        /\ UNCHANGED <<rems, scans, req, checkouts, lost>>
  BY Zenon DEF Claim
<1>2. /\ FixInv' /\ Advanced /\ DOMAIN jobs' = JobIds
      /\ \A k \in JobIds \ {j} : jobs'[k] = jobs[k]
      /\ jobs'[j].ws = jobs[j].ws /\ jobs'[j].claim = claims + 1
      /\ jobs'[j].from = jobs[j].from /\ jobs'[j].worker = w
      /\ \A v \in Workers \ {w} : held'[v] = held[v]
      /\ held'[w].phase = "claimed" /\ held'[w].job = j /\ held'[w].ws = 0
      /\ held'[w].claim = claims + 1
  BY <1>1, ClaimStep
<1>3. Claims(w, j)
  BY <1>1, <1>2 DEF Claims
<1>4. QED
  BY <1>3

LEMMA ClaimKeeps ==
    ASSUME FixInv, NEW w \in Workers, Claim(w) PROVE FixInv' /\ Advanced
  BY ClaimShape DEF Claims

-----------------------------------------------------------------------------
LEMMA InitFix == Init => FixInv
<1> SUFFICES ASSUME Init PROVE FixInv
  OBVIOUS
<1>1. TablesOK /\ ScansOK
  BY DEF Init, TablesOK, ScansOK, JobIds, RemIds
<1>2. NoReq \in Reqs /\ NoReq.op = "none"
  BY DEF NoReq, Reqs
<1>3. ReqsOK
  BY <1>2 DEF Init, ReqsOK
<1>4. Idle \in Mem
  BY IdleSound DEF Sound
<1>5. held \in [Workers -> Mem] /\ \A w \in Workers : Sound(held[w], w, jobs)
  BY <1>4, IdleSound DEF Init
<1>6. QED
  BY <1>1, <1>3, <1>5 DEF FixInv

(* Every step is a claim or one that makes no job active.                  *)
LEMMA NextSteps ==
    ASSUME FixInv, [Next]_vars
    PROVE  (FixInv' /\ Step) \/ \E w \in Workers : Claim(w)
<1>1. ASSUME NEW w \in Workers, Fixer(w) \/ Heartbeat(w) \/ Crash(w), ~Claim(w) PROVE FixInv' /\ Step
  BY <1>1, StartEngineStep, FinishStep, AcknowledgeStep, AfterRunStep, SupersedeStep,
     ConcludeStep, HeartbeatStep, CrashStep DEF Fixer
<1>2. ASSUME NEW c \in Clients, CancelRead(c) \/ ResumeRead(c) \/ Request(c) PROVE FixInv' /\ Step
  BY <1>2, ReadStep, CancelWriteStep, CancelCleanupStep, ResumeWriteStep DEF Request
<1>3. ASSUME NEW s \in DOMAIN scans, Server(s) PROVE FixInv' /\ Step
  BY <1>3, ScanStep, NextRunCreateStep DEF Server
<1>4. ASSUME UNCHANGED vars PROVE FixInv' /\ Step
  <2>1. UNCHANGED <<jobs, rems, claims, held, scans, req>> /\ claims' \in Nat
    BY <1>4 DEF vars, FixInv, TablesOK
  <2>2. QED
    BY <2>1, Untouched, AloneKeeps, SameHeld DEF Step
<1>5. QED
  BY <1>1, <1>2, <1>3, <1>4, CreateFixStep, AcceptStep, AgeStep, ReclaimStep DEF Next

LEMMA NextFix == FixInv /\ [Next]_vars => FixInv' /\ Advanced
  BY NextSteps, ClaimKeeps DEF Step

(* Revisions only grow, and a worker that still has the newest revision of *)
(* its job still has the claim (updateFixJob, heartbeatFixJob).            *)
THEOREM FixInvariant == Spec => []FixInv
<1>1. QED
  BY InitFix, NextFix, PTL DEF Spec

-----------------------------------------------------------------------------
(* What the revision fences                                                *)

Owns(w) ==
  LET j == held[w].job
  IN  jobs[j].worker = w /\ jobs[j].claim = held[w].claim /\ jobs[j].status \in Active

OwnWrites ==
  \A w \in Workers :
    held[w].phase # held'[w].phase /\ held'[w].phase \in {"engine", "done"} => Owns(w)

TerminalKept == \A j \in JobIds : jobs[j].status \in Terminal => jobs'[j].status = jobs[j].status

LEMMA OthersWrite ==
    ASSUME FixInv, NEW w \in Workers, NEW g, held' = [held EXCEPT ![w] = g],
           g.phase \in {"engine", "done"} => Owns(w)
    PROVE  OwnWrites
  BY DEF OwnWrites, FixInv

LEMMA SaveWrites ==
    ASSUME FixInv, NEW w \in Workers, held[w].phase \in {"claimed", "engine"}, NEW job, NEW p, NEW out,
           Save(w, job, p, out)
    PROVE  OwnWrites
<1>0. held[w] \in Mem
  BY DEF FixInv
<1>1. CASE MayWrite(held[w].job, held[w].rev, job.status)
  <2>1. Owns(w)
    BY <1>1, LandsOwned DEF Owns
  <2>2. \A v \in Workers \ {w} : held'[v] = held[v]
    BY <1>1 DEF Save, FixInv
  <2>3. QED
    BY <2>1, <2>2 DEF OwnWrites
<1>2. CASE ~MayWrite(held[w].job, held[w].rev, job.status)
  <2> DEFINE g == [held[w] EXCEPT !.phase = "stopped"]
  <2>1. held' = [held EXCEPT ![w] = g]
    BY <1>2 DEF Save
  <2>2. g.phase = "stopped"
    BY <1>0 DEF Mem
  <2> HIDE DEF g
  <2>3. QED
    BY <2>1, <2>2, OthersWrite
<1>3. QED
  BY <1>1, <1>2

LEMMA NextWrites == FixInv /\ [Next]_vars => OwnWrites
<1> SUFFICES ASSUME FixInv, [Next]_vars PROVE OwnWrites
  OBVIOUS
<1>1. ASSUME UNCHANGED held PROVE OwnWrites
  BY <1>1 DEF OwnWrites
<1>2. ASSUME NEW w \in Workers, held' = [held EXCEPT ![w] = Idle] PROVE OwnWrites
  BY <1>2, IdleSound, OthersWrite
<1>3. ASSUME NEW w \in Workers, NEW p \in {"stopped", "saved", "alone"},
             held' = [held EXCEPT ![w] = [held[w] EXCEPT !.phase = p]]
      PROVE  OwnWrites
  <2> DEFINE g == [held[w] EXCEPT !.phase = p]
  <2>1. g.phase = p
    BY DEF FixInv, Mem
  <2> HIDE DEF g
  <2>2. held' = [held EXCEPT ![w] = g]
    BY <1>3 DEF g
  <2>3. QED
    BY <2>1, <2>2, OthersWrite
<1>4. ASSUME NEW w \in Workers, Claim(w) PROVE OwnWrites
  <2>1. held'[w].phase = "claimed" /\ \A v \in Workers \ {w} : held'[v] = held[v]
    BY <1>4, ClaimShape DEF Claims
  <2>2. QED
    BY <2>1 DEF OwnWrites
<1>5. ASSUME NEW w \in Workers, StartEngine(w) \/ Finish(w) PROVE OwnWrites
  BY <1>5, SaveWrites DEF StartEngine, Finish
<1>6. ASSUME NEW w \in Workers, Acknowledge(w) \/ Conclude(w) \/ Crash(w) PROVE OwnWrites
  BY <1>2, <1>6 DEF Acknowledge, Conclude, Crash
<1>7. ASSUME NEW w \in Workers, AfterRun(w) \/ SupersedeSiblings(w) \/ Heartbeat(w) PROVE OwnWrites
  BY <1>1, <1>2, <1>3, <1>7 DEF AfterRun, SupersedeSiblings, Heartbeat
<1>8. ASSUME NEW c \in Clients, CancelRead(c) \/ ResumeRead(c) \/ Request(c) PROVE UNCHANGED held
  BY <1>8 DEF CancelRead, ResumeRead, Request, CancelWrite, CancelCleanup, ResumeWrite
<1>9. ASSUME NEW s, Server(s) PROVE UNCHANGED held
  BY <1>9 DEF Server, EndScan, NextRunCheck, NextRunCreate
<1>10. ASSUME NEW x, CreateFix(x) \/ Accept(x) \/ Expire(x) \/ Suspend(x) \/ Reclaim \/ UNCHANGED vars
       PROVE  UNCHANGED held
  BY <1>10 DEF CreateFix, Accept, Expire, Suspend, Age, Reclaim, vars
<1>11. QED
  BY <1>1, <1>4, <1>5, <1>6, <1>7, <1>8, <1>9, <1>10 DEF Next, Fixer

(* A terminal status is final, and an engine starts and a result is        *)
(* written only under the newest claim of a job that is still active       *)
(* (updateFixJob).                                                         *)
THEOREM FencedHolds == Spec => Fenced
<1>1. FixInv /\ [Next]_vars => [TerminalKept /\ OwnWrites]_vars
  BY NextFix, NextWrites DEF Advanced, JobsKept, Later, TerminalKept
<1>2. Fenced <=> [][TerminalKept /\ OwnWrites]_vars
  BY PTL DEF Fenced, TerminalKept, OwnWrites, Owns
<1>3. QED
  BY <1>1, <1>2, FixInvariant, PTL DEF Spec

-----------------------------------------------------------------------------
(* One run per session                                                     *)

(* A new run supersedes the paused ones of its session, and an older run   *)
(* that ended never comes back (createFixJob, updateFixJob).               *)
THEOREM OneRunPerSessionHolds == Spec => []OneRunPerSession
<1>1. Init => OneRunPerSession
  BY DEF Init, OneRunPerSession, JobIds
<1>2. FixInv /\ OneRunPerSession /\ [Next]_vars => OneRunPerSession'
  <2> SUFFICES ASSUME FixInv, OneRunPerSession, Advanced PROVE OneRunPerSession'
    BY NextFix
  <2>1. JobIds' = DOMAIN jobs'
    BY DEF JobIds, Advanced, JobsKept
  <2>2. ASSUME NEW j \in JobIds', NEW k \in JobIds', j # k, jobs'[j].rem = jobs'[k].rem
        PROVE  jobs'[j].status \in Terminal \/ jobs'[k].status \in Terminal
    <3>1. CASE j \in JobIds /\ k \in JobIds
      <4>1. Later(jobs[j], jobs'[j]) /\ Later(jobs[k], jobs'[k])
        BY <3>1 DEF Advanced, JobsKept
      <4>2. jobs[j].status \in Terminal \/ jobs[k].status \in Terminal
        BY <2>2, <3>1, <4>1 DEF OneRunPerSession, Later
      <4>3. QED
        BY <4>1, <4>2 DEF Later
    <3>2. CASE k \notin JobIds
      BY <2>1, <2>2, <3>2 DEF Advanced, NewJobs
    <3>3. CASE j \notin JobIds
      BY <2>1, <2>2, <3>3 DEF Advanced, NewJobs
    <3>4. QED
      BY <3>1, <3>2, <3>3
  <2>3. QED
    BY <2>2 DEF OneRunPerSession
<1>3. QED
  BY <1>1, <1>2, FixInvariant, PTL DEF Spec

-----------------------------------------------------------------------------
(* One agent per branch                                                    *)

(* home[c]: the session of the job that claim c was for.  A workspace is   *)
(* named by the claim that made it, so it belongs to one session.          *)
Made(home, r) == {0} \cup {c \in 1..claims : home[c] = r}

Owned(home) ==
  /\ \A j \in JobIds :
       jobs[j].ws \in Made(home, jobs[j].rem) /\ jobs[j].claim \in Made(home, jobs[j].rem)
  /\ \A r \in RemIds : rems[r].ws \in Made(home, r)
  /\ \A w \in Workers : held[w].phase # "idle" =>
       LET r == jobs[held[w].job].rem
       IN  held[w].ws \in Made(home, r) /\ held[w].claim \in Made(home, r)

Homes == \E home \in [Nat -> Nat] : Owned(home)

Exclusive ==
  \A j, k \in JobIds :
    j # k /\ BranchOfJob(j) = BranchOfJob(k)
      => ~(jobs[j].status \in Active /\ jobs[k].status \in Active)

LEMMA StepOwned ==
    ASSUME FixInv, FixInv', Step, NEW home, Owned(home) PROVE Owned(home)'
<1>1. \A r : Made(home, r)' = Made(home, r)
  BY DEF Made, Step, Traced
<1>2. JobIds' = DOMAIN jobs' /\ RemIds' = DOMAIN rems' /\ JobIds \subseteq JobIds'
  BY DEF JobIds, RemIds, Step, Advanced, JobsKept, RemsKept
<1>3. \A r : 0 \in Made(home, r)
  BY DEF Made
<1>4. \A j \in JobIds : jobs'[j].rem = jobs[j].rem
  BY DEF Step, Advanced, JobsKept, Later
<1>5. ASSUME NEW j \in JobIds'
      PROVE  jobs'[j].ws \in Made(home, jobs'[j].rem) /\ jobs'[j].claim \in Made(home, jobs'[j].rem)
  <2>1. CASE j \in JobIds
    <3>1. CASE jobs'[j].ws \in {0, jobs[j].ws}
      BY <1>3, <1>4, <2>1, <3>1 DEF Step, Traced, Owned
    <3>2. CASE \E w \in Workers : held[w].phase # "idle" /\ held[w].job = j /\ jobs'[j].ws = held[w].claim
      BY <1>4, <2>1, <3>2 DEF Step, Traced, Owned
    <3>3. QED
      BY <2>1, <3>1, <3>2 DEF Step, Traced
  <2>2. CASE j \notin JobIds
    BY <1>2, <1>3, <2>2 DEF Step, Traced, Owned
  <2>3. QED
    BY <2>1, <2>2
<1>6. ASSUME NEW r \in RemIds' PROVE rems'[r].ws \in Made(home, r)
  <2>1. CASE \E w \in Workers : /\ held[w].phase # "idle" /\ jobs[held[w].job].rem = r
                                /\ rems'[r].ws = held[w].ws
    BY <2>1 DEF Owned
  <2>2. CASE r \in RemIds /\ rems'[r].ws = rems[r].ws
    BY <2>2 DEF Owned
  <2>3. QED
    BY <1>2, <1>3, <2>1, <2>2 DEF Step, Traced
<1>7. ASSUME NEW w \in Workers, held'[w].phase # "idle"
      PROVE  LET r == jobs'[held'[w].job].rem
             IN  held'[w].ws \in Made(home, r) /\ held'[w].claim \in Made(home, r)
  <2>1. /\ held[w].phase # "idle" /\ held'[w].job = held[w].job /\ held'[w].claim = held[w].claim
        /\ held'[w].ws \in {held[w].ws, jobs'[held[w].job].ws}
    BY <1>7 DEF Step, HeldTraced
  <2>2. held[w].job \in JobIds /\ held[w].job \in JobIds'
    BY <1>2, <2>1, HeldType
  <2>3. QED
    BY <1>4, <1>5, <2>1, <2>2 DEF Owned
<1>8. QED
  BY <1>1, <1>5, <1>6, <1>7 DEF Owned

LEMMA StepExclusive ==
    ASSUME FixInv, Advanced, Calm, Exclusive PROVE Exclusive'
<1>1. JobIds' = DOMAIN jobs' /\ JobIds = DOMAIN jobs
  BY DEF JobIds, Advanced, JobsKept, FixInv, TablesOK
<1>2. \A j \in JobIds : BranchOfJob(j)' = BranchOfJob(j)
  BY RowType DEF BranchOfJob, FixInv, Advanced, JobsKept, RemsKept, Later
<1>3. \A j \in JobIds' : jobs'[j].status \in Active => j \in JobIds /\ jobs[j].status \in Active
  BY <1>1 DEF Advanced, NewJobs, Calm, Active
<1>4. QED
  BY <1>2, <1>3 DEF Exclusive

(* A claim makes one workspace name more, for the session of its job.      *)
LEMMA ClaimOwned ==
    ASSUME FixInv, NEW w \in Workers, Claim(w), NEW home \in [Nat -> Nat], Owned(home)
    PROVE  \E new \in [Nat -> Nat] : Owned(new)' /\ \A q : Made(home, q) \subseteq Made(new, q)'
<1>1. PICK j \in JobIds : Claims(w, j)
  BY ClaimShape
<1>2. JobIds' = JobIds /\ RemIds' = RemIds /\ claims \in Nat
  BY <1>1 DEF Claims, JobIds, RemIds, FixInv, TablesOK
<1>3. \A k \in JobIds : jobs'[k].rem = jobs[k].rem
  BY <1>1 DEF Claims, Advanced, JobsKept, Later
<1>4. PICK r \in Nat : r = jobs[j].rem
  <2>1. jobs[j].rem \in RemIds
    BY RowType DEF FixInv
  <2>2. jobs[j].rem \in Nat
    <3>1. rems \in Seq(Sessions)
      BY DEF FixInv, TablesOK
    <3>2. QED
      BY <2>1, <3>1 DEF RemIds
  <2>3. QED
    BY <2>2
<1>5. PICK new \in [Nat -> Nat] : new[claims + 1] = r /\ \A c \in 1..claims : new[c] = home[c]
  <2> DEFINE f == [c \in Nat |-> IF c = claims + 1 THEN r ELSE home[c]]
  <2>1. f \in [Nat -> Nat] /\ f[claims + 1] = r /\ \A c \in 1..claims : f[c] = home[c]
    BY <1>2
  <2>2. QED
    BY <2>1
<1> DEFINE made(q) == {0} \cup {c \in 1..claims' : new[c] = q}
<1>6. (\A q : Made(home, q) \subseteq made(q)) /\ claims + 1 \in made(r) /\ \A q : 0 \in made(q)
  BY <1>1, <1>2, <1>5 DEF Claims, Made
<1> HIDE DEF made
<1>7. ASSUME NEW k \in JobIds
      PROVE  jobs'[k].ws \in made(jobs'[k].rem) /\ jobs'[k].claim \in made(jobs'[k].rem)
  <2>1. jobs[k].ws \in made(jobs[k].rem) /\ jobs[k].claim \in made(jobs[k].rem)
    BY <1>6 DEF Owned
  <2>2. CASE k = j
    BY <1>1, <1>3, <1>4, <1>6, <2>1, <2>2 DEF Claims
  <2>3. CASE k # j
    BY <1>1, <2>1, <2>3 DEF Claims
  <2>4. QED
    BY <2>2, <2>3
<1>8. ASSUME NEW q \in RemIds PROVE rems'[q].ws \in made(q)
  BY <1>1, <1>6 DEF Claims, Owned
<1>9. ASSUME NEW v \in Workers, held'[v].phase # "idle"
      PROVE  LET q == jobs'[held'[v].job].rem IN held'[v].ws \in made(q) /\ held'[v].claim \in made(q)
  <2>1. CASE v = w
    BY <1>1, <1>3, <1>4, <1>6, <2>1 DEF Claims
  <2>2. CASE v # w
    <3>1. held'[v] = held[v]
      BY <1>1, <2>2 DEF Claims
    <3>2. held[v].phase # "idle" /\ held[v].job \in JobIds
      BY <1>9, <3>1, HeldType
    <3>3. jobs'[held[v].job].rem = jobs[held[v].job].rem
      BY <1>3, <3>2
    <3>4. QED
      BY <1>6, <3>1, <3>2, <3>3 DEF Owned
  <2>3. QED
    BY <2>1, <2>2
<1>10. Owned(new)'
  BY <1>2, <1>7, <1>8, <1>9 DEF Owned, Made, made
<1>11. QED
  BY <1>6, <1>10 DEF Made, made

LEMMA ClaimExclusive ==
    ASSUME FixInv, NEW w \in Workers, Claim(w), Exclusive PROVE Exclusive'
<1>1. PICK j \in JobIds : Claims(w, j)
  BY ClaimShape
<1>2. JobIds' = JobIds
  BY <1>1 DEF Claims, JobIds, FixInv, TablesOK
<1>3. \A k \in JobIds : jobs'[k].rem = jobs[k].rem
  BY <1>1 DEF Claims, Advanced, JobsKept, Later
<1>4. \A k \in JobIds : BranchOfJob(k)' = BranchOfJob(k)
  BY <1>1, <1>3 DEF Claims, BranchOfJob
<1>5. \A k \in JobIds \ {j} : BranchOfJob(k) = BranchOfJob(j) => jobs[k].status \notin Active
  BY <1>1 DEF Claims, Claimable, Shares
<1>6. QED
  BY <1>1, <1>2, <1>4, <1>5 DEF Claims, Exclusive

(* What makes the claim's search for shared branches enough: jobs that     *)
(* share a workspace are of one session, hence on one branch.              *)
LEMMA SharesBranch ==
    ASSUME FixInv, Homes, NEW j \in JobIds, NEW k \in JobIds, Shares(j, k)
    PROVE  BranchOfJob(j) = BranchOfJob(k)
<1>1. PICK home \in [Nat -> Nat] : Owned(home)
  BY DEF Homes
<1>2. CASE jobs[j].ws # 0 /\ jobs[j].ws = jobs[k].ws
  <2>1. home[jobs[j].ws] = jobs[j].rem /\ home[jobs[k].ws] = jobs[k].rem
    BY <1>1, <1>2 DEF Owned, Made
  <2>2. QED
    BY <1>2, <2>1 DEF BranchOfJob
<1>3. QED
  BY <1>2 DEF Shares, BranchOfJob

LEMMA InitHomes == Init => Homes
<1> SUFFICES ASSUME Init PROVE Homes
  OBVIOUS
<1>1. JobIds = {} /\ RemIds = {}
  BY DEF Init, JobIds, RemIds
<1>2. \A w \in Workers : held[w].phase = "idle"
  BY IdleSound DEF Init
<1>3. \A home : Owned(home)
  BY <1>1, <1>2 DEF Owned
<1>4. [n \in Nat |-> 0] \in [Nat -> Nat]
  OBVIOUS
<1>5. QED
  BY <1>3, <1>4 DEF Homes

LEMMA HomesInvariant == Spec => []Homes
<1>1. FixInv /\ Homes /\ [Next]_vars => Homes'
  BY NextSteps, StepOwned, ClaimOwned DEF Homes
<1>2. QED
  BY <1>1, InitHomes, FixInvariant, PTL DEF Spec

(* Two agents never run on one branch, session or workspace, however many  *)
(* fixers claim, lose and reclaim jobs (claimNextFixJob).                  *)
THEOREM OneActiveHolds == Spec => []OneActivePerBranch
<1>1. Init => Exclusive
  BY DEF Init, JobIds, Exclusive
<1>2. FixInv /\ Homes /\ Exclusive /\ [Next]_vars => Exclusive'
  BY NextSteps, StepExclusive, ClaimExclusive DEF Step
<1>3. FixInv /\ Homes /\ Exclusive => OneActivePerBranch
  BY SharesBranch DEF Exclusive, OneActivePerBranch
<1>4. QED
  BY <1>1, <1>2, <1>3, FixInvariant, HomesInvariant, PTL DEF Spec

-----------------------------------------------------------------------------
(* The lineage: what a follow-up run and a session rest on                 *)

(* A job that can still run or be resumed, or whose cancellation owns its  *)
(* checkout.                                                               *)
Unsettled(row) == row.status \notin Terminal \/ (row.status = "cancelled" /\ row.cleanup)

OneUnsettled ==
  \A j, k \in JobIds :
    j # k /\ jobs[j].rem = jobs[k].rem => ~(Unsettled(jobs[j]) /\ Unsettled(jobs[k]))

(* A session that was discarded has nothing that could be resumed, and a   *)
(* new session of an origin begins when the one before was discarded.      *)
SessionsOver ==
  /\ \A r \in RemIds : rems[r].state = "discarded" =>
       \A k \in JobIds : jobs[k].rem = r => jobs[k].status \in Terminal
  /\ \A q, r \in RemIds : q < r /\ rems[q].origin = rems[r].origin => rems[q].state = "discarded"

(* What a request saw of a row is true while its revision is the newest.   *)
ReqRight(q, rows) ==
  q.op # "none" =>
    /\ q.rev <= rows[q.job].rev
    /\ q.rev = rows[q.job].rev =>
         /\ q.op = "cancel" => rows[q.job].status \notin Terminal
         /\ q.op = "resume" => rows[q.job].status \in Paused
         /\ q.op = "cleanup" => rows[q.job].worker = None

ReqsRight == \A c \in Clients : ReqRight(req[c], jobs)

FollowsJob == \A j \in JobIds : jobs[j].from # 0 => jobs[j].from \in JobIds

Lineage == OneUnsettled /\ SessionsOver /\ ReqsRight /\ FollowsJob /\ FollowsSuccess

(* What every step does to the rows, the sessions and the requests.        *)
Follows(old, new) ==
  /\ new.from = old.from
  /\ Unsettled(new) => Unsettled(old)
  /\ new.claim = old.claim => new.worker \in {old.worker, None}

RowsFollow == \A j \in JobIds : Follows(jobs[j], jobs'[j])

RunsAdded ==
  \A k \in DOMAIN jobs' \ JobIds :
    /\ \A j \in DOMAIN jobs' \ {k} : jobs'[j].rem = jobs'[k].rem => ~Unsettled(jobs'[j])
    /\ rems'[jobs'[k].rem].state = "open"
    /\ jobs'[k].from # 0 =>
         jobs'[k].from \in JobIds /\ jobs'[jobs'[k].from].status \in {"succeeded", "superseded"}

SessionsMoved ==
  /\ \A r \in RemIds :
       /\ rems'[r].state = "open" => rems[r].state = "open"
       /\ rems[r].state = "discarded" => rems'[r].state = "discarded"
       /\ rems'[r].state = "discarded" =>
            \/ rems[r].state = "discarded"
            \/ \A k \in JobIds : jobs[k].rem = r => jobs[k].status \in Terminal
  /\ \A r \in DOMAIN rems' \ RemIds :
       /\ rems'[r].state = "open"
       /\ \A q \in RemIds : rems[q].origin = rems'[r].origin => rems[q].state = "discarded"
       /\ \A q \in DOMAIN rems' \ RemIds : q = r

ReqsRead == \A c \in Clients : req'[c] = req[c] \/ ReqRight(req'[c], jobs')

Lineal == RowsFollow /\ RunsAdded /\ SessionsMoved /\ ReqsRead

LEMMA ReqKept ==
    ASSUME FixInv, Advanced, NEW c \in Clients, ReqRight(req[c], jobs)
    PROVE  ReqRight(req[c], jobs')
<1>1. CASE req[c].op = "none"
  BY <1>1 DEF ReqRight
<1>2. CASE req[c].op # "none"
  <2> DEFINE j == req[c].job
  <2>1. j \in JobIds /\ req[c] \in Reqs
    BY <1>2 DEF FixInv, ReqsOK
  <2>2. req[c].rev \in Nat /\ jobs[j].rev \in Nat /\ jobs'[j] \in Rows
    BY <2>1, RowType DEF FixInv, Advanced, JobsKept, Reqs
  <2>3. jobs'[j].rev \in Nat
    BY <2>2 DEF Rows
  <2>4. Later(jobs[j], jobs'[j])
    BY <2>1 DEF Advanced, JobsKept
  <2>5. QED
    BY <1>2, <2>2, <2>3, <2>4 DEF ReqRight, Later
<1>3. QED
  BY <1>1, <1>2

LEMMA LineageKept ==
    ASSUME FixInv, FixInv', Advanced, Lineal, Lineage PROVE Lineage'
<1>1. /\ JobIds = DOMAIN jobs /\ JobIds' = DOMAIN jobs' /\ RemIds = DOMAIN rems /\ RemIds' = DOMAIN rems'
      /\ JobIds \subseteq JobIds' /\ RemIds \subseteq RemIds'
  BY Ids DEF FixInv, Advanced, JobsKept, RemsKept, JobIds, RemIds
<1>2. \A j \in JobIds : Later(jobs[j], jobs'[j]) /\ Follows(jobs[j], jobs'[j])
  BY DEF Advanced, JobsKept, Lineal, RowsFollow
<1>3. OneUnsettled'
  <2>1. ASSUME NEW j \in JobIds', NEW k \in JobIds', j # k, jobs'[j].rem = jobs'[k].rem,
               Unsettled(jobs'[j]), Unsettled(jobs'[k])
        PROVE  FALSE
    <3>1. j \in JobIds /\ k \in JobIds
      BY <1>1, <2>1 DEF Lineal, RunsAdded
    <3>2. QED
      BY <1>2, <2>1, <3>1 DEF Lineage, OneUnsettled, Later, Follows
  <2>2. QED
    BY <2>1 DEF OneUnsettled
<1>4. SessionsOver'
  <2>1. ASSUME NEW r \in RemIds', rems'[r].state = "discarded", NEW k \in JobIds', jobs'[k].rem = r
        PROVE  jobs'[k].status \in Terminal
    <3>1. k \in JobIds
      BY <1>1, <2>1 DEF Lineal, RunsAdded
    <3>2. jobs[k].rem = r /\ r \in RemIds
      BY <1>2, <2>1, <3>1, RowType DEF Later, FixInv
    <3>3. jobs[k].status \in Terminal
      BY <2>1, <3>1, <3>2 DEF Lineal, SessionsMoved, Lineage, SessionsOver
    <3>4. QED
      BY <1>2, <3>1, <3>3 DEF Later
  <2>2. ASSUME NEW q \in RemIds', NEW r \in RemIds', q < r, rems'[q].origin = rems'[r].origin
        PROVE  rems'[q].state = "discarded"
    <3>1. \A x \in RemIds : rems'[x].origin = rems[x].origin
      BY DEF Advanced, RemsKept
    <3>2. CASE r \in RemIds
      <4>1. q \in RemIds
        BY <2>2, <3>2, <1>1 DEF RemIds, FixInv, TablesOK
      <4>2. rems[q].state = "discarded"
        BY <2>2, <3>1, <3>2, <4>1 DEF Lineage, SessionsOver
      <4>3. QED
        BY <4>1, <4>2 DEF Lineal, SessionsMoved
    <3>3. CASE q \in RemIds /\ r \notin RemIds
      <4>1. rems[q].state = "discarded"
        BY <1>1, <2>2, <3>1, <3>3 DEF Lineal, SessionsMoved
      <4>2. QED
        BY <3>3, <4>1 DEF Lineal, SessionsMoved
    <3>4. CASE q \notin RemIds /\ r \notin RemIds
      <4>1. q = r /\ q \in Nat
        BY <1>1, <2>2, <3>4 DEF Lineal, SessionsMoved, RemIds, FixInv, TablesOK
      <4>2. QED
        BY <2>2, <4>1
    <3>5. QED
      BY <3>2, <3>3, <3>4
  <2>3. QED
    BY <2>1, <2>2 DEF SessionsOver
<1>5. ReqsRight'
  BY ReqKept DEF ReqsRight, Lineage, Lineal, ReqsRead
<1>6. ASSUME NEW j \in JobIds', jobs'[j].from # 0
      PROVE  jobs'[j].from \in JobIds' /\ jobs'[jobs'[j].from].status \in {"succeeded", "superseded"}
  <2>1. CASE j \in JobIds
    <3>1. jobs'[j].from = jobs[j].from /\ jobs[j].from \in JobIds
          /\ jobs[jobs[j].from].status \in {"succeeded", "superseded"}
      BY <1>2, <1>6, <2>1 DEF Follows, Lineage, FollowsJob, FollowsSuccess
    <3>2. QED
      BY <1>1, <1>2, <3>1 DEF Later, Terminal
  <2>2. CASE j \notin JobIds
    BY <1>1, <1>6, <2>2 DEF Lineal, RunsAdded
  <2>3. QED
    BY <2>1, <2>2
<1>7. QED
  BY <1>3, <1>4, <1>5, <1>6 DEF Lineage, FollowsJob, FollowsSuccess

-----------------------------------------------------------------------------
(* A new run                                                               *)

LEMMA LatestIs ==
    ASSUME TablesOK, NEW o
    PROVE  LET r == LatestRem(o)
           IN  \/ r = 0 /\ \A q \in RemIds : rems[q].origin # o
               \/ /\ r \in RemIds /\ rems[r].origin = o
                  /\ \A q \in RemIds : rems[q].origin = o => q <= r
<1> DEFINE mine == {r \in RemIds : rems[r].origin = o}
<1>1. CASE mine = {}
  BY <1>1 DEF LatestRem
<1>2. CASE mine # {}
  <2>1. RemIds = 1..Len(rems) /\ Len(rems) \in Nat
    BY DEF TablesOK, RemIds
  <2>2. mine \in SUBSET (1..Len(rems))
    BY <2>1
  <2>3. LatestRem(o) = CHOOSE r \in mine : \A q \in mine : q <= r
    BY <1>2 DEF LatestRem
  <2> HIDE DEF mine
  <2>4. \E r \in mine : \A q \in mine : q <= r
    BY <1>2, <2>1, <2>2, HasMax
  <2>5. LatestRem(o) \in mine /\ \A q \in mine : q <= LatestRem(o)
    BY <2>3, <2>4
  <2>6. QED
    BY <2>5 DEF mine
<1>3. QED
  BY <1>1, <1>2

(* All but the newest session of an origin were discarded.                 *)
LEMMA EarlierOver ==
    ASSUME FixInv, Lineage, NEW o, NEW q \in RemIds, rems[q].origin = o, rems[q].state # "discarded"
    PROVE  q = LatestRem(o)
<1> DEFINE r == LatestRem(o)
<1>1. r \in RemIds /\ rems[r].origin = o /\ q <= r
  BY LatestIs DEF FixInv
<1>2. r \in Nat /\ q \in Nat
  BY <1>1 DEF RemIds, FixInv, TablesOK
<1>3. ~ (q < r)
  BY <1>1 DEF Lineage, SessionsOver
<1>4. QED
  BY <1>1, <1>2, <1>3

LEMMA EnqueueLineal ==
    ASSUME FixInv, Lineage, NEW o \in Origins, NEW run \in Nat, NEW from \in Nat,
           Enqueue(o, run, from), ReqsRead,
           from # 0 => from \in JobIds /\ MayFollow(from) /\ rems[jobs[from].rem].origin = o
    PROVE  Lineal
<1> DEFINE r == LatestRem(o)
<1> DEFINE open == r # 0 /\ rems[r].state = "open"
<1> DEFINE rem == IF open THEN r ELSE Len(rems) + 1
<1> DEFINE ws == IF open THEN rems[r].ws ELSE 0
<1> DEFINE job == [status |-> "queued", rev |-> 0, rem |-> rem, cleanup |-> FALSE,
              worker |-> None, claim |-> 0, ws |-> ws, pushed |-> FALSE, run |-> run, from |-> from]
<1> DEFINE row(k) == IF k \in PausedOn(rem)
                     THEN Bump([jobs[k] EXCEPT !.status = "superseded"]) ELSE jobs[k]
<1> DEFINE new == [origin |-> o, state |-> "open", ws |-> 0]
<1>1. /\ open => ~BusyOn(r)
      /\ r # 0 => rems[r].state # "frozen"
      /\ \A k \in JobIds : ~Cleaning(k)
      /\ rems' = IF open THEN rems ELSE Append(rems, new)
      /\ jobs' = Append([k \in JobIds |-> row(k)], job)
  BY DEF Enqueue
<1>2. Len(rems) \in Nat /\ Len(jobs) \in Nat /\ RemIds = 1..Len(rems) /\ JobIds = 1..Len(jobs)
      /\ RemIds = DOMAIN rems /\ rems \in Seq(Sessions)
  BY DEF FixInv, TablesOK, RemIds, JobIds
<1>3. open => r \in RemIds
  BY LatestExists DEF FixInv
<1>4. ~open => \A q \in RemIds : rems[q].origin = o => rems[q].state = "discarded"
  <2> SUFFICES ASSUME ~open, NEW q \in RemIds, rems[q].origin = o, rems[q].state # "discarded"
               PROVE  FALSE
    OBVIOUS
  <2>1. q = r /\ q # 0
    BY <1>2, EarlierOver
  <2>2. rems[q] \in Sessions
    BY <1>2
  <2>3. QED
    BY <1>1, <2>1, <2>2 DEF Sessions
<1>5. rem = (IF open THEN r ELSE Len(rems) + 1) /\ new.state = "open" /\ new.origin = o
  OBVIOUS
<1>6. job.rem = rem /\ job.from = from
  OBVIOUS
<1>7. ASSUME NEW k \in JobIds
      PROVE  /\ Follows(jobs[k], row(k)) /\ row(k).rem = jobs[k].rem
             /\ k \in PausedOn(rem) => row(k).status = "superseded"
             /\ k \notin PausedOn(rem) => row(k) = jobs[k]
  <2>1. CASE k \in PausedOn(rem)
    <3>1. jobs[k].status \in Paused
      BY <2>1 DEF PausedOn
    <3>2. QED
      BY <2>1, <3>1, SupersededRow DEF FixInv, Follows, Unsettled, Terminal
  <2>2. CASE k \notin PausedOn(rem)
    BY <2>2 DEF Follows
  <2>3. QED
    BY <2>1, <2>2
<1> DEFINE old == [k \in JobIds |-> row(k)]
<1> HIDE DEF row, job, new, rem
<1>8. /\ DOMAIN jobs' = JobIds \cup {Len(jobs) + 1} /\ jobs'[Len(jobs) + 1] = job
      /\ \A k \in JobIds : jobs'[k] = row(k)
  <2>1. jobs' = Append(old, job)
    BY <1>1
  <2>2. old = [k \in 1..Len(jobs) |-> row(k)] /\ Len(old) = Len(jobs)
    BY <1>2
  <2>3. QED
    BY <1>2, <2>1, <2>2
<1>9. open => rems' = rems
  BY <1>1
<1>10. ~open => /\ DOMAIN rems' = RemIds \cup {Len(rems) + 1} /\ rems'[Len(rems) + 1] = new
                /\ \A q \in RemIds : rems'[q] = rems[q]
  BY <1>1, <1>2
<1> HIDE DEF open
<1>11. RowsFollow
  BY <1>7, <1>8 DEF RowsFollow
<1>12. SessionsMoved
  BY <1>2, <1>4, <1>5, <1>9, <1>10 DEF SessionsMoved
<1>13. rems'[rem].state = "open"
  BY <1>5, <1>9, <1>10 DEF open
<1>14. ASSUME NEW j \in JobIds, jobs'[j].rem = rem PROVE ~Unsettled(jobs'[j])
  <2>1. jobs[j].rem = rem /\ jobs[j].rem \in RemIds /\ jobs[j].status \in Statuses
    BY <1>7, <1>8, <1>14, RowType DEF FixInv
  <2>2. open /\ rem = r
    BY <1>2, <1>5, <2>1
  <2>3. jobs[j].status \notin Busy
    BY <1>1, <2>1, <2>2 DEF BusyOn
  <2>4. CASE j \in PausedOn(rem)
    BY <1>7, <1>8, <2>4 DEF Terminal, Unsettled
  <2>5. CASE j \notin PausedOn(rem)
    <3>1. jobs[j].status \in Terminal /\ jobs'[j] = jobs[j]
      BY <1>7, <1>8, <2>1, <2>3, <2>5 DEF PausedOn, Statuses
    <3>2. QED
      BY <1>1, <3>1 DEF Unsettled, Cleaning
  <2>6. QED
    BY <2>4, <2>5
<1>15. from # 0 => from \in JobIds /\ jobs'[from].status \in {"succeeded", "superseded"}
  <2> SUFFICES ASSUME from # 0 PROVE jobs'[from].status \in {"succeeded", "superseded"}
    OBVIOUS
  <2> DEFINE q == jobs[from].rem
  <2>1. from \in JobIds /\ rems[q].origin = o /\ q \in RemIds
        /\ jobs[from].status \in {"awaiting_push", "succeeded"}
    BY RowType DEF MayFollow, Ended, FixInv
  <2>2. CASE jobs[from].status = "succeeded"
    <3>1. from \notin PausedOn(rem)
      BY <2>2 DEF PausedOn, Paused
    <3>2. QED
      BY <1>7, <1>8, <2>1, <2>2, <3>1
  <2>3. CASE jobs[from].status = "awaiting_push"
    <3>1. rems[q].state # "discarded"
      BY <2>1, <2>3 DEF Lineage, SessionsOver, Terminal
    <3>2. q = r
      BY <2>1, <3>1, EarlierOver
    <3>3. open
      BY <1>4, <2>1, <3>1
    <3>4. from \in PausedOn(rem)
      BY <1>5, <2>1, <2>3, <3>2, <3>3 DEF PausedOn, Paused
    <3>5. QED
      BY <1>7, <1>8, <2>1, <3>4
  <2>4. QED
    BY <2>1, <2>2, <2>3
<1>16. RunsAdded
  BY <1>6, <1>8, <1>13, <1>14, <1>15 DEF RunsAdded
<1>17. QED
  BY <1>11, <1>12, <1>16 DEF Lineal
-----------------------------------------------------------------------------
(* What the steps write                                                    *)

(* A step that leaves the jobs and the sessions alone.                     *)
LEMMA QuietLineal ==
    ASSUME FixInv, UNCHANGED <<jobs, rems>>, ReqsRead PROVE Lineal
<1>1. JobIds = DOMAIN jobs /\ RemIds = DOMAIN rems
  BY Ids DEF FixInv
<1>2. QED
  BY <1>1 DEF Lineal, RowsFollow, Follows, RunsAdded, SessionsMoved

LEMMA SameReqs == ASSUME UNCHANGED req PROVE ReqsRead
  BY DEF ReqsRead

LEMMA SameSessions == ASSUME FixInv, UNCHANGED rems PROVE SessionsMoved
  BY Ids DEF SessionsMoved, FixInv

LEMMA SameRows == ASSUME FixInv, UNCHANGED jobs PROVE RowsFollow /\ RunsAdded
  BY Ids DEF RowsFollow, Follows, RunsAdded, FixInv

(* One row is written; "new" is what the transaction made of it.           *)
LEMMA OneFollows ==
    ASSUME FixInv, NEW j \in JobIds, DOMAIN jobs' = JobIds,
           \A k \in JobIds \ {j} : jobs'[k] = jobs[k], Follows(jobs[j], jobs'[j])
    PROVE  RowsFollow /\ RunsAdded
<1>1. ASSUME NEW k \in JobIds \ {j} PROVE Follows(jobs[k], jobs'[k])
  BY DEF Follows
<1>2. QED
  BY <1>1 DEF RowsFollow, RunsAdded

(* The engine starts, or the worker learns that the job is not its own.    *)
Launched(w) ==
  LET j == held[w].job
  IN  /\ jobs[j].worker = w /\ jobs[j].claim = held[w].claim /\ jobs[j].status \in Active
      /\ DOMAIN jobs' = JobIds /\ \A k \in JobIds \ {j} : jobs'[k] = jobs[k]
      /\ jobs'[j].worker = w /\ jobs'[j].claim = held[w].claim /\ jobs'[j].from = jobs[j].from
      /\ jobs'[j].rem = jobs[j].rem

Refused(w) == UNCHANGED jobs /\ held'[w].phase = "stopped"

OthersHeld(w) == \A v \in Workers \ {w} : held'[v] = held[v]

LEMMA SaveShape ==
    ASSUME FixInv, NEW w \in Workers, held[w].phase \in {"claimed", "engine"},
           NEW job \in Rows, job.rev = jobs[held[w].job].rev, job.rem = jobs[held[w].job].rem,
           job.claim = jobs[held[w].job].claim, job.worker = jobs[held[w].job].worker,
           job.from = jobs[held[w].job].from,
           NEW p, NEW out, Save(w, job, p, out)
    PROVE  /\ OthersHeld(w)
           /\ \/ /\ Launched(w) /\ held'[w].phase = p /\ held'[w].ws = job.ws
                 /\ held'[w].job = held[w].job /\ held'[w].claim = held[w].claim
                 /\ jobs'[held[w].job].ws = job.ws /\ jobs'[held[w].job].status = job.status
                 /\ jobs' # jobs
              \/ Refused(w)
<1> DEFINE j == held[w].job
<1>0. j \in JobIds /\ held[w] \in Mem
  BY HeldType
<1>1. CASE MayWrite(j, held[w].rev, job.status)
  <2>1. jobs[j].worker = w /\ jobs[j].claim = held[w].claim /\ jobs[j].status \in Active
    BY <1>1, LandsOwned
  <2>2. jobs[j].status \notin Terminal
    BY <2>1 DEF Active, Terminal
  <2>3. SetJob(j, job)
    BY <1>1 DEF Save
  <2>4. /\ DOMAIN jobs' = JobIds /\ jobs'[j].rev = jobs[j].rev + 1 /\ jobs'[j].status = job.status
        /\ jobs'[j].worker = job.worker /\ jobs'[j].claim = job.claim
        /\ jobs'[j].ws = job.ws /\ jobs'[j].rem = jobs[j].rem /\ jobs'[j].from = job.from
        /\ \A k \in JobIds \ {j} : jobs'[k] = jobs[k]
    BY ZenonT(30), <1>0, <2>2, <2>3, OneJob DEF FixInv
  <2>5. jobs' # jobs
    <3>1. jobs[j].rev \in Nat
      BY <1>0, RowType DEF FixInv
    <3>2. jobs[j].rev # jobs[j].rev + 1
      BY <3>1
    <3>3. QED
      BY <2>4, <3>2
  <2>6. PICK v : v = jobs[j].rev + 1
    OBVIOUS
  <2> DEFINE g == [held[w] EXCEPT !.rev = v, !.ws = job.ws, !.phase = p, !.out = out]
  <2>7. held' = [held EXCEPT ![w] = g]
    <3>1. held' = [held EXCEPT ![w].rev = jobs[j].rev + 1, ![w].ws = job.ws,
                               ![w].phase = p, ![w].out = out]
      BY <1>1 DEF Save
    <3>2. QED
      BY <2>6, <3>1
  <2>8. g.job = j /\ g.claim = held[w].claim /\ g.phase = p /\ g.ws = job.ws
    BY <1>0 DEF Mem
  <2> HIDE DEF g
  <2>9. held'[w] = g /\ OthersHeld(w)
    BY <2>7 DEF FixInv, OthersHeld
  <2>10. Launched(w)
    BY <2>1, <2>4 DEF Launched
  <2>11. QED
    BY <2>4, <2>5, <2>8, <2>9, <2>10
<1>2. CASE ~MayWrite(j, held[w].rev, job.status)
  <2> DEFINE g == [held[w] EXCEPT !.phase = "stopped"]
  <2>1. held' = [held EXCEPT ![w] = g] /\ UNCHANGED jobs
    BY <1>2 DEF Save
  <2>2. g.phase = "stopped"
    BY <1>0 DEF Mem
  <2> HIDE DEF g
  <2>3. held'[w] = g /\ OthersHeld(w)
    BY <2>1 DEF FixInv, OthersHeld
  <2>4. QED
    BY <2>1, <2>2, <2>3 DEF Refused
<1>3. QED
  BY <1>1, <1>2

LEMMA StartShape ==
    ASSUME FixInv, NEW w \in Workers, StartEngine(w)
    PROVE  LET j == held[w].job
           IN  /\ held[w].phase = "claimed" /\ UNCHANGED <<rems, scans, beat, claims, req, lost>>
               /\ OthersHeld(w)
               /\ \/ /\ Launched(w) /\ held'[w].phase = "engine" /\ held'[w].job = j
                     /\ held'[w].claim = held[w].claim /\ jobs'[j].status = "running"
                     /\ held'[w].ws = jobs'[j].ws
                     /\ \/ /\ jobs[j].ws # 0 /\ jobs'[j].ws = jobs[j].ws /\ UNCHANGED checkouts
                        \/ /\ jobs'[j].ws = held[w].claim
                           /\ checkouts' = checkouts \cup {held[w].claim}
                  \/ Refused(w) /\ UNCHANGED checkouts
<1> DEFINE j == held[w].job
<1> DEFINE ws == IF jobs[j].ws = 0 THEN held[w].claim ELSE jobs[j].ws
<1> DEFINE job == [jobs[j] EXCEPT !.status = "running", !.ws = ws]
<1>1. /\ held[w].phase = "claimed" /\ Save(w, job, "engine", NoResult)
      /\ UNCHANGED <<rems, scans, beat, claims, req, lost>>
      /\ checkouts' = IF jobs' # jobs /\ jobs[j].ws = 0 THEN checkouts \cup {ws} ELSE checkouts
  BY DEF StartEngine
<1>2. j \in JobIds /\ held[w].claim \in Nat
  BY <1>1, HeldType
<1>3. jobs[j] \in Rows /\ ws \in Nat
  BY <1>2, RowType DEF FixInv
<1>4. job \in Rows /\ job.rev = jobs[j].rev /\ job.rem = jobs[j].rem /\ job.claim = jobs[j].claim
      /\ job.worker = jobs[j].worker /\ job.ws = ws /\ job.status = "running"
      /\ job.from = jobs[j].from
  <2> HIDE DEF ws
  <2>1. QED
    BY <1>3 DEF Rows, Statuses, Busy, Active
<1> HIDE DEF job
<1>5. /\ OthersHeld(w)
      /\ \/ /\ Launched(w) /\ held'[w].phase = "engine" /\ held'[w].ws = job.ws
            /\ held'[w].job = held[w].job /\ held'[w].claim = held[w].claim
            /\ jobs'[j].ws = job.ws /\ jobs'[j].status = job.status
            /\ jobs' # jobs
         \/ Refused(w)
  <2> HIDE DEF ws
  <2>1. held[w].phase \in {"claimed", "engine"}
    BY <1>1
  <2>2. QED
    BY <1>1, <1>4, <2>1, SaveShape
<1>6. CASE Refused(w)
  BY <1>1, <1>5, <1>6 DEF Refused
<1>7. CASE ~Refused(w)
  <2>1. CASE jobs[j].ws = 0
    <3>1. ws = held[w].claim
      BY <2>1
    <3>2. QED
      BY <1>1, <1>4, <1>5, <1>7, <2>1, <3>1
  <2>2. CASE jobs[j].ws # 0
    <3>1. ws = jobs[j].ws
      BY <2>2
    <3>2. QED
      BY <1>1, <1>4, <1>5, <1>7, <2>2, <3>1
  <2>3. QED
    BY <2>1, <2>2
<1>8. QED
  BY <1>6, <1>7

LEMMA FinishShape ==
    ASSUME FixInv, NEW w \in Workers, Finish(w)
    PROVE  LET j == held[w].job
           IN  /\ held[w].phase = "engine"
               /\ UNCHANGED <<rems, scans, beat, claims, req, checkouts, lost>>
               /\ OthersHeld(w)
               /\ \/ /\ Launched(w) /\ held'[w].phase = "done" /\ held'[w].ws = jobs[j].ws
                     /\ held'[w].job = j /\ jobs'[j].ws = jobs[j].ws
                  \/ Refused(w)
<1> DEFINE j == held[w].job
<1>1. PICK out \in Ends :
        /\ held[w].phase = "engine"
        /\ Save(w, [jobs[j] EXCEPT !.status = out.status, !.pushed = out.pushed], "done", out)
        /\ UNCHANGED <<rems, scans, beat, claims, req, checkouts, lost>>
  BY DEF Finish
<1> DEFINE job == [jobs[j] EXCEPT !.status = out.status, !.pushed = out.pushed]
<1>2. out.status \in Statuses /\ out.pushed \in BOOLEAN
  BY ResultType, FixAssumption DEF FixAssumption
<1>3. jobs[j] \in Rows
  BY <1>1, HeldType, RowType DEF FixInv
<1>4. job \in Rows /\ job.rev = jobs[j].rev /\ job.rem = jobs[j].rem /\ job.claim = jobs[j].claim
      /\ job.worker = jobs[j].worker /\ job.ws = jobs[j].ws /\ job.from = jobs[j].from
  BY <1>2, <1>3 DEF Rows
<1> HIDE DEF job
<1>5. Save(w, job, "done", out)
  BY <1>1 DEF job
<1>6. /\ OthersHeld(w)
      /\ \/ /\ Launched(w) /\ held'[w].phase = "done" /\ held'[w].ws = job.ws
            /\ held'[w].job = held[w].job /\ jobs'[j].ws = job.ws
         \/ Refused(w)
  BY <1>1, <1>4, <1>5, SaveShape
<1>7. QED
  BY <1>1, <1>4, <1>6

(* The rows of k that no other transaction wrote.                          *)
Only(j) == DOMAIN jobs' = JobIds /\ \A k \in JobIds \ {j} : jobs'[k] = jobs[k]

LEMMA ReleaseShape ==
    ASSUME FixInv, NEW j \in JobIds, Release(j)
    PROVE  LET r == jobs[j].rem
           IN  /\ checkouts' = checkouts \ {jobs[j].ws} /\ UNCHANGED lost
               /\ Only(j)
               /\ jobs'[j].status = jobs[j].status /\ jobs'[j].cleanup = FALSE
               /\ jobs'[j].worker = None /\ jobs'[j].ws = 0 /\ jobs'[j].rem = r
               /\ jobs'[j].claim = jobs[j].claim /\ jobs'[j].from = jobs[j].from
               /\ DOMAIN rems' = RemIds /\ \A q \in RemIds \ {r} : rems'[q] = rems[q]
               /\ rems'[r].state = IF rems[r].state = "open" THEN "discarded" ELSE rems[r].state
               /\ rems'[r].ws \in {0, rems[r].ws}
<1> DEFINE job == [jobs[j] EXCEPT !.cleanup = FALSE, !.worker = None, !.ws = 0]
<1> DEFINE r == jobs[j].rem
<1> DEFINE s == IF rems[r].state = "open" THEN [rems[r] EXCEPT !.state = "discarded", !.ws = 0]
                ELSE rems[r]
<1>1. jobs[j] \in Rows /\ r \in RemIds /\ rems[r] \in Sessions
  BY RowType DEF FixInv
<1>2. job \in Rows /\ job.rev = jobs[j].rev /\ job.rem = jobs[j].rem /\ job.claim = jobs[j].claim
      /\ job.ws = 0 /\ job.status = jobs[j].status /\ job.cleanup = FALSE /\ job.worker = None
      /\ job.from = jobs[j].from
  BY <1>1 DEF Rows
<1>3. /\ s.state = IF rems[r].state = "open" THEN "discarded" ELSE rems[r].state
      /\ s.ws \in {0, rems[r].ws}
  BY <1>1 DEF Sessions
<1>4. SetJob(j, job) /\ rems' = [rems EXCEPT ![r] = s] /\ checkouts' = checkouts \ {jobs[j].ws}
      /\ UNCHANGED lost
  BY DEF Release
<1> HIDE DEF job, s
<1>5. DOMAIN rems' = RemIds /\ rems'[r] = s /\ \A q \in RemIds \ {r} : rems'[q] = rems[q]
  BY <1>1, <1>4, Ids DEF FixInv
<1>6. /\ DOMAIN jobs' = JobIds /\ \A k \in JobIds \ {j} : jobs'[k] = jobs[k]
      /\ jobs'[j].status = job.status /\ jobs'[j].claim = job.claim /\ jobs'[j].ws = job.ws
      /\ jobs'[j].worker = job.worker /\ jobs'[j].from = job.from /\ jobs'[j].cleanup = job.cleanup
      /\ jobs'[j].rem = jobs[j].rem
  BY <1>2, <1>4, OneJob DEF FixInv
<1>7. QED
  BY <1>2, <1>3, <1>4, <1>5, <1>6 DEF Only

LEMMA FailShape ==
    ASSUME FixInv, NEW j \in JobIds, NEW rev, NEW worker \in Workers \cup {None},
           ReleaseFails(j, rev, worker)
    PROVE  /\ UNCHANGED rems /\ checkouts \cup lost \subseteq checkouts' \cup lost' \cup {0}
           /\ \/ UNCHANGED jobs
              \/ /\ Only(j) /\ MayWrite(j, rev, "cancelled")
                 /\ jobs'[j].status = jobs[j].status /\ jobs'[j].cleanup = jobs[j].cleanup
                 /\ jobs'[j].worker = worker /\ jobs'[j].ws = jobs[j].ws
                 /\ jobs'[j].claim = jobs[j].claim /\ jobs'[j].from = jobs[j].from
<1> DEFINE job == [jobs[j] EXCEPT !.worker = worker]
<1>1. /\ UNCHANGED rems
      /\ (MayWrite(j, rev, "cancelled") /\ SetJob(j, job)) \/ UNCHANGED jobs
      /\ \/ UNCHANGED <<checkouts, lost>>
         \/ lost' = lost \cup ({jobs[j].ws} \ {0}) /\ checkouts' = checkouts \ {jobs[j].ws}
  BY DEF ReleaseFails
<1>2. checkouts \cup lost \subseteq checkouts' \cup lost' \cup {0}
  BY <1>1
<1>3. CASE MayWrite(j, rev, "cancelled") /\ SetJob(j, job)
  <2>1. jobs[j] \in Rows
    BY RowType DEF FixInv
  <2>2. job \in Rows /\ job.rev = jobs[j].rev /\ job.rem = jobs[j].rem /\ job.claim = jobs[j].claim
        /\ job.ws = jobs[j].ws /\ job.status = jobs[j].status /\ job.cleanup = jobs[j].cleanup
        /\ job.worker = worker /\ job.from = jobs[j].from
    BY <2>1 DEF Rows
  <2> HIDE DEF job
  <2>3. /\ DOMAIN jobs' = JobIds /\ \A k \in JobIds \ {j} : jobs'[k] = jobs[k]
        /\ jobs'[j].status = job.status /\ jobs'[j].claim = job.claim /\ jobs'[j].ws = job.ws
        /\ jobs'[j].worker = job.worker /\ jobs'[j].from = job.from
        /\ jobs'[j].cleanup = job.cleanup
    BY <1>3, <2>2, OneJob DEF FixInv
  <2>4. QED
    BY <1>1, <1>2, <1>3, <2>2, <2>3 DEF Only
<1>4. QED
  BY <1>1, <1>2, <1>3

LEMMA CancelShape ==
    ASSUME FixInv, ReqsRight, NEW c \in Clients, CancelWrite(c)
    PROVE  LET j == req[c].job
           IN  /\ j \in JobIds
               /\ UNCHANGED <<rems, scans, beat, claims, held, checkouts, lost>>
               /\ \A d \in Clients \ {c} : req'[d] = req[d]
               /\ ReqRight(req'[c], jobs')
               /\ \/ UNCHANGED jobs
                  \/ /\ Only(j) /\ jobs[j].status \notin Terminal
                     /\ jobs'[j].status = "cancelled" /\ jobs'[j].cleanup
                     /\ jobs'[j].worker \in {jobs[j].worker, None}
                     /\ jobs[j].status \in Active => jobs'[j].worker = jobs[j].worker
                     /\ jobs'[j].ws = jobs[j].ws
                     /\ jobs'[j].claim = jobs[j].claim /\ jobs'[j].from = jobs[j].from
<1> DEFINE j == req[c].job
<1> DEFINE worker == IF KeepsClaim(j) THEN jobs[j].worker ELSE None
<1> DEFINE row == [jobs[j] EXCEPT !.status = "cancelled", !.cleanup = TRUE, !.worker = worker]
<1> DEFINE seen(v) == [op |-> "cleanup", job |-> j, rev |-> v]
<1>1. /\ req[c].op = "cancel" /\ UNCHANGED <<rems, scans, beat, claims, held, checkouts, lost>>
      /\ \/ /\ MayWrite(j, req[c].rev, "cancelled") /\ SetJob(j, row)
            /\ \/ worker = None /\ req' = [req EXCEPT ![c] = seen(jobs[j].rev + 1)]
               \/ req' = [req EXCEPT ![c] = NoReq]
         \/ UNCHANGED jobs /\ req' = [req EXCEPT ![c] = NoReq]
  BY DEF CancelWrite, SetReq, EndReq
<1>2. j \in JobIds /\ jobs[j] \in Rows /\ jobs[j].rev + 1 \in Nat
  BY <1>1, ReqType
<1>3. worker \in Workers \cup {None} /\ worker \in {jobs[j].worker, None}
      /\ (jobs[j].status \in Active => worker = jobs[j].worker)
  BY <1>2 DEF Rows, KeepsClaim
<1> HIDE DEF worker
<1>4. row \in Rows /\ row.rev = jobs[j].rev /\ row.rem = jobs[j].rem /\ row.claim = jobs[j].claim
      /\ row.ws = jobs[j].ws /\ row.status = "cancelled" /\ row.cleanup = TRUE
      /\ row.worker = worker /\ row.from = jobs[j].from
  BY <1>2, <1>3 DEF Rows, Statuses, Terminal, Active
<1> HIDE DEF row
<1>5. NoReq.op = "none"
  BY DEF NoReq
<1>6. /\ \A d \in Clients \ {c} : req'[d] = req[d]
      /\ req'[c] = NoReq \/ (worker = None /\ SetJob(j, row) /\ req'[c] = seen(jobs[j].rev + 1))
  BY <1>1 DEF FixInv, ReqsOK
<1>7. CASE UNCHANGED jobs /\ req' = [req EXCEPT ![c] = NoReq]
  <2>1. req'[c] = NoReq
    BY <1>7 DEF FixInv, ReqsOK
  <2>2. QED
    BY <1>1, <1>2, <1>5, <1>6, <1>7, <2>1 DEF ReqRight
<1>8. CASE MayWrite(j, req[c].rev, "cancelled") /\ SetJob(j, row)
  <2>1. jobs[j].status \notin Terminal
    BY <1>1, <1>8 DEF MayWrite, ReqsRight, ReqRight
  <2>2. /\ DOMAIN jobs' = JobIds /\ \A k \in JobIds \ {j} : jobs'[k] = jobs[k]
        /\ jobs'[j].status = row.status /\ jobs'[j].claim = row.claim /\ jobs'[j].ws = row.ws
        /\ jobs'[j].worker = row.worker /\ jobs'[j].from = row.from
        /\ jobs'[j].cleanup = row.cleanup /\ jobs'[j].rev = jobs[j].rev + 1
    BY <1>2, <1>4, <1>8, <2>1, OneJob DEF FixInv
  <2>3. ReqRight(req'[c], jobs')
    <3>1. CASE req'[c] = NoReq
      BY <1>5, <3>1 DEF ReqRight
    <3>2. CASE worker = None /\ req'[c] = seen(jobs[j].rev + 1)
      <4>1. jobs'[j].worker = None /\ jobs'[j].rev = jobs[j].rev + 1 /\ jobs'[j].rev <= jobs'[j].rev
        BY <1>2, <1>4, <2>2, <3>2
      <4>2. QED
        BY <3>2, <4>1 DEF ReqRight
    <3>3. QED
      BY <1>6, <3>1, <3>2
  <2>4. QED
    BY <1>1, <1>2, <1>3, <1>4, <1>6, <2>1, <2>2, <2>3 DEF Only
<1>9. QED
  BY <1>1, <1>7, <1>8

LEMMA ResumeShape ==
    ASSUME FixInv, ReqsRight, NEW c \in Clients, ResumeWrite(c)
    PROVE  LET j == req[c].job
           IN  /\ j \in JobIds
               /\ UNCHANGED <<rems, scans, beat, claims, held, checkouts, lost>>
               /\ \A d \in Clients \ {c} : req'[d] = req[d]
               /\ ReqRight(req'[c], jobs')
               /\ \/ UNCHANGED jobs
                  \/ /\ Only(j) /\ jobs[j].status \in Paused
                     /\ jobs'[j].worker = None /\ jobs'[j].ws = jobs[j].ws
                     /\ jobs'[j].claim = jobs[j].claim /\ jobs'[j].from = jobs[j].from
<1> DEFINE j == req[c].job
<1> DEFINE row == [jobs[j] EXCEPT !.status = "queued", !.worker = None]
<1>1. /\ req[c].op = "resume" /\ UNCHANGED <<rems, scans, beat, claims, held, checkouts, lost>>
      /\ req' = [req EXCEPT ![c] = NoReq]
      /\ (MayWrite(j, req[c].rev, "queued") /\ SetJob(j, row)) \/ UNCHANGED jobs
  BY DEF ResumeWrite, EndReq
<1>2. j \in JobIds /\ jobs[j] \in Rows
  BY <1>1, ReqType
<1>3. row \in Rows /\ row.rev = jobs[j].rev /\ row.rem = jobs[j].rem /\ row.claim = jobs[j].claim
      /\ row.ws = jobs[j].ws /\ row.worker = None /\ row.from = jobs[j].from
  BY <1>2 DEF Rows, Statuses, Busy, Active
<1> HIDE DEF row
<1>4. (\A d \in Clients \ {c} : req'[d] = req[d]) /\ req'[c] = NoReq /\ NoReq.op = "none"
  BY <1>1 DEF FixInv, ReqsOK, NoReq
<1>5. ReqRight(req'[c], jobs')
  BY <1>4 DEF ReqRight
<1>6. CASE MayWrite(j, req[c].rev, "queued") /\ SetJob(j, row)
  <2>1. jobs[j].status \in Paused /\ jobs[j].status \notin Terminal
    BY <1>1, <1>6 DEF MayWrite, ReqsRight, ReqRight, Paused, Terminal
  <2>2. /\ DOMAIN jobs' = JobIds /\ \A k \in JobIds \ {j} : jobs'[k] = jobs[k]
        /\ jobs'[j].claim = row.claim /\ jobs'[j].ws = row.ws
        /\ jobs'[j].worker = row.worker /\ jobs'[j].from = row.from
    BY <1>2, <1>3, <1>6, <2>1, OneJob DEF FixInv
  <2>3. QED
    BY <1>1, <1>2, <1>3, <1>4, <1>5, <2>1, <2>2 DEF Only
<1>7. QED
  BY <1>1, <1>2, <1>4, <1>5, <1>6

(* The writes of several rows.                                             *)
Wiped(k) ==
  /\ jobs'[k].ws \in {0, jobs[k].ws} /\ jobs'[k].claim = jobs[k].claim
  /\ jobs'[k].from = jobs[k].from

LEMMA ReclaimShape ==
    ASSUME FixInv, Reclaim
    PROVE  /\ DOMAIN jobs' = JobIds
           /\ UNCHANGED <<rems, scans, beat, claims, held, req, checkouts, lost>>
           /\ \A k \in JobIds :
                \/ jobs'[k] = jobs[k]
                \/ /\ k \notin beat /\ jobs[k].status \in Active /\ jobs'[k].worker = None
                   /\ Wiped(k) /\ jobs'[k].ws = jobs[k].ws
<1> DEFINE row(j) == IF j \in Stale
                     THEN Bump([jobs[j] EXCEPT !.status = "queued", !.worker = None]) ELSE jobs[j]
<1>1. jobs' = [j \in JobIds |-> row(j)]
      /\ UNCHANGED <<rems, scans, beat, claims, held, req, checkouts, lost>>
  BY DEF Reclaim
<1>2. DOMAIN jobs' = JobIds /\ \A j \in JobIds : jobs'[j] = row(j)
  BY <1>1
<1>3. ASSUME NEW j \in JobIds, j \in Stale
      PROVE  /\ j \notin beat /\ jobs[j].status \in Active /\ row(j).worker = None
             /\ row(j).ws = jobs[j].ws /\ row(j).claim = jobs[j].claim /\ row(j).from = jobs[j].from
  BY <1>3, ReclaimedRow DEF Stale, FixInv
<1>4. QED
  BY <1>1, <1>2, <1>3 DEF Wiped

LEMMA SupersedeShape ==
    ASSUME FixInv, NEW w \in Workers, SupersedeSiblings(w)
    PROVE  /\ DOMAIN jobs' = JobIds /\ OthersHeld(w) /\ held'[w].phase \in {"alone", "idle"}
           /\ UNCHANGED <<rems, scans, beat, claims, req, checkouts, lost>>
           /\ \A k \in JobIds :
                \/ jobs'[k] = jobs[k]
                \/ /\ jobs[k].status \in Paused /\ jobs'[k].status = "superseded" /\ Wiped(k)
                   /\ jobs'[k].worker = jobs[k].worker
<1> DEFINE j == held[w].job
<1> DEFINE row(k) == IF k \in PausedOn(jobs[j].rem) \ {j}
                     THEN Bump([jobs[k] EXCEPT !.status = "superseded"]) ELSE jobs[k]
<1>1. UNCHANGED <<rems, scans, beat, claims, req, checkouts, lost>>
  BY SupersedeCases
<1>2. ASSUME NEW k \in JobIds, k \in PausedOn(jobs[j].rem) \ {j}
      PROVE  /\ jobs[k].status \in Paused /\ row(k).status = "superseded"
             /\ row(k).ws = jobs[k].ws /\ row(k).claim = jobs[k].claim
             /\ row(k).from = jobs[k].from /\ row(k).worker = jobs[k].worker
  <2>1. jobs[k].status \in Paused
    BY <1>2 DEF PausedOn
  <2>2. QED
    BY <1>2, <2>1, SupersededRow DEF FixInv
<1>3. DOMAIN jobs' = JobIds /\ \A k \in JobIds : jobs'[k] = jobs[k] \/ jobs'[k] = row(k)
  <2>1. jobs' = [k \in JobIds |-> row(k)] \/ UNCHANGED jobs
    BY SupersedeCases DEF SiblingMoved
  <2> HIDE DEF row
  <2>2. QED
    BY <2>1, Ids DEF FixInv
<1>4. \A k \in JobIds : \/ jobs'[k] = jobs[k]
                        \/ /\ jobs[k].status \in Paused /\ jobs'[k].status = "superseded" /\ Wiped(k)
                           /\ jobs'[k].worker = jobs[k].worker
  BY <1>2, <1>3 DEF Wiped
<1>5. PICK h : held' = [held EXCEPT ![w] = h] /\ h.phase \in {"alone", "idle"}
  <2> DEFINE g == [held[w] EXCEPT !.phase = "alone"]
  <2>1. g.phase = "alone"
    BY DEF FixInv, Mem
  <2>2. held' = [held EXCEPT ![w] = g] \/ held' = [held EXCEPT ![w] = Idle]
    BY SupersedeCases DEF SiblingMoved
  <2> HIDE DEF g
  <2>3. QED
    BY <2>1, <2>2, IdleSound
<1>6. OthersHeld(w) /\ held'[w] = h
  BY <1>5 DEF FixInv, OthersHeld
<1>7. QED
  BY <1>1, <1>3, <1>4, <1>5, <1>6

LEMMA AcceptShape ==
    ASSUME FixInv, NEW r \in RemIds, Accept(r)
    PROVE  /\ MayAccept(r) /\ UNCHANGED <<scans, beat, claims, held, req>>
           /\ \/ UNCHANGED <<jobs, rems>> /\ checkouts \cup lost \subseteq checkouts' \cup lost' \cup {0}
              \/ /\ checkouts' = checkouts \ {rems[r].ws} /\ UNCHANGED lost
                 /\ DOMAIN jobs' = JobIds /\ DOMAIN rems' = RemIds
                 /\ \A q \in RemIds \ {r} : rems'[q] = rems[q]
                 /\ rems'[r].state = "frozen" /\ rems'[r].ws = 0
                 /\ \A k \in JobIds :
                      \/ /\ jobs'[k] = jobs[k]
                         /\ jobs[k].rem # r \/ jobs[k].status \notin Paused
                      \/ /\ jobs[k].rem = r /\ jobs[k].status \in Paused \cup {"succeeded"}
                         /\ jobs'[k].status = "succeeded" /\ Wiped(k)
                         /\ jobs'[k].worker = jobs[k].worker
<1> DEFINE done(k) == /\ jobs[k].rem = r
                      /\ \/ jobs[k].status \in Paused
                         \/ jobs[k].status = "succeeded" /\ jobs[k].ws = rems[r].ws
<1> DEFINE row(k) == IF done(k) THEN Bump([jobs[k] EXCEPT !.status = "succeeded", !.ws = 0]) ELSE jobs[k]
<1> DEFINE s == [rems[r] EXCEPT !.state = "frozen", !.ws = 0]
<1>1. /\ MayAccept(r) /\ UNCHANGED <<scans, beat, claims, held, req>>
      /\ checkouts' = checkouts \ {rems[r].ws}
      /\ \/ /\ jobs' = [k \in JobIds |-> row(k)] /\ UNCHANGED lost
            /\ rems' = [rems EXCEPT ![r].state = "frozen", ![r].ws = 0]
         \/ UNCHANGED <<jobs, rems>> /\ lost' = lost \cup ({rems[r].ws} \ {0})
  BY DEF Accept
<1>2. CASE UNCHANGED <<jobs, rems>> /\ lost' = lost \cup ({rems[r].ws} \ {0})
  BY <1>1, <1>2
<1>3. CASE /\ jobs' = [k \in JobIds |-> row(k)] /\ UNCHANGED lost
           /\ rems' = [rems EXCEPT ![r].state = "frozen", ![r].ws = 0]
  <2>1. rems' = [rems EXCEPT ![r] = s]
    BY <1>3
  <2>2. rems[r] \in Sessions
    BY Ids DEF FixInv, TablesOK
  <2>3. s.state = "frozen" /\ s.ws = 0
    BY <2>2 DEF Sessions
  <2> HIDE DEF s
  <2>4. DOMAIN rems' = RemIds /\ rems'[r] = s /\ \A q \in RemIds \ {r} : rems'[q] = rems[q]
    BY <2>1, Ids DEF FixInv
  <2>5. DOMAIN jobs' = JobIds /\ \A k \in JobIds : jobs'[k] = row(k)
    BY <1>3
  <2>6. ASSUME NEW k \in JobIds, done(k)
        PROVE  /\ row(k).status = "succeeded" /\ row(k).ws = 0 /\ row(k).claim = jobs[k].claim
               /\ row(k).from = jobs[k].from /\ row(k).worker = jobs[k].worker
    BY <2>6, AcceptedRow DEF FixInv
  <2>7. ASSUME NEW k \in JobIds
        PROVE  \/ /\ jobs'[k] = jobs[k]
                  /\ jobs[k].rem # r \/ jobs[k].status \notin Paused
               \/ /\ jobs[k].rem = r /\ jobs[k].status \in Paused \cup {"succeeded"}
                  /\ jobs'[k].status = "succeeded" /\ Wiped(k)
                  /\ jobs'[k].worker = jobs[k].worker
    <3>1. CASE done(k)
      <4>1. jobs[k].rem = r /\ jobs[k].status \in Paused \cup {"succeeded"}
        BY <3>1
      <4>2. jobs'[k] = row(k)
        BY <2>5
      <4> HIDE DEF row
      <4>3. QED
        BY <2>6, <3>1, <4>1, <4>2 DEF Wiped
    <3>2. CASE ~done(k)
      BY <2>5, <3>2
    <3>3. QED
      BY <3>1, <3>2
  <2>8. QED
    BY <1>1, <1>3, <2>3, <2>4, <2>5, <2>7
<1>4. QED
  BY <1>1, <1>2, <1>3

-----------------------------------------------------------------------------
(* Every step is lineal                                                    *)

LEMMA ClaimLineal ==
    ASSUME FixInv, Homes, NEW w \in Workers, Claim(w) PROVE Lineal
<1>1. PICK j \in JobIds :
        /\ Claimable(j) /\ DOMAIN jobs' = JobIds /\ UNCHANGED <<rems, req>>
        /\ \A k \in JobIds \ {j} : jobs'[k] = jobs[k]
        /\ jobs'[j].claim = claims + 1 /\ jobs'[j].from = jobs[j].from
  BY ClaimShape DEF Claims
<1>2. jobs[j].claim # claims + 1
  <2>1. PICK home \in [Nat -> Nat] : Owned(home)
    BY DEF Homes
  <2>2. jobs[j].claim \in {0} \cup 1..claims /\ claims \in Nat
    BY <2>1 DEF Owned, Made, FixInv, TablesOK
  <2>3. QED
    BY <2>2
<1>3. Unsettled(jobs[j])
  BY <1>1 DEF Claimable, Unsettled, Terminal
<1>4. RowsFollow /\ RunsAdded
  BY <1>1, <1>2, <1>3, OneFollows DEF Follows
<1>5. QED
  BY <1>1, <1>4, SameSessions, SameReqs DEF Lineal

LEMMA LaunchedLineal ==
    ASSUME FixInv, NEW w \in Workers, held[w].phase # "idle", Launched(w) \/ Refused(w),
           UNCHANGED <<rems, req>>
    PROVE  Lineal
<1> DEFINE j == held[w].job
<1>1. CASE Launched(w)
  <2>1. Unsettled(jobs[j])
    BY <1>1 DEF Launched, Unsettled, Active, Terminal
  <2>2. j \in JobIds
    BY HeldType
  <2>3. RowsFollow /\ RunsAdded
    BY <1>1, <2>1, <2>2, OneFollows DEF Follows, Launched
  <2>4. QED
    BY <2>3, SameSessions, SameReqs DEF Lineal
<1>2. CASE Refused(w)
  BY <1>2, QuietLineal, SameReqs DEF Refused
<1>3. QED
  BY <1>1, <1>2

LEMMA ReleaseLineal ==
    ASSUME FixInv, NEW j \in JobIds, NEW rev, CanRelease(j, rev), Release(j), ReqsRead
    PROVE  Lineal
<1> DEFINE r == jobs[j].rem
<1>1. /\ Only(j)
      /\ jobs'[j].status = jobs[j].status /\ jobs'[j].cleanup = FALSE
      /\ jobs'[j].worker = None /\ jobs'[j].from = jobs[j].from
      /\ DOMAIN rems' = RemIds /\ \A q \in RemIds \ {r} : rems'[q] = rems[q]
      /\ rems'[r].state = IF rems[r].state = "open" THEN "discarded" ELSE rems[r].state
  BY ReleaseShape
<1>2. jobs[j].status = "cancelled" /\ Unsettled(jobs[j])
  BY DEF CanRelease, Cleaning, Unsettled
<1>3. RowsFollow /\ RunsAdded
  BY <1>1, <1>2, OneFollows DEF Follows, Only
<1>4. ASSUME NEW k \in JobIds, jobs[k].rem = r PROVE jobs[k].status \in Terminal
  <2>1. CASE k = j
    BY <1>2, <2>1 DEF Terminal
  <2>2. CASE k # j
    <3>1. jobs[k].status \notin Busy \cup Paused /\ jobs[k].status \in Statuses
      BY <1>4, <2>2, RowType DEF CanRelease, Shares, FixInv
    <3>2. QED
      BY <3>1 DEF Statuses
  <2>3. QED
    BY <2>1, <2>2
<1>5. SessionsMoved
  <2>1. ASSUME NEW q \in RemIds
        PROVE  /\ rems'[q].state = "open" => rems[q].state = "open"
               /\ rems[q].state = "discarded" => rems'[q].state = "discarded"
               /\ rems'[q].state = "discarded" =>
                    \/ rems[q].state = "discarded"
                    \/ \A k \in JobIds : jobs[k].rem = q => jobs[k].status \in Terminal
    <3>1. CASE q = r
      BY <1>1, <1>4, <3>1
    <3>2. CASE q # r
      BY <1>1, <3>2
    <3>3. QED
      BY <3>1, <3>2
  <2>2. QED
    BY <1>1, <2>1 DEF SessionsMoved
<1>6. QED
  BY <1>3, <1>5 DEF Lineal

LEMMA FailLineal ==
    ASSUME FixInv, NEW j \in JobIds, NEW rev, NEW worker \in Workers \cup {None},
           worker \in {jobs[j].worker, None}, ReleaseFails(j, rev, worker), ReqsRead
    PROVE  Lineal
<1>1. /\ UNCHANGED rems
      /\ \/ UNCHANGED jobs
         \/ /\ Only(j)
            /\ jobs'[j].status = jobs[j].status /\ jobs'[j].cleanup = jobs[j].cleanup
            /\ jobs'[j].worker = worker /\ jobs'[j].from = jobs[j].from
  BY FailShape
<1>2. CASE UNCHANGED jobs
  BY <1>1, <1>2, QuietLineal
<1>3. CASE ~UNCHANGED jobs
  <2>1. RowsFollow /\ RunsAdded
    BY <1>1, <1>3, OneFollows DEF Follows, Unsettled, Only
  <2>2. QED
    BY <1>1, <2>1, SameSessions DEF Lineal
<1>4. QED
  BY <1>2, <1>3

LEMMA AcknowledgeLineal ==
    ASSUME FixInv, NEW w \in Workers, Acknowledge(w) PROVE Lineal
<1> DEFINE j == held[w].job
<1>1. /\ held[w].phase = "stopped" /\ UNCHANGED req
      /\ \/ UNCHANGED <<jobs, rems>>
         \/ CanRelease(j, jobs[j].rev) /\ Release(j)
         \/ ReleaseFails(j, jobs[j].rev, None)
  BY DEF Acknowledge
<1>2. j \in JobIds
  BY <1>1, HeldType
<1>3. QED
  BY <1>1, <1>2, SameReqs, QuietLineal, ReleaseLineal, FailLineal

LEMMA CleanupShape ==
    ASSUME FixInv, ReqsRight, NEW c \in Clients, CancelCleanup(c)
    PROVE  LET j == req[c].job
           IN  /\ j \in JobIds /\ ReqsRead /\ UNCHANGED <<scans, beat, claims, held>>
               /\ \/ /\ CanRelease(j, req[c].rev) /\ Release(j)
                     /\ jobs[j].worker = None
                  \/ /\ ReleaseFails(j, req[c].rev, jobs[j].worker)
                     /\ jobs[j].worker \in Workers \cup {None}
<1> DEFINE j == req[c].job
<1>1. /\ req[c].op = "cleanup" /\ req' = [req EXCEPT ![c] = NoReq]
      /\ UNCHANGED <<scans, beat, claims, held>>
      /\ \/ CanRelease(j, req[c].rev) /\ Release(j)
         \/ ReleaseFails(j, req[c].rev, jobs[j].worker)
  BY DEF CancelCleanup, EndReq
<1>2. j \in JobIds /\ jobs[j].worker \in Workers \cup {None}
  BY <1>1, ReqType DEF Rows
<1>3. ReqsRead
  BY <1>1 DEF ReqsRead, ReqRight, NoReq, FixInv, ReqsOK
<1>4. CanRelease(j, req[c].rev) => jobs[j].worker = None
  BY <1>1 DEF CanRelease, ReqsRight, ReqRight
<1>5. QED
  BY <1>1, <1>2, <1>3, <1>4

LEMMA CleanupLineal ==
    ASSUME FixInv, ReqsRight, NEW c \in Clients, CancelCleanup(c) PROVE Lineal
<1>1. QED
  BY CleanupShape, ReleaseLineal, FailLineal

LEMMA WriteLineal ==
    ASSUME FixInv, ReqsRight, NEW c \in Clients, CancelWrite(c) \/ ResumeWrite(c) PROVE Lineal
<1> DEFINE j == req[c].job
<1>1. j \in JobIds /\ UNCHANGED rems /\ ReqsRead
  BY CancelShape, ResumeShape DEF ReqsRead
<1>2. \/ UNCHANGED jobs
      \/ /\ Only(j) /\ jobs[j].status \notin Terminal /\ jobs'[j].worker \in {jobs[j].worker, None}
         /\ jobs'[j].from = jobs[j].from
  <2>1. \A st \in Paused : st \notin Terminal
    BY DEF Paused, Terminal
  <2>2. QED
    BY <2>1, CancelShape, ResumeShape
<1>3. CASE UNCHANGED jobs
  BY <1>1, <1>3, QuietLineal
<1>4. CASE ~UNCHANGED jobs
  <2>1. RowsFollow /\ RunsAdded
    BY <1>1, <1>2, <1>4, OneFollows DEF Follows, Unsettled, Only
  <2>2. QED
    BY <1>1, <2>1, SameSessions DEF Lineal
<1>5. QED
  BY <1>3, <1>4

LEMMA ReadLineal ==
    ASSUME FixInv, NEW c \in Clients, CancelRead(c) \/ ResumeRead(c) PROVE Lineal
<1>1. PICK j \in JobIds, op \in {"cancel", "cleanup", "resume"} :
        /\ SetReq(c, op, j, jobs[j].rev)
        /\ op = "cancel" => jobs[j].status \notin Terminal
        /\ op = "resume" => jobs[j].status \in Paused
        /\ op = "cleanup" => jobs[j].worker = None
  BY DEF CancelRead, ResumeRead
<1>2. UNCHANGED <<jobs, rems>>
  BY DEF CancelRead, ResumeRead
<1>3. jobs[j].rev <= jobs[j].rev
  BY RowType DEF FixInv
<1>4. ReqsRead
  BY <1>1, <1>2, <1>3 DEF ReqsRead, ReqRight, SetReq, FixInv, ReqsOK
<1>5. QED
  BY <1>2, <1>4, QuietLineal

LEMMA AcceptLineal ==
    ASSUME FixInv, NEW r \in RemIds, Accept(r) PROVE Lineal
<1>1. MayAccept(r) /\ UNCHANGED req
  BY AcceptShape
<1>2. CASE UNCHANGED <<jobs, rems>>
  BY <1>1, <1>2, SameReqs, QuietLineal
<1>3. CASE ~UNCHANGED <<jobs, rems>>
  <2>1. /\ DOMAIN jobs' = JobIds /\ DOMAIN rems' = RemIds
        /\ \A q \in RemIds \ {r} : rems'[q] = rems[q]
        /\ rems'[r].state = "frozen"
        /\ \A k \in JobIds :
             \/ jobs'[k] = jobs[k]
             \/ /\ jobs'[k].status = "succeeded" /\ jobs'[k].worker = jobs[k].worker /\ Wiped(k)
    BY <1>3, AcceptShape
  <2>2. rems[r].state # "discarded"
    BY <1>1 DEF MayAccept
  <2>3. RowsFollow /\ RunsAdded
    BY <2>1 DEF RowsFollow, RunsAdded, Follows, Unsettled, Terminal, Wiped
  <2>4. SessionsMoved
    BY <2>1, <2>2 DEF SessionsMoved
  <2>5. QED
    BY <1>1, <2>3, <2>4, SameReqs DEF Lineal
<1>4. QED
  BY <1>2, <1>3

LEMMA ManyLineal ==
    ASSUME FixInv, Reclaim \/ \E w \in Workers : SupersedeSiblings(w) PROVE Lineal
<1>1. DOMAIN jobs' = JobIds /\ UNCHANGED <<rems, req>>
  BY ReclaimShape, SupersedeShape
<1>2. ASSUME NEW k \in JobIds PROVE Follows(jobs[k], jobs'[k])
  <2>1. \/ jobs'[k] = jobs[k]
        \/ jobs[k].status \in Active /\ jobs'[k].worker = None /\ Wiped(k)
        \/ jobs'[k].status = "superseded" /\ jobs'[k].worker = jobs[k].worker /\ Wiped(k)
    BY ReclaimShape, SupersedeShape
  <2>2. QED
    BY <2>1 DEF Follows, Wiped, Unsettled, Active, Terminal
<1>3. RowsFollow /\ RunsAdded
  BY <1>1, <1>2 DEF RowsFollow, RunsAdded
<1>4. QED
  BY <1>1, <1>3, SameSessions, SameReqs DEF Lineal

(* The end of a run records its workspace or freezes its session.          *)
LEMMA EndLineal ==
    ASSUME FixInv, NEW w \in Workers, AfterRun(w) \/ Conclude(w) PROVE Lineal
<1> DEFINE r == jobs[held[w].job].rem
<1> DEFINE recorded == [rems[r] EXCEPT !.ws = held[w].ws]
<1> DEFINE frozen == [rems[r] EXCEPT !.state = "frozen"]
<1>1. /\ held[w].phase # "idle" /\ UNCHANGED <<jobs, req>>
      /\ \/ rems' = rems
         \/ rems[r].state = "open" /\ rems' = [rems EXCEPT ![r] = recorded]
         \/ rems[r].state = "open" /\ rems' = [rems EXCEPT ![r] = frozen]
  BY DEF AfterRun, Conclude
<1>2. r \in RemIds /\ rems[r] \in Sessions
  BY <1>1, HeldType, RowType DEF FixInv
<1>3. recorded.state = rems[r].state /\ frozen.state = "frozen"
  BY <1>2 DEF Sessions
<1> HIDE DEF recorded, frozen
<1>4. DOMAIN rems' = RemIds /\ \A q \in RemIds : \/ rems'[q].state = rems[q].state
                                                 \/ rems[q].state = "open" /\ rems'[q].state = "frozen"
  BY <1>1, <1>2, <1>3, Ids DEF FixInv
<1>5. SessionsMoved
  BY <1>4 DEF SessionsMoved
<1>6. QED
  BY <1>1, <1>5, SameRows, SameReqs DEF Lineal

LEMMA CreateLineal ==
    ASSUME FixInv, Lineage,
           (\E o \in Origins : CreateFix(o)) \/ (\E s \in DOMAIN scans : NextRunCreate(s))
    PROVE  Lineal
<1>1. ASSUME NEW o \in Origins, CreateFix(o) PROVE Lineal
  <2>1. Enqueue(o, 1, 0) /\ UNCHANGED req
    BY <1>1 DEF CreateFix
  <2>2. QED
    BY <2>1, SameReqs, EnqueueLineal
<1>2. ASSUME NEW s \in DOMAIN scans, NextRunCreate(s) PROVE Lineal
  <2> DEFINE j == scans[s].job
  <2> DEFINE o == rems[jobs[j].rem].origin
  <2>1. /\ UNCHANGED req
        /\ (MayFollow(j) /\ Enqueue(o, NextRun(j), j)) \/ UNCHANGED <<jobs, rems>>
    BY <1>2 DEF NextRunCreate
  <2>2. j \in JobIds
    BY DEF FixInv, ScansOK
  <2>3. o \in Origins /\ jobs[j].run \in Nat /\ j \in Nat
    <3>1. jobs[j] \in Rows /\ rems[jobs[j].rem] \in Sessions
      BY <2>2, RowType DEF FixInv
    <3>2. j \in Nat
      BY <2>2 DEF JobIds, FixInv, TablesOK
    <3>3. QED
      BY <3>1, <3>2 DEF Rows, Sessions
  <2>4. NextRun(j) \in Nat
    BY <2>3 DEF NextRun
  <2>5. QED
    BY <2>1, <2>2, <2>3, <2>4, SameReqs, EnqueueLineal, QuietLineal
<1>3. QED
  BY <1>1, <1>2

LEMMA NextLineal ==
    ASSUME FixInv, Homes, Lineage, [Next]_vars PROVE Lineal
<1>0. ReqsRight
  BY DEF Lineage
<1>1. ASSUME NEW w \in Workers, Fixer(w) PROVE Lineal
  <2>1. StartEngine(w) \/ Finish(w) => Lineal
    <3>1. StartEngine(w) \/ Finish(w) =>
            /\ held[w].phase # "idle" /\ UNCHANGED <<rems, req>>
            /\ Launched(w) \/ Refused(w)
      BY StartShape, FinishShape
    <3>2. QED
      BY <3>1, LaunchedLineal
  <2>2. QED
    BY <1>1, <2>1, ClaimLineal, AcknowledgeLineal, ManyLineal, EndLineal DEF Fixer
<1>2. ASSUME NEW w \in Workers, Heartbeat(w) \/ Crash(w) PROVE Lineal
  BY <1>2, QuietLineal, SameReqs DEF Heartbeat, Crash
<1>3. ASSUME NEW c \in Clients, CancelRead(c) \/ ResumeRead(c) \/ Request(c) PROVE Lineal
  BY <1>0, <1>3, ReadLineal, WriteLineal, CleanupLineal DEF Request
<1>4. ASSUME NEW s \in DOMAIN scans, Server(s) PROVE Lineal
  <2>1. EndScan(s) \/ NextRunCheck(s) => UNCHANGED <<jobs, rems, req>>
    BY DEF EndScan, NextRunCheck
  <2>2. QED
    BY <1>4, <2>1, SameReqs, QuietLineal, CreateLineal DEF Server
<1>5. ASSUME NEW j, Expire(j) \/ Suspend(j) \/ UNCHANGED vars PROVE Lineal
  <2>1. UNCHANGED <<jobs, rems, req>>
    BY <1>5 DEF Expire, Suspend, Age, vars
  <2>2. QED
    BY <2>1, SameReqs, QuietLineal
<1>6. QED
  BY <1>1, <1>2, <1>3, <1>4, <1>5, CreateLineal, AcceptLineal, ManyLineal DEF Next

LEMMA InitLineage == Init => Lineage
<1> SUFFICES ASSUME Init PROVE Lineage
  OBVIOUS
<1>1. JobIds = {} /\ RemIds = {}
  BY DEF Init, JobIds, RemIds
<1>2. NoReq.op = "none"
  BY DEF NoReq
<1>3. ReqsRight
  BY <1>2 DEF Init, ReqsRight, ReqRight
<1>4. QED
  BY <1>1, <1>3 DEF Lineage, OneUnsettled, SessionsOver, FollowsJob, FollowsSuccess

(* A follow-up run has a predecessor that succeeded or was superseded: the *)
(* cancellation that wins between the check and the insertion stops it     *)
(* (MaybeEnqueueNextRun, createFixJob).                                    *)
THEOREM FollowsSuccessHolds == Spec => []FollowsSuccess
<1>1. FixInv /\ Homes /\ Lineage /\ [Next]_vars => Lineage'
  BY NextFix, NextLineal, LineageKept
<1>2. Lineage => FollowsSuccess
  BY DEF Lineage
<1>3. QED
  BY <1>1, <1>2, InitLineage, FixInvariant, HomesInvariant, PTL DEF Spec

-----------------------------------------------------------------------------
(* Checkouts                                                               *)

(* The child scan of a session reads a workspace of that session.          *)
ScansHomed(home) == \A s \in DOMAIN scans : scans[s].ws \in Made(home, scans[s].rem)

Homed == \E home \in [Nat -> Nat] : Owned(home) /\ ScansHomed(home)

(* A child scan that begins reads the workspace of its open session.       *)
ScansCarried ==
  \A s \in DOMAIN scans' :
    \/ /\ s \in DOMAIN scans /\ scans'[s].ws = scans[s].ws /\ scans'[s].rem = scans[s].rem
       /\ scans'[s].status = "pending" => scans[s].status = "pending"
    \/ /\ scans'[s].rem \in RemIds /\ rems[scans'[s].rem].state = "open"
       /\ scans'[s].ws = rems[scans'[s].rem].ws

LEMMA SameScans == ASSUME UNCHANGED scans PROVE ScansCarried
  BY DEF ScansCarried

LEMMA ServerScans ==
    ASSUME FixInv, NEW s \in DOMAIN scans, Server(s) PROVE ScansCarried
<1>1. PICK st \in {"checking", "failed", "creating", "over"} : SetScan(s, st)
  BY DEF Server, EndScan, NextRunCheck, NextRunCreate
<1> DEFINE row == [scans[s] EXCEPT !.status = st]
<1>2. scans[s] \in ScanRows
  BY DEF FixInv, ScansOK
<1>3. row.ws = scans[s].ws /\ row.rem = scans[s].rem /\ row.status = st
  BY <1>2 DEF ScanRows
<1> HIDE DEF row
<1>4. scans' = [scans EXCEPT ![s] = row]
  BY <1>1 DEF SetScan, row
<1>5. DOMAIN scans' = DOMAIN scans /\ scans'[s] = row /\ \A q \in DOMAIN scans \ {s} : scans'[q] = scans[q]
  BY <1>4
<1>6. QED
  BY <1>3, <1>5 DEF ScansCarried

LEMMA ConcludeScans ==
    ASSUME FixInv, NEW w \in Workers, Conclude(w) PROVE ScansCarried
<1> DEFINE r == jobs[held[w].job].rem
<1> DEFINE child == [rem |-> r, ws |-> held[w].ws, job |-> held[w].job, status |-> "pending"]
<1>1. /\ held[w].phase # "idle"
      /\ \/ scans' = scans
         \/ MayScan(r, held[w].ws) /\ scans' = Append(scans, child)
  BY DEF Conclude
<1>2. CASE scans' = scans
  BY <1>2, SameScans
<1>3. CASE MayScan(r, held[w].ws) /\ scans' = Append(scans, child)
  <2>1. r \in RemIds /\ rems[r].state = "open" /\ rems[r].ws = held[w].ws
    BY <1>1, <1>3, HeldType DEF MayScan
  <2>2. child.rem = r /\ child.ws = held[w].ws
    OBVIOUS
  <2> HIDE DEF child
  <2>3. scans \in Seq(ScanRows)
    BY DEF FixInv, ScansOK
  <2>4. DOMAIN scans' = DOMAIN scans \cup {Len(scans) + 1} /\ scans'[Len(scans) + 1] = child
        /\ \A q \in DOMAIN scans : scans'[q] = scans[q]
    BY <1>3, <2>3
  <2>5. QED
    BY <2>1, <2>2, <2>4 DEF ScansCarried
<1>4. QED
  BY <1>1, <1>2, <1>3

LEMMA NextScans == ASSUME FixInv, [Next]_vars PROVE ScansCarried
<1>1. ASSUME NEW w \in Workers, Fixer(w) \/ Heartbeat(w) \/ Crash(w), ~Conclude(w) PROVE UNCHANGED scans
  BY <1>1 DEF Fixer, Claim, StartEngine, Finish, Acknowledge, AfterRun, SupersedeSiblings, Heartbeat, Crash
<1>2. ASSUME NEW c \in Clients, CancelRead(c) \/ ResumeRead(c) \/ Request(c) PROVE UNCHANGED scans
  BY <1>2 DEF CancelRead, ResumeRead, Request, CancelWrite, CancelCleanup, ResumeWrite
<1>3. ASSUME NEW x, CreateFix(x) \/ Accept(x) \/ Expire(x) \/ Suspend(x) \/ Reclaim \/ UNCHANGED vars
      PROVE  UNCHANGED scans
  BY <1>3 DEF CreateFix, Accept, Expire, Suspend, Age, Reclaim, vars
<1>4. QED
  BY <1>1, <1>2, <1>3, SameScans, ServerScans, ConcludeScans DEF Next

LEMMA NextHomed == ASSUME FixInv, Homed, [Next]_vars PROVE Homed'
<1>1. PICK home \in [Nat -> Nat] : Owned(home) /\ ScansHomed(home)
  BY DEF Homed
<1>2. ASSUME NEW new \in [Nat -> Nat], \A q : Made(home, q) \subseteq Made(new, q)'
      PROVE  ScansHomed(new)'
  <2>1. ASSUME NEW s \in DOMAIN scans' PROVE scans'[s].ws \in Made(home, scans'[s].rem)
    BY <1>1, NextScans DEF ScansCarried, ScansHomed, Owned
  <2>2. QED
    BY <1>2, <2>1 DEF ScansHomed
<1>3. ASSUME FixInv', Step PROVE Homed'
  <2>1. Owned(home)'
    BY <1>1, <1>3, StepOwned
  <2>2. \A q : Made(home, q) \subseteq Made(home, q)'
    BY <1>3 DEF Made, Step, Traced
  <2>3. QED
    BY <1>2, <2>1, <2>2 DEF Homed
<1>4. ASSUME NEW w \in Workers, Claim(w) PROVE Homed'
  BY <1>1, <1>2, <1>4, ClaimOwned DEF Homed
<1>5. QED
  BY <1>3, <1>4, NextSteps

-----------------------------------------------------------------------------
(* Who still needs a workspace: a job that can run or be resumed, a child  *)
(* scan, an open session, and a worker about to record its workspace.      *)
Needs(x) ==
  \/ \E j \in JobIds : jobs[j].status \notin Terminal /\ jobs[j].ws = x
  \/ \E s \in DOMAIN scans : scans[s].status = "pending" /\ scans[s].ws = x
  \/ \E r \in RemIds : rems[r].state = "open" /\ rems[r].ws = x
  \/ \E w \in Workers : /\ held[w].phase = "done" /\ held[w].ws = x
                        /\ rems[jobs[held[w].job].rem].state = "open"

There == checkouts \cup lost \cup {0}

NeededThere == \A x : Needs(x) => x \in There

(* Where a step takes a workspace from.                                    *)
RowsNamed == \A j \in JobIds : jobs'[j].ws \in {0, jobs[j].ws} \cup checkouts'

FreshNamed ==
  \A j \in DOMAIN jobs' \ JobIds :
    jobs'[j].ws = 0 \/ (jobs'[j].rem \in RemIds /\ jobs'[j].ws = rems[jobs'[j].rem].ws)

SessionsNamed ==
  \A r \in DOMAIN rems' :
    \/ rems'[r].ws = 0
    \/ r \in RemIds /\ rems'[r].ws = rems[r].ws
    \/ \E w \in Workers : /\ held[w].phase = "done" /\ jobs[held[w].job].rem = r
                          /\ rems'[r].ws = held[w].ws

HeldNamed ==
  \A w \in Workers : held'[w].phase = "done" =>
    \/ held'[w] = held[w]
    \/ \E j \in JobIds : /\ jobs[j].status \notin Terminal /\ held'[w].ws = jobs[j].ws

Named == RowsNamed /\ FreshNamed /\ SessionsNamed /\ HeldNamed

(* What a step removes, nobody needs.                                      *)
Kept == \A x \in There : x \in There' \/ ~Needs(x)'

LEMMA NeedsCarried ==
    ASSUME FixInv, FixInv', Advanced, Lineal, ScansCarried, Named, NEW x, Needs(x)'
    PROVE  Needs(x) \/ x = 0 \/ x \in checkouts'
<1>1. /\ JobIds = DOMAIN jobs /\ JobIds' = DOMAIN jobs' /\ RemIds = DOMAIN rems /\ RemIds' = DOMAIN rems'
      /\ JobIds \subseteq JobIds' /\ RemIds \subseteq RemIds'
  BY Ids DEF FixInv, Advanced, JobsKept, RemsKept, JobIds, RemIds
<1>2. \A j \in JobIds : Later(jobs[j], jobs'[j])
  BY DEF Advanced, JobsKept
<1>3. \A r \in RemIds : rems'[r].state = "open" => rems[r].state = "open"
  BY DEF Lineal, SessionsMoved
<1>4. CASE \E j \in JobIds' : jobs'[j].status \notin Terminal /\ jobs'[j].ws = x
  <2>1. PICK j \in JobIds' : jobs'[j].status \notin Terminal /\ jobs'[j].ws = x
    BY <1>4
  <2>2. CASE j \in JobIds
    <3>1. jobs[j].status \notin Terminal /\ x \in {0, jobs[j].ws} \cup checkouts'
      BY <1>2, <2>1, <2>2 DEF Later, Named, RowsNamed
    <3>2. QED
      BY <2>2, <3>1 DEF Needs
  <2>3. CASE j \notin JobIds
    <3>1. x = 0 \/ (jobs'[j].rem \in RemIds /\ x = rems[jobs'[j].rem].ws)
      BY <1>1, <2>1, <2>3 DEF Named, FreshNamed
    <3>2. rems'[jobs'[j].rem].state = "open"
      BY <1>1, <2>1, <2>3 DEF Lineal, RunsAdded
    <3>3. QED
      BY <1>3, <3>1, <3>2 DEF Needs
  <2>4. QED
    BY <2>2, <2>3
<1>5. CASE \E s \in DOMAIN scans' : scans'[s].status = "pending" /\ scans'[s].ws = x
  BY <1>5 DEF ScansCarried, Needs
<1>6. CASE \E r \in RemIds' : rems'[r].state = "open" /\ rems'[r].ws = x
  <2>1. PICK r \in RemIds' : rems'[r].state = "open" /\ rems'[r].ws = x
    BY <1>6
  <2>2. CASE r \in RemIds /\ x = rems[r].ws
    BY <1>3, <2>1, <2>2 DEF Needs
  <2>3. CASE \E w \in Workers : held[w].phase = "done" /\ jobs[held[w].job].rem = r /\ x = held[w].ws
    <3>1. PICK w \in Workers : held[w].phase = "done" /\ jobs[held[w].job].rem = r /\ x = held[w].ws
      BY <2>3
    <3>2. r \in RemIds
      BY <3>1, HeldType
    <3>3. QED
      BY <1>3, <2>1, <3>1, <3>2 DEF Needs
  <2>4. QED
    BY <1>1, <2>1, <2>2, <2>3 DEF Named, SessionsNamed
<1>7. CASE \E w \in Workers : /\ held'[w].phase = "done" /\ held'[w].ws = x
                              /\ rems'[jobs'[held'[w].job].rem].state = "open"
  <2>1. PICK w \in Workers : /\ held'[w].phase = "done" /\ held'[w].ws = x
                             /\ rems'[jobs'[held'[w].job].rem].state = "open"
    BY <1>7
  <2>2. CASE held'[w] = held[w]
    <3>1. held[w].job \in JobIds /\ jobs[held[w].job].rem \in RemIds
      BY <2>1, <2>2, HeldType
    <3>2. jobs'[held[w].job].rem = jobs[held[w].job].rem
      BY <1>2, <3>1 DEF Later
    <3>3. QED
      BY <1>3, <2>1, <2>2, <3>1, <3>2 DEF Needs
  <2>3. CASE held'[w] # held[w]
    BY <2>1, <2>3 DEF Named, HeldNamed, Needs
  <2>4. QED
    BY <2>2, <2>3
<1>8. QED
  BY <1>4, <1>5, <1>6, <1>7 DEF Needs

LEMMA NeededKept ==
    ASSUME FixInv, FixInv', Advanced, Lineal, ScansCarried, Named, Kept, NeededThere
    PROVE  NeededThere'
<1> SUFFICES ASSUME NEW x, Needs(x)' PROVE x \in There'
  BY DEF NeededThere
<1>1. CASE x = 0 \/ x \in checkouts'
  BY <1>1 DEF There
<1>2. CASE Needs(x)
  BY <1>2 DEF NeededThere, Kept
<1>3. QED
  BY <1>1, <1>2, NeedsCarried

-----------------------------------------------------------------------------
(* What the steps do to the memory of the workers                          *)

(* No engine starts or returns.                                            *)
HeldStays == \A w \in Workers : held'[w].phase \in {"engine", "done"} => held'[w] = held[w]

LEMMA SetHeld ==
    ASSUME FixInv, NEW w \in Workers, NEW g, g.phase \notin {"engine", "done"},
           held' = [held EXCEPT ![w] = g]
    PROVE  HeldStays
  BY DEF HeldStays, FixInv

LEMMA OneHeld ==
    ASSUME NEW w \in Workers, OthersHeld(w), held'[w].phase \notin {"engine", "done"}
    PROVE  HeldStays
  BY DEF HeldStays, OthersHeld

LEMMA PhaseHeld ==
    ASSUME FixInv, NEW w \in Workers, NEW p, p \notin {"engine", "done"},
           held' = [held EXCEPT ![w].phase = p]
    PROVE  HeldStays
<1> DEFINE g == [held[w] EXCEPT !.phase = p]
<1>1. g.phase = p
  BY DEF FixInv, Mem
<1>2. held' = [held EXCEPT ![w] = g]
  OBVIOUS
<1> HIDE DEF g
<1>3. QED
  BY <1>1, <1>2, SetHeld

LEMMA WorkerHeld ==
    ASSUME FixInv, NEW w \in Workers, Fixer(w) \/ Heartbeat(w) \/ Crash(w),
           ~StartEngine(w), ~Finish(w)
    PROVE  HeldStays
<1>0. Idle.phase = "idle"
  BY IdleSound
<1>1. CASE Claim(w)
  <2>1. OthersHeld(w) /\ held'[w].phase = "claimed"
    BY <1>1, ClaimShape DEF Claims, OthersHeld
  <2>2. QED
    BY <2>1, OneHeld
<1>2. CASE SupersedeSiblings(w)
  BY <1>2, SupersedeShape, OneHeld
<1>3. CASE Acknowledge(w) \/ Conclude(w) \/ Crash(w)
  <2>1. held' = [held EXCEPT ![w] = Idle]
    BY <1>3 DEF Acknowledge, Conclude, Crash
  <2>2. QED
    BY <1>0, <2>1, SetHeld
<1>4. CASE AfterRun(w)
  <2>1. held' = [held EXCEPT ![w] = Idle] \/ held' = [held EXCEPT ![w].phase = "saved"]
    BY <1>4 DEF AfterRun
  <2>2. QED
    BY <1>0, <2>1, SetHeld, PhaseHeld
<1>5. CASE Heartbeat(w)
  <2>1. UNCHANGED held \/ held' = [held EXCEPT ![w].phase = "stopped"]
    BY <1>5 DEF Heartbeat
  <2>2. QED
    BY <2>1, PhaseHeld DEF HeldStays
<1>6. QED
  BY <1>1, <1>2, <1>3, <1>4, <1>5 DEF Fixer

LEMMA NextHeld ==
    ASSUME FixInv, [Next]_vars
    PROVE  HeldStays \/ \E w \in Workers : StartEngine(w) \/ Finish(w)
<1>1. ASSUME NEW c \in Clients, CancelRead(c) \/ ResumeRead(c) \/ Request(c) PROVE UNCHANGED held
  BY <1>1 DEF CancelRead, ResumeRead, Request, CancelWrite, CancelCleanup, ResumeWrite
<1>2. ASSUME NEW s \in DOMAIN scans, Server(s) PROVE UNCHANGED held
  BY <1>2 DEF Server, EndScan, NextRunCheck, NextRunCreate
<1>3. ASSUME NEW x, CreateFix(x) \/ Accept(x) \/ Expire(x) \/ Suspend(x) \/ Reclaim \/ UNCHANGED vars
      PROVE  UNCHANGED held
  BY <1>3 DEF CreateFix, Accept, Expire, Suspend, Age, Reclaim, vars
<1>4. UNCHANGED held => HeldStays
  BY DEF HeldStays
<1>5. QED
  BY <1>1, <1>2, <1>3, <1>4, WorkerHeld DEF Next

-----------------------------------------------------------------------------
(* Where each step takes its workspaces from                               *)

LEMMA StaysNamed == ASSUME HeldStays PROVE HeldNamed
  BY DEF HeldStays, HeldNamed

LEMMA SameNamed == ASSUME FixInv, UNCHANGED <<jobs, rems>> PROVE RowsNamed /\ FreshNamed /\ SessionsNamed
  BY Ids DEF RowsNamed, FreshNamed, SessionsNamed, FixInv

LEMMA SameRemsNamed == ASSUME FixInv, UNCHANGED rems PROVE SessionsNamed
  BY Ids DEF SessionsNamed, FixInv

LEMMA WrittenNamed ==
    ASSUME FixInv, DOMAIN jobs' = JobIds, \A j \in JobIds : jobs'[j].ws \in {0, jobs[j].ws} \cup checkouts'
    PROVE  RowsNamed /\ FreshNamed
  BY DEF RowsNamed, FreshNamed

LEMMA EnqueueNamed ==
    ASSUME FixInv, NEW o \in Origins, NEW run \in Nat, NEW from \in Nat, Enqueue(o, run, from)
    PROVE  RowsNamed /\ FreshNamed /\ SessionsNamed
<1>1. TablesOK
  BY DEF FixInv
<1>2. QED
  BY <1>1, EnqueueAdvances DEF RowsNamed, FreshNamed, SessionsNamed

LEMMA CreateNamed ==
    ASSUME FixInv, (\E o \in Origins : CreateFix(o)) \/ (\E s \in DOMAIN scans : NextRunCreate(s))
    PROVE  RowsNamed /\ FreshNamed /\ SessionsNamed
<1>1. ASSUME NEW o \in Origins, CreateFix(o) PROVE RowsNamed /\ FreshNamed /\ SessionsNamed
  <2>1. Enqueue(o, 1, 0)
    BY <1>1 DEF CreateFix
  <2>2. QED
    BY <2>1, EnqueueNamed
<1>2. ASSUME NEW s \in DOMAIN scans, NextRunCreate(s) PROVE RowsNamed /\ FreshNamed /\ SessionsNamed
  <2> DEFINE j == scans[s].job
  <2> DEFINE o == rems[jobs[j].rem].origin
  <2>1. (MayFollow(j) /\ Enqueue(o, NextRun(j), j)) \/ UNCHANGED <<jobs, rems>>
    BY <1>2 DEF NextRunCreate
  <2>2. j \in JobIds
    BY DEF FixInv, ScansOK
  <2>3. o \in Origins /\ jobs[j].run \in Nat /\ j \in Nat
    <3>1. jobs[j] \in Rows /\ rems[jobs[j].rem] \in Sessions
      BY <2>2, RowType DEF FixInv
    <3>2. j \in Nat
      BY <2>2 DEF JobIds, FixInv, TablesOK
    <3>3. QED
      BY <3>1, <3>2 DEF Rows, Sessions
  <2>4. NextRun(j) \in Nat
    BY <2>3 DEF NextRun
  <2>5. QED
    BY <2>1, <2>3, <2>4, EnqueueNamed, SameNamed
<1>3. QED
  BY <1>1, <1>2

LEMMA ReleaseNamed ==
    ASSUME FixInv, NEW j \in JobIds, Release(j) PROVE RowsNamed /\ FreshNamed /\ SessionsNamed
<1> DEFINE r == jobs[j].rem
<1>1. /\ Only(j) /\ jobs'[j].ws = 0
      /\ DOMAIN rems' = RemIds /\ (\A q \in RemIds \ {r} : rems'[q] = rems[q])
      /\ rems'[r].ws \in {0, rems[r].ws}
  BY ReleaseShape
<1>2. RowsNamed /\ FreshNamed
  BY <1>1, WrittenNamed DEF Only
<1>3. SessionsNamed
  BY <1>1 DEF SessionsNamed
<1>4. QED
  BY <1>2, <1>3

LEMMA FailNamed ==
    ASSUME FixInv, NEW j \in JobIds, NEW rev, NEW worker \in Workers \cup {None},
           ReleaseFails(j, rev, worker)
    PROVE  RowsNamed /\ FreshNamed /\ SessionsNamed
<1>1. UNCHANGED rems /\ (UNCHANGED jobs \/ (Only(j) /\ jobs'[j].ws = jobs[j].ws))
  BY FailShape
<1>2. CASE UNCHANGED jobs
  BY <1>1, <1>2, SameNamed
<1>3. CASE Only(j) /\ jobs'[j].ws = jobs[j].ws
  BY <1>1, <1>3, WrittenNamed, SameRemsNamed DEF Only
<1>4. QED
  BY <1>1, <1>2, <1>3

LEMMA AcceptNamed ==
    ASSUME FixInv, NEW r \in RemIds, Accept(r) PROVE RowsNamed /\ FreshNamed /\ SessionsNamed
<1>1. CASE UNCHANGED <<jobs, rems>>
  BY <1>1, SameNamed
<1>2. CASE ~UNCHANGED <<jobs, rems>>
  <2>1. /\ DOMAIN jobs' = JobIds /\ DOMAIN rems' = RemIds
        /\ \A q \in RemIds \ {r} : rems'[q] = rems[q]
        /\ rems'[r].ws = 0
        /\ \A k \in JobIds : jobs'[k] = jobs[k] \/ Wiped(k)
    BY <1>2, AcceptShape
  <2>2. RowsNamed /\ FreshNamed
    BY <2>1, WrittenNamed DEF Wiped
  <2>3. SessionsNamed
    BY <2>1 DEF SessionsNamed
  <2>4. QED
    BY <2>2, <2>3
<1>3. QED
  BY <1>1, <1>2

LEMMA EndNamed ==
    ASSUME FixInv, NEW w \in Workers, AfterRun(w) \/ Conclude(w)
    PROVE  RowsNamed /\ FreshNamed /\ SessionsNamed
<1> DEFINE r == jobs[held[w].job].rem
<1> DEFINE recorded == [rems[r] EXCEPT !.ws = held[w].ws]
<1> DEFINE frozen == [rems[r] EXCEPT !.state = "frozen"]
<1>1. /\ held[w].phase # "idle" /\ UNCHANGED jobs
      /\ \/ rems' = rems
         \/ held[w].phase = "done" /\ rems' = [rems EXCEPT ![r] = recorded]
         \/ rems' = [rems EXCEPT ![r] = frozen]
  BY DEF AfterRun, Conclude
<1>2. r \in RemIds /\ rems[r] \in Sessions
  BY <1>1, HeldType, RowType DEF FixInv
<1>3. recorded.ws = held[w].ws /\ frozen.ws = rems[r].ws
  BY <1>2 DEF Sessions
<1> HIDE DEF recorded, frozen
<1>4. DOMAIN rems' = RemIds /\ \A q \in RemIds : \/ rems'[q].ws = rems[q].ws
                                                 \/ held[w].phase = "done" /\ q = r /\ rems'[q].ws = held[w].ws
  BY <1>1, <1>2, <1>3, Ids DEF FixInv
<1>5. SessionsNamed
  BY <1>4 DEF SessionsNamed
<1>6. RowsNamed /\ FreshNamed
  BY <1>1, Ids DEF RowsNamed, FreshNamed, FixInv
<1>7. QED
  BY <1>5, <1>6

LEMMA WorkerNamed ==
    ASSUME FixInv, NEW w \in Workers, Fixer(w) \/ Heartbeat(w) \/ Crash(w)
    PROVE  RowsNamed /\ FreshNamed /\ SessionsNamed
<1>1. CASE Claim(w)
  <2>1. PICK j \in JobIds : Claims(w, j)
    BY <1>1, ClaimShape
  <2>2. DOMAIN jobs' = JobIds /\ UNCHANGED rems /\ \A k \in JobIds : jobs'[k].ws = jobs[k].ws
    BY <2>1 DEF Claims
  <2>3. QED
    BY <2>2, WrittenNamed, SameRemsNamed
<1>2. CASE StartEngine(w) \/ Finish(w)
  <2> DEFINE j == held[w].job
  <2>1. UNCHANGED rems /\ (Launched(w) \/ Refused(w)) /\ held[w].phase # "idle"
    BY <1>2, StartShape, FinishShape
  <2>2. CASE Refused(w)
    BY <2>1, <2>2, SameNamed DEF Refused
  <2>3. CASE ~Refused(w)
    <3>1. jobs'[j].ws = jobs[j].ws \/ jobs'[j].ws \in checkouts'
      BY <1>2, <2>3, StartShape, FinishShape
    <3>2. j \in JobIds
      BY <2>1, HeldType
    <3>3. DOMAIN jobs' = JobIds /\ \A k \in JobIds \ {j} : jobs'[k] = jobs[k]
      BY <2>1, <2>3 DEF Launched
    <3>4. QED
      BY <2>1, <3>1, <3>3, WrittenNamed, SameRemsNamed
  <2>4. QED
    BY <2>2, <2>3
<1>3. CASE Acknowledge(w)
  <2> DEFINE j == held[w].job
  <2>1. /\ held[w].phase = "stopped"
        /\ UNCHANGED <<jobs, rems>> \/ Release(j) \/ ReleaseFails(j, jobs[j].rev, None)
    BY <1>3 DEF Acknowledge
  <2>2. j \in JobIds
    BY <2>1, HeldType
  <2>3. QED
    BY <2>1, <2>2, SameNamed, ReleaseNamed, FailNamed
<1>4. CASE SupersedeSiblings(w)
  <2>1. DOMAIN jobs' = JobIds /\ UNCHANGED rems /\ \A k \in JobIds : jobs'[k] = jobs[k] \/ Wiped(k)
    BY <1>4, SupersedeShape
  <2>2. QED
    BY <2>1, WrittenNamed, SameRemsNamed DEF Wiped
<1>5. CASE Heartbeat(w) \/ Crash(w)
  BY <1>5, SameNamed DEF Heartbeat, Crash
<1>6. QED
  BY <1>1, <1>2, <1>3, <1>4, <1>5, EndNamed DEF Fixer

LEMMA RequestNamed ==
    ASSUME FixInv, ReqsRight, NEW c \in Clients, CancelRead(c) \/ ResumeRead(c) \/ Request(c)
    PROVE  RowsNamed /\ FreshNamed /\ SessionsNamed
<1> DEFINE j == req[c].job
<1>1. CASE CancelRead(c) \/ ResumeRead(c)
  BY <1>1, SameNamed DEF CancelRead, ResumeRead
<1>2. CASE CancelWrite(c) \/ ResumeWrite(c)
  <2>1. UNCHANGED rems /\ (UNCHANGED jobs \/ (Only(j) /\ jobs'[j].ws = jobs[j].ws))
    BY <1>2, CancelShape, ResumeShape
  <2>2. CASE UNCHANGED jobs
    BY <2>1, <2>2, SameNamed
  <2>3. CASE Only(j) /\ jobs'[j].ws = jobs[j].ws
    BY <2>1, <2>3, WrittenNamed, SameRemsNamed DEF Only
  <2>4. QED
    BY <2>1, <2>2, <2>3
<1>3. CASE CancelCleanup(c)
  BY <1>3, CleanupShape, ReleaseNamed, FailNamed
<1>4. QED
  BY <1>1, <1>2, <1>3 DEF Request

LEMMA ReclaimNamed ==
    ASSUME FixInv, Reclaim PROVE RowsNamed /\ FreshNamed /\ SessionsNamed
<1>1. DOMAIN jobs' = JobIds /\ UNCHANGED rems /\ \A k \in JobIds : jobs'[k] = jobs[k] \/ Wiped(k)
  BY ReclaimShape
<1>2. QED
  BY <1>1, WrittenNamed, SameRemsNamed DEF Wiped

LEMMA NextHeldNamed == ASSUME FixInv, [Next]_vars PROVE HeldNamed
<1>1. ASSUME NEW w \in Workers, StartEngine(w) \/ Finish(w) PROVE HeldNamed
  <2> DEFINE j == held[w].job
  <2>1. OthersHeld(w) /\ held[w].phase # "idle"
    BY <1>1, StartShape, FinishShape
  <2>2. \/ held'[w].phase # "done"
        \/ Launched(w) /\ held'[w].ws = jobs[j].ws
    BY <1>1, StartShape, FinishShape DEF Refused
  <2>3. j \in JobIds
    BY <2>1, HeldType
  <2>4. Launched(w) => jobs[j].status \notin Terminal
    BY DEF Launched, Active, Terminal
  <2>5. QED
    BY <2>1, <2>2, <2>3, <2>4 DEF HeldNamed, OthersHeld
<1>2. QED
  BY <1>1, NextHeld, StaysNamed

LEMMA NextNamed == ASSUME FixInv, ReqsRight, [Next]_vars PROVE Named
<1>1. ASSUME NEW s \in DOMAIN scans, Server(s) PROVE RowsNamed /\ FreshNamed /\ SessionsNamed
  <2>1. EndScan(s) \/ NextRunCheck(s) => UNCHANGED <<jobs, rems>>
    BY DEF EndScan, NextRunCheck
  <2>2. QED
    BY <1>1, <2>1, SameNamed, CreateNamed DEF Server
<1>2. ASSUME NEW j, Expire(j) \/ Suspend(j) \/ UNCHANGED vars PROVE RowsNamed /\ FreshNamed /\ SessionsNamed
  <2>1. UNCHANGED <<jobs, rems>>
    BY <1>2 DEF Expire, Suspend, Age, vars
  <2>2. QED
    BY <2>1, SameNamed
<1>3. RowsNamed /\ FreshNamed /\ SessionsNamed
  BY <1>1, <1>2, CreateNamed, WorkerNamed, RequestNamed, AcceptNamed, ReclaimNamed DEF Next
<1>4. QED
  BY <1>3, NextHeldNamed DEF Named

-----------------------------------------------------------------------------
(* What is removed, nobody needs                                           *)

(* The workspace of a session that is over or handed off.                  *)
LEMMA GoneFree ==
    ASSUME FixInv, FixInv', Advanced, NEW home, Owned(home), ScansHomed(home),
           NEW r \in RemIds, NEW x, x # 0, home[x] = r,
           DOMAIN rems' = RemIds, \A q \in RemIds \ {r} : rems'[q] = rems[q], rems'[r].state # "open",
           UNCHANGED scans, ~ScanOn(r), HeldStays, DOMAIN jobs' = JobIds,
           \A k \in JobIds : jobs'[k].status \notin Terminal => jobs'[k].ws # x
    PROVE  ~Needs(x)'
<1>1. JobIds' = JobIds /\ RemIds' = RemIds
  BY DEF FixInv, TablesOK, JobIds, RemIds
<1>2. \A q : x \in Made(home, q) => q = r
  BY DEF Made
<1>3. ~ \E j \in JobIds' : jobs'[j].status \notin Terminal /\ jobs'[j].ws = x
  BY <1>1
<1>4. ~ \E s \in DOMAIN scans' : scans'[s].status = "pending" /\ scans'[s].ws = x
  <2>1. ASSUME NEW s \in DOMAIN scans, scans[s].status = "pending", scans[s].ws = x PROVE FALSE
    <3>1. scans[s].rem = r
      BY <1>2, <2>1 DEF ScansHomed
    <3>2. QED
      BY <2>1, <3>1 DEF ScanOn
  <2>2. QED
    BY <2>1
<1>5. ~ \E q \in RemIds' : rems'[q].state = "open" /\ rems'[q].ws = x
  BY <1>1, <1>2 DEF Owned
<1>6. ~ \E w \in Workers : /\ held'[w].phase = "done" /\ held'[w].ws = x
                           /\ rems'[jobs'[held'[w].job].rem].state = "open"
  <2> SUFFICES ASSUME NEW w \in Workers, held'[w].phase = "done", held'[w].ws = x,
                      rems'[jobs'[held'[w].job].rem].state = "open"
               PROVE  FALSE
    OBVIOUS
  <2>1. held'[w] = held[w]
    BY DEF HeldStays
  <2>2. held[w].job \in JobIds
    BY <2>1, HeldType
  <2>3. jobs[held[w].job].rem = r
    BY <1>2, <2>1 DEF Owned
  <2>4. jobs'[held[w].job].rem = r
    BY <2>2, <2>3 DEF Advanced, JobsKept, Later
  <2>5. QED
    BY <2>1, <2>4
<1>7. QED
  BY <1>3, <1>4, <1>5, <1>6 DEF Needs

LEMMA ReleaseKept ==
    ASSUME FixInv, FixInv', Advanced, Homed, NEW j \in JobIds, NEW rev, CanRelease(j, rev), Release(j),
           UNCHANGED scans, HeldStays
    PROVE  Kept
<1> DEFINE r == jobs[j].rem
<1>1. PICK home \in [Nat -> Nat] : Owned(home) /\ ScansHomed(home)
  BY DEF Homed
<1>2. /\ checkouts' = checkouts \ {jobs[j].ws} /\ UNCHANGED lost
      /\ Only(j) /\ jobs'[j].ws = 0
      /\ DOMAIN rems' = RemIds /\ (\A q \in RemIds \ {r} : rems'[q] = rems[q])
      /\ rems'[r].state = IF rems[r].state = "open" THEN "discarded" ELSE rems[r].state
  BY ReleaseShape
<1>3. rems'[r].state # "open"
  BY <1>2
<1>4. r \in RemIds
  BY RowType DEF FixInv
<1>5. CASE jobs[j].ws = 0
  BY <1>2, <1>5 DEF Kept, There
<1>6. CASE jobs[j].ws # 0
  <2>0. PICK x : x = jobs[j].ws
    OBVIOUS
  <2>1. home[x] = r
    BY <1>1, <1>6, <2>0 DEF Owned, Made
  <2>2. ASSUME NEW k \in JobIds, jobs'[k].status \notin Terminal, jobs'[k].ws = x PROVE FALSE
    <3>1. k # j /\ jobs'[k] = jobs[k]
      BY <1>2, <1>6, <2>0, <2>2 DEF Only
    <3>2. jobs[k].status \notin Busy \cup Paused
      BY <1>6, <2>0, <2>2, <3>1 DEF CanRelease, Shares
    <3>3. jobs[k].status \in Statuses
      BY RowType DEF FixInv
    <3>4. QED
      BY <2>2, <3>1, <3>2, <3>3 DEF Statuses
  <2>3. ~ScanOn(r)
    BY DEF CanRelease
  <2>4. ~Needs(x)'
    <3>1. DOMAIN jobs' = JobIds /\ x # 0
      BY <1>2, <1>6, <2>0 DEF Only
    <3> HIDE DEF r
    <3>2. QED
      BY <1>1, <1>2, <1>3, <1>4, <2>1, <2>2, <2>3, <3>1, GoneFree
  <2>5. QED
    BY <1>2, <2>0, <2>4 DEF Kept, There
<1>7. QED
  BY <1>5, <1>6

LEMMA AcceptKept ==
    ASSUME FixInv, FixInv', Advanced, Homed, NEW r \in RemIds, Accept(r) PROVE Kept
<1>1. PICK home \in [Nat -> Nat] : Owned(home) /\ ScansHomed(home)
  BY DEF Homed
<1>2. CASE checkouts \cup lost \subseteq checkouts' \cup lost' \cup {0}
  BY <1>2 DEF Kept, There
<1>3. CASE ~(checkouts \cup lost \subseteq checkouts' \cup lost' \cup {0})
  <2>0. PICK x : x = rems[r].ws
    OBVIOUS
  <2>1. /\ MayAccept(r) /\ UNCHANGED <<scans, held>>
        /\ checkouts' = checkouts \ {rems[r].ws} /\ UNCHANGED lost
        /\ DOMAIN jobs' = JobIds /\ DOMAIN rems' = RemIds
        /\ \A q \in RemIds \ {r} : rems'[q] = rems[q]
        /\ rems'[r].state = "frozen"
        /\ \A k \in JobIds :
             \/ /\ jobs'[k] = jobs[k]
                /\ jobs[k].rem # r \/ jobs[k].status \notin Paused
             \/ jobs'[k].status = "succeeded"
    BY <1>3, AcceptShape
  <2>2. x # 0
    BY <1>3, <2>0, <2>1
  <2>3. home[x] = r
    BY <1>1, <2>0, <2>2 DEF Owned, Made
  <2>4. ASSUME NEW k \in JobIds, jobs'[k].status \notin Terminal, jobs'[k].ws = x PROVE FALSE
    <3>1. jobs'[k] = jobs[k] /\ (jobs[k].rem # r \/ jobs[k].status \notin Paused)
      BY <2>1, <2>4 DEF Terminal
    <3>2. jobs[k].rem = r
      BY <1>1, <2>2, <2>3, <2>4, <3>1 DEF Owned, Made
    <3>3. jobs[k].status \notin Busy
      BY <2>1, <3>2 DEF MayAccept
    <3>4. jobs[k].status \in Statuses
      BY RowType DEF FixInv
    <3>5. QED
      BY <2>4, <3>1, <3>2, <3>3, <3>4 DEF Statuses
  <2>5. ~ScanOn(r) /\ HeldStays
    BY <2>1 DEF MayAccept, HeldStays
  <2>6. ~Needs(x)'
    BY <1>1, <2>1, <2>2, <2>3, <2>4, <2>5, GoneFree
  <2>7. QED
    BY <2>0, <2>1, <2>6 DEF Kept, There
<1>4. QED
  BY <1>2, <1>3

LEMMA GrowsKept == ASSUME There \subseteq There' PROVE Kept
  BY DEF Kept

LEMMA FailKept ==
    ASSUME FixInv, NEW j \in JobIds, NEW rev, NEW worker \in Workers \cup {None},
           ReleaseFails(j, rev, worker)
    PROVE  Kept
<1>1. checkouts \cup lost \subseteq checkouts' \cup lost' \cup {0}
  BY FailShape
<1>2. QED
  BY <1>1, GrowsKept DEF There

LEMMA WorkerKept ==
    ASSUME FixInv, FixInv', Advanced, Homed, NEW w \in Workers, Fixer(w) \/ Heartbeat(w) \/ Crash(w)
    PROVE  Kept
<1>1. CASE StartEngine(w)
  <2>1. checkouts \subseteq checkouts' /\ UNCHANGED lost
    BY <1>1, StartShape
  <2>2. QED
    BY <2>1, GrowsKept DEF There
<1>2. CASE Acknowledge(w)
  <2> DEFINE j == held[w].job
  <2>1. /\ held[w].phase = "stopped" /\ UNCHANGED scans
        /\ \/ UNCHANGED <<checkouts, lost>>
           \/ CanRelease(j, jobs[j].rev) /\ Release(j)
           \/ ReleaseFails(j, jobs[j].rev, None)
    BY <1>2 DEF Acknowledge
  <2>2. j \in JobIds
    BY <2>1, HeldType
  <2>3. HeldStays
    <3>1. ~StartEngine(w) /\ ~Finish(w)
      BY <2>1 DEF StartEngine, Finish
    <3>2. QED
      BY <1>2, <3>1, WorkerHeld DEF Fixer
  <2>4. UNCHANGED <<checkouts, lost>> => Kept
    BY GrowsKept DEF There
  <2> HIDE DEF j
  <2>5. QED
    BY <2>1, <2>2, <2>3, <2>4, ReleaseKept, FailKept
<1>3. CASE ~StartEngine(w) /\ ~Acknowledge(w)
  <2>1. UNCHANGED <<checkouts, lost>>
    BY <1>3 DEF Fixer, Claim, Finish, AfterRun, SupersedeSiblings, Conclude, Heartbeat, Crash
  <2>2. QED
    BY <2>1, GrowsKept DEF There
<1>4. QED
  BY <1>1, <1>2, <1>3

LEMMA NextKept == ASSUME FixInv, FixInv', Advanced, ReqsRight, Homed, [Next]_vars PROVE Kept
<1>1. ASSUME NEW c \in Clients, CancelRead(c) \/ ResumeRead(c) \/ Request(c) PROVE Kept
  <2>1. CASE CancelCleanup(c)
    <3>1. HeldStays
      BY <2>1 DEF CancelCleanup, HeldStays
    <3>2. QED
      BY <2>1, <3>1, CleanupShape, ReleaseKept, FailKept
  <2>2. CASE ~CancelCleanup(c)
    <3>1. UNCHANGED <<checkouts, lost>>
      BY <1>1, <2>2 DEF CancelRead, ResumeRead, Request, CancelWrite, ResumeWrite
    <3>2. QED
      BY <3>1, GrowsKept DEF There
  <2>3. QED
    BY <2>1, <2>2
<1>2. ASSUME NEW s \in DOMAIN scans, Server(s) PROVE UNCHANGED <<checkouts, lost>>
  BY <1>2 DEF Server, EndScan, NextRunCheck, NextRunCreate
<1>3. ASSUME NEW x, CreateFix(x) \/ Expire(x) \/ Suspend(x) \/ Reclaim \/ UNCHANGED vars
      PROVE  UNCHANGED <<checkouts, lost>>
  BY <1>3 DEF CreateFix, Expire, Suspend, Fault, Age, Reclaim, vars
<1>4. UNCHANGED <<checkouts, lost>> => Kept
  BY GrowsKept DEF There
<1>5. QED
  BY <1>1, <1>2, <1>3, <1>4, WorkerKept, AcceptKept DEF Next

LEMMA InitNeeded == Init => NeededThere
<1> SUFFICES ASSUME Init PROVE NeededThere
  OBVIOUS
<1>1. JobIds = {} /\ RemIds = {} /\ DOMAIN scans = {}
  BY DEF Init, JobIds, RemIds
<1>2. \A w \in Workers : held[w].phase = "idle"
  BY IdleSound DEF Init
<1>3. QED
  BY <1>1, <1>2 DEF NeededThere, Needs

LEMMA InitHomed == Init => Homed
<1> SUFFICES ASSUME Init PROVE Homed
  OBVIOUS
<1>1. PICK home \in [Nat -> Nat] : Owned(home)
  BY InitHomes DEF Homes
<1>2. ScansHomed(home)
  BY DEF Init, ScansHomed
<1>3. QED
  BY <1>1, <1>2 DEF Homed

(* What the proofs about checkouts carry from step to step.                *)
Safe == FixInv /\ Homed /\ Lineage /\ NeededThere

LEMMA HomedHomes == Homed => Homes
  BY DEF Homed, Homes

LEMMA NextSafe == Safe /\ [Next]_vars => Safe'
<1> SUFFICES ASSUME Safe, [Next]_vars PROVE Safe'
  OBVIOUS
<1>1. FixInv /\ Homes /\ Homed /\ Lineage /\ ReqsRight /\ NeededThere
  BY HomedHomes DEF Safe, Lineage
<1>2. FixInv' /\ Advanced
  BY <1>1, NextFix
<1>3. Homed' /\ Lineal
  BY <1>1, NextHomed, NextLineal
<1>4. Lineage'
  BY <1>1, <1>2, <1>3, LineageKept
<1>5. NeededThere'
  BY <1>1, <1>2, <1>3, NextScans, NextNamed, NextKept, NeededKept
<1>6. QED
  BY <1>2, <1>3, <1>4, <1>5 DEF Safe

LEMMA SafeInvariant == Spec => []Safe
<1>1. Init => Safe
  BY InitFix, InitHomed, InitLineage, InitNeeded DEF Safe
<1>2. QED
  BY <1>1, NextSafe, PTL DEF Spec

(* A job that can run or be resumed, a child scan and an open session find *)
(* their workspace: what a cancellation or a hand-off removes is named by  *)
(* nothing else (completeFixCancellation, AcceptRemediation).              *)
THEOREM CheckoutSafeHolds == Spec => []CheckoutSafe
<1>1. Safe => CheckoutSafe
  <2> SUFFICES ASSUME Safe PROVE CheckoutSafe
    OBVIOUS
  <2>1. \A x : Needs(x) /\ x # 0 => x \in checkouts \cup lost
    BY DEF Safe, NeededThere, There
  <2>2. \A st \in Busy \cup Paused : st \notin Terminal
    BY DEF Busy, Active, Paused, Terminal
  <2>3. \A j \in JobIds : jobs[j].status \in Busy \cup Paused => Needs(jobs[j].ws)
    BY <2>2 DEF Needs
  <2>4. \A s \in DOMAIN scans : scans[s].status = "pending" => Needs(scans[s].ws)
    BY DEF Needs
  <2>5. \A r \in RemIds : rems[r].state = "open" => Needs(rems[r].ws)
    BY DEF Needs
  <2>6. QED
    BY <2>1, <2>3, <2>4, <2>5 DEF CheckoutSafe
<1>2. QED
  BY <1>1, SafeInvariant, PTL

-----------------------------------------------------------------------------
(* The checkout of a running engine                                        *)

(* A claim names one worker; a row whose claim it still is was given to it *)
(* or to nobody since.                                                     *)
ClaimedBy ==
  \A w \in Workers : LET j == held[w].job IN
    held[w].phase # "idle" =>
      held[w].claim # 0 /\ (jobs[j].claim = held[w].claim => jobs[j].worker \in {w, None})

(* The row of a running engine: nobody else may remove its checkout.       *)
Engaged(row, w, there) ==
  /\ row.worker = w /\ row.ws # 0 /\ row.ws \in there
  /\ row.status = "running" \/ (row.status = "cancelled" /\ row.cleanup)

(* "Renewed" is the worker's claim on a job that the reclaim leaves alone. *)
Renewed(w) ==
  LET j == held[w].job
  IN  /\ held[w].phase = "engine" /\ jobs[j].claim = held[w].claim
      /\ j \in beat \/ jobs[j].worker = w

EngineIn == \A w \in Workers : Renewed(w) => Engaged(jobs[held[w].job], w, checkouts \cup lost)

BeatGrows == \A j \in JobIds : j \in beat' => j \in beat \/ jobs'[j].worker # None

LEMMA ClaimsBound ==
    ASSUME FixInv, Homed
    PROVE  /\ claims + 1 # 0 /\ \A j \in JobIds : jobs[j].claim # claims + 1
           /\ \A w \in Workers : held[w].phase # "idle" => held[w].claim # claims + 1
<1>1. PICK home \in [Nat -> Nat] : Owned(home)
  BY DEF Homed
<1>2. claims \in Nat
  BY DEF FixInv, TablesOK
<1>3. \A r : claims + 1 \notin Made(home, r)
  BY <1>2 DEF Made
<1>4. QED
  BY <1>1, <1>2, <1>3 DEF Owned

LEMMA ClaimClaimedBy ==
    ASSUME FixInv, Homed, ClaimedBy, NEW v \in Workers, Claim(v) PROVE ClaimedBy'
<1>1. PICK i \in JobIds : Claims(v, i)
  BY ClaimShape
<1>2. claims + 1 # 0
  BY ClaimsBound
<1>3. ASSUME NEW w \in Workers, held'[w].phase # "idle"
      PROVE  /\ held'[w].claim # 0
             /\ jobs'[held'[w].job].claim = held'[w].claim => jobs'[held'[w].job].worker \in {w, None}
  <2>1. CASE w = v
    BY <1>1, <1>2, <2>1 DEF Claims
  <2>2. CASE w # v
    <3>1. held'[w] = held[w] /\ held[w].claim # 0
      BY <1>1, <1>3, <2>2 DEF Claims, ClaimedBy
    <3>2. held[w].job \in JobIds
      BY <1>3, <3>1, HeldType
    <3>3. CASE held[w].job = i
      <4>1. held[w].claim # claims + 1
        BY <1>3, <3>1, ClaimsBound
      <4>2. QED
        BY <1>1, <3>1, <3>3, <4>1 DEF Claims
    <3>4. CASE held[w].job # i
      BY <1>1, <1>3, <3>1, <3>2, <3>4 DEF Claims, ClaimedBy
    <3>5. QED
      BY <3>3, <3>4
  <2>3. QED
    BY <2>1, <2>2
<1>4. QED
  BY <1>3 DEF ClaimedBy

LEMMA NextClaimedBy == ASSUME Safe, ClaimedBy, [Next]_vars PROVE ClaimedBy'
<1>1. FixInv /\ Homed /\ Homes /\ Lineage /\ Lineal
  BY HomedHomes, NextLineal DEF Safe
<1>2. ASSUME Step PROVE ClaimedBy'
  <2>1. ASSUME NEW w \in Workers, held'[w].phase # "idle"
        PROVE  /\ held'[w].claim # 0
               /\ jobs'[held'[w].job].claim = held'[w].claim => jobs'[held'[w].job].worker \in {w, None}
    <3>1. held[w].phase # "idle" /\ held'[w].job = held[w].job /\ held'[w].claim = held[w].claim
      BY <1>2, <2>1 DEF Step, HeldTraced
    <3>2. held[w].job \in JobIds
      BY <1>1, <3>1, HeldType
    <3>3. jobs'[held[w].job].claim = jobs[held[w].job].claim
          /\ jobs'[held[w].job].worker \in {jobs[held[w].job].worker, None}
      BY <1>1, <1>2, <3>2 DEF Step, Traced, Lineal, RowsFollow, Follows
    <3>4. QED
      BY <3>1, <3>3 DEF ClaimedBy
  <2>2. QED
    BY <2>1 DEF ClaimedBy
<1>3. QED
  BY <1>1, <1>2, NextSteps, ClaimClaimedBy

LEMMA NextBeat == ASSUME FixInv, [Next]_vars PROVE BeatGrows
<1>1. ASSUME NEW w \in Workers, Fixer(w) \/ Heartbeat(w) \/ Crash(w) PROVE BeatGrows
  <2>0. w # None
    BY FixAssumption DEF FixAssumption
  <2>1. CASE Claim(w)
    <3>1. PICK i \in JobIds : Claims(w, i)
      BY <2>1, ClaimShape
    <3>2. QED
      BY <2>0, <3>1 DEF Claims, BeatGrows
  <2>2. CASE Heartbeat(w)
    <3>1. UNCHANGED jobs /\ (UNCHANGED beat \/ (jobs[held[w].job].worker = w /\ beat' = beat \cup {held[w].job}))
      BY <2>2 DEF Heartbeat, Renews
    <3>2. QED
      BY <2>0, <3>1 DEF BeatGrows
  <2>3. CASE ~Claim(w) /\ ~Heartbeat(w)
    <3>1. UNCHANGED beat
      BY <1>1, <2>3 DEF Fixer, StartEngine, Finish, Acknowledge, AfterRun, SupersedeSiblings, Conclude, Crash
    <3>2. QED
      BY <3>1 DEF BeatGrows
  <2>4. QED
    BY <2>1, <2>2, <2>3
<1>2. ASSUME NEW c \in Clients, CancelRead(c) \/ ResumeRead(c) \/ Request(c) PROVE UNCHANGED beat
  BY <1>2 DEF CancelRead, ResumeRead, Request, CancelWrite, CancelCleanup, ResumeWrite
<1>3. ASSUME NEW s \in DOMAIN scans, Server(s) PROVE UNCHANGED beat
  BY <1>3 DEF Server, EndScan, NextRunCheck, NextRunCreate
<1>4. ASSUME NEW x, CreateFix(x) \/ Accept(x) \/ Expire(x) \/ Suspend(x) \/ Reclaim \/ UNCHANGED vars
      PROVE  beat' \subseteq beat
  BY <1>4 DEF CreateFix, Accept, Expire, Suspend, Age, Reclaim, vars
<1>5. beat' \subseteq beat => BeatGrows
  BY DEF BeatGrows
<1>6. QED
  BY <1>1, <1>2, <1>3, <1>4, <1>5 DEF Next

-----------------------------------------------------------------------------
(* An engine that was running before the step and is still its claim's     *)
(* worker after it.                                                        *)
Running(w) ==
  LET j == held[w].job
  IN  /\ held[w].phase = "engine" /\ jobs[j].claim = held[w].claim
      /\ j \in JobIds
      /\ j \in beat' \/ jobs'[j].worker = w
      /\ Engaged(jobs[j], w, checkouts \cup lost)

StaysEngaged(w) == Engaged(jobs'[held[w].job], w, checkouts' \cup lost')

LEMMA EngagedStatus ==
    ASSUME NEW row, NEW w, NEW there, Engaged(row, w, there)
    PROVE  row.status \notin Paused \cup {"queued", "succeeded"}
  BY DEF Engaged, Paused

(* The row is not written and no checkout is removed.                      *)
LEMMA SameEngaged ==
    ASSUME NEW w, Running(w), jobs'[held[w].job] = jobs[held[w].job],
           checkouts \cup lost \subseteq checkouts' \cup lost' \cup {0}
    PROVE  StaysEngaged(w)
  BY DEF Running, StaysEngaged, Engaged

LEMMA EnqueueWrites ==
    ASSUME FixInv, NEW o, NEW run, NEW from, Enqueue(o, run, from), NEW k \in JobIds
    PROVE  jobs'[k] = jobs[k] \/ jobs[k].status \in Paused
<1> DEFINE r == LatestRem(o)
<1> DEFINE open == r # 0 /\ rems[r].state = "open"
<1> DEFINE rem == IF open THEN r ELSE Len(rems) + 1
<1> DEFINE job == [status |-> "queued", rev |-> 0, rem |-> rem, cleanup |-> FALSE,
              worker |-> None, claim |-> 0, ws |-> IF open THEN rems[r].ws ELSE 0,
              pushed |-> FALSE, run |-> run, from |-> from]
<1> DEFINE row(i) == IF i \in PausedOn(rem)
                     THEN Bump([jobs[i] EXCEPT !.status = "superseded"]) ELSE jobs[i]
<1>1. jobs' = Append([i \in JobIds |-> row(i)], job)
  BY DEF Enqueue
<1>2. JobIds = 1..Len(jobs) /\ Len(jobs) \in Nat
  BY DEF JobIds, FixInv, TablesOK
<1>3. k \notin PausedOn(rem) => row(k) = jobs[k]
  OBVIOUS
<1>4. k \in PausedOn(rem) => jobs[k].status \in Paused
  BY DEF PausedOn
<1> HIDE DEF row, job, rem
<1> DEFINE old == [i \in JobIds |-> row(i)]
<1>5. old = [i \in 1..Len(jobs) |-> row(i)] /\ Len(old) = Len(jobs)
  BY <1>2
<1>6. jobs'[k] = row(k)
  BY <1>1, <1>2, <1>5
<1>7. QED
  BY <1>3, <1>4, <1>6

LEMMA CreateEngaged ==
    ASSUME FixInv, NEW w \in Workers, Running(w),
           (\E o \in Origins : CreateFix(o)) \/ (\E s \in DOMAIN scans : NextRunCreate(s))
    PROVE  StaysEngaged(w)
<1>1. UNCHANGED <<checkouts, lost>>
  BY DEF CreateFix, NextRunCreate
<1>2. held[w].job \in JobIds /\ jobs[held[w].job].status \notin Paused
  BY EngagedStatus DEF Running
<1>3. jobs'[held[w].job] = jobs[held[w].job]
  <2>1. UNCHANGED jobs \/ \E o, run, from : Enqueue(o, run, from)
    BY DEF CreateFix, NextRunCreate
  <2>2. QED
    BY <1>2, <2>1, EnqueueWrites
<1>4. QED
  BY <1>1, <1>3, SameEngaged

LEMMA ReleaseEngaged ==
    ASSUME FixInv, Homed, Lineage, NEW w \in Workers, Running(w),
           NEW i \in JobIds, i # held[w].job, NEW rev, CanRelease(i, rev), Release(i)
    PROVE  StaysEngaged(w)
<1> DEFINE j == held[w].job
<1>1. checkouts' = checkouts \ {jobs[i].ws} /\ UNCHANGED lost /\ Only(i)
  BY ReleaseShape
<1>2. j \in JobIds /\ Engaged(jobs[j], w, checkouts \cup lost)
  BY DEF Running
<1>3. jobs[i].ws # jobs[j].ws
  <2> SUFFICES ASSUME jobs[i].ws = jobs[j].ws PROVE FALSE
    OBVIOUS
  <2>1. jobs[i].ws # 0 /\ Shares(i, j)
    BY <1>2 DEF Shares, Engaged
  <2>2. PICK home \in [Nat -> Nat] : Owned(home)
    BY DEF Homed
  <2>3. jobs[i].rem = jobs[j].rem
    BY <1>2, <2>1, <2>2 DEF Owned, Made
  <2>4. jobs[j].status # "running"
    BY <1>2, <2>1 DEF CanRelease, Busy, Active
  <2>5. Unsettled(jobs[i]) /\ Unsettled(jobs[j])
    BY <1>2, <2>4 DEF CanRelease, Cleaning, Unsettled, Engaged
  <2>6. QED
    BY <1>2, <2>3, <2>5 DEF Lineage, OneUnsettled
<1>4. jobs'[j] = jobs[j]
  BY <1>1, <1>2 DEF Only
<1>5. QED
  BY <1>1, <1>2, <1>3, <1>4 DEF StaysEngaged, Engaged

LEMMA FailEngaged ==
    ASSUME FixInv, NEW w \in Workers, Running(w),
           NEW i \in JobIds, NEW rev, NEW worker \in Workers \cup {None},
           i = held[w].job => worker = jobs[i].worker, ReleaseFails(i, rev, worker)
    PROVE  StaysEngaged(w)
<1> DEFINE j == held[w].job
<1>1. /\ checkouts \cup lost \subseteq checkouts' \cup lost' \cup {0}
      /\ \/ UNCHANGED jobs
         \/ /\ Only(i)
            /\ jobs'[i].status = jobs[i].status /\ jobs'[i].cleanup = jobs[i].cleanup
            /\ jobs'[i].worker = worker /\ jobs'[i].ws = jobs[i].ws
  BY FailShape
<1>2. j \in JobIds /\ Engaged(jobs[j], w, checkouts \cup lost)
  BY DEF Running
<1>3. CASE jobs'[j] = jobs[j]
  BY <1>1, <1>3, SameEngaged
<1>4. CASE jobs'[j] # jobs[j]
  <2>1. /\ i = j /\ jobs'[j].status = jobs[j].status /\ jobs'[j].cleanup = jobs[j].cleanup
        /\ jobs'[j].worker = jobs[j].worker /\ jobs'[j].ws = jobs[j].ws
    BY <1>1, <1>2, <1>4 DEF Only
  <2>2. QED
    BY <1>1, <1>2, <2>1 DEF StaysEngaged, Engaged
<1>5. QED
  BY <1>3, <1>4

LEMMA AcceptEngaged ==
    ASSUME FixInv, NEW w \in Workers, Running(w), NEW r \in RemIds, Accept(r) PROVE StaysEngaged(w)
<1> DEFINE j == held[w].job
<1>1. j \in JobIds /\ Engaged(jobs[j], w, checkouts \cup lost)
      /\ jobs[j].status \notin Paused \cup {"succeeded"}
  BY EngagedStatus DEF Running
<1>2. jobs'[j] = jobs[j]
  BY <1>1, AcceptShape
<1>3. CASE checkouts \cup lost \subseteq checkouts' \cup lost' \cup {0}
  BY <1>2, <1>3, SameEngaged
<1>4. CASE ~(checkouts \cup lost \subseteq checkouts' \cup lost' \cup {0})
  <2>1. MayAccept(r) /\ checkouts' = checkouts \ {rems[r].ws} /\ UNCHANGED lost
    BY <1>4, AcceptShape
  <2>2. jobs[j].status \in Busy \/ Cleaning(j)
    BY <1>1 DEF Engaged, Busy, Active, Cleaning
  <2>3. jobs[j].ws # rems[r].ws
    BY <1>1, <2>1, <2>2 DEF MayAccept, Engaged
  <2>4. QED
    BY <1>1, <1>2, <2>1, <2>3 DEF StaysEngaged, Engaged
<1>5. QED
  BY <1>3, <1>4

LEMMA ReclaimEngaged ==
    ASSUME FixInv, NEW w \in Workers, Running(w), Reclaim PROVE StaysEngaged(w)
<1> DEFINE j == held[w].job
<1>1. j \in JobIds /\ (j \in beat' \/ jobs'[j].worker = w)
  BY DEF Running
<1>2. w # None
  BY FixAssumption DEF FixAssumption
<1>3. jobs'[j] = jobs[j] /\ UNCHANGED <<checkouts, lost>>
  BY <1>1, <1>2, ReclaimShape
<1>4. QED
  BY <1>3, SameEngaged

LEMMA RequestEngaged ==
    ASSUME FixInv, Homed, Lineage, NEW w \in Workers, Running(w),
           NEW c \in Clients, CancelRead(c) \/ ResumeRead(c) \/ Request(c)
    PROVE  StaysEngaged(w)
<1> DEFINE j == held[w].job
<1> DEFINE i == req[c].job
<1>0. ReqsRight /\ w # None
  BY FixAssumption DEF Lineage, FixAssumption
<1>1. j \in JobIds /\ Engaged(jobs[j], w, checkouts \cup lost)
      /\ jobs[j].status \notin Paused \cup {"queued"}
  BY EngagedStatus DEF Running
<1>2. CASE CancelRead(c) \/ ResumeRead(c)
  BY <1>2, SameEngaged DEF CancelRead, ResumeRead
<1>3. CASE ResumeWrite(c)
  <2>1. jobs'[j] = jobs[j] /\ UNCHANGED <<checkouts, lost>>
    BY <1>0, <1>1, <1>3, ResumeShape DEF Only
  <2>2. QED
    BY <2>1, SameEngaged
<1>4. CASE CancelWrite(c)
  <2>1. /\ UNCHANGED <<checkouts, lost>>
        /\ \/ UNCHANGED jobs
           \/ /\ Only(i) /\ jobs[i].status \notin Terminal
              /\ jobs'[i].status = "cancelled" /\ jobs'[i].cleanup
              /\ jobs[i].status \in Active => jobs'[i].worker = jobs[i].worker
              /\ jobs'[i].ws = jobs[i].ws
    BY <1>0, <1>4, CancelShape
  <2>2. CASE jobs'[j] = jobs[j]
    BY <2>1, <2>2, SameEngaged
  <2>3. CASE jobs'[j] # jobs[j]
    <3>1. /\ jobs[j].status \notin Terminal
          /\ jobs'[j].status = "cancelled" /\ jobs'[j].cleanup
          /\ jobs[j].status \in Active => jobs'[j].worker = jobs[j].worker
          /\ jobs'[j].ws = jobs[j].ws
      BY <1>1, <2>1, <2>3 DEF Only
    <3>2. jobs[j].status \in Active
      BY <1>1, <3>1 DEF Engaged, Terminal, Active
    <3>3. QED
      BY <1>1, <2>1, <3>1, <3>2 DEF StaysEngaged, Engaged
  <2>4. QED
    BY <2>2, <2>3
<1>5. CASE CancelCleanup(c)
  <2>1. /\ i \in JobIds
        /\ \/ /\ CanRelease(i, req[c].rev) /\ Release(i) /\ jobs[i].worker = None
           \/ /\ ReleaseFails(i, req[c].rev, jobs[i].worker)
              /\ jobs[i].worker \in Workers \cup {None}
    BY <1>0, <1>5, CleanupShape
  <2>2. jobs[i].worker = None => i # j
    BY <1>0, <1>1 DEF Engaged
  <2>3. QED
    BY <2>1, <2>2, ReleaseEngaged, FailEngaged
<1>6. QED
  BY <1>2, <1>3, <1>4, <1>5 DEF Request

LEMMA WorkerEngaged ==
    ASSUME FixInv, Homed, Lineage, NEW w \in Workers, Running(w),
           NEW v \in Workers, Fixer(v) \/ Heartbeat(v) \/ Crash(v), held'[w] = held[w]
    PROVE  StaysEngaged(w)
<1> DEFINE j == held[w].job
<1> DEFINE i == held[v].job
<1>1. j \in JobIds /\ Engaged(jobs[j], w, checkouts \cup lost)
      /\ jobs[j].status \notin Paused \cup {"queued"} /\ jobs[j].worker = w /\ held[w].phase = "engine"
  BY EngagedStatus DEF Running, Engaged
<1>2. CASE Claim(v)
  <2>1. PICK k \in JobIds : Claims(v, k)
    BY <1>2, ClaimShape
  <2>2. jobs'[j] = jobs[j] /\ UNCHANGED <<checkouts, lost>>
    BY <1>1, <2>1 DEF Claims, Claimable
  <2>3. QED
    BY <2>2, SameEngaged
<1>3. CASE StartEngine(v) \/ Finish(v)
  <2>1. v # w
    BY <1>1, <1>3, StartShape, FinishShape DEF Refused
  <2>2. Launched(v) \/ Refused(v)
    BY <1>3, StartShape, FinishShape
  <2>3. jobs'[j] = jobs[j]
    BY <1>1, <2>1, <2>2 DEF Launched, Refused
  <2>4. checkouts \subseteq checkouts' /\ UNCHANGED lost
    BY <1>3, StartShape, FinishShape
  <2>5. QED
    BY <2>3, <2>4, SameEngaged
<1>4. CASE Acknowledge(v)
  <2>1. /\ held[v].phase = "stopped"
        /\ \/ UNCHANGED <<jobs, checkouts, lost>>
           \/ CanRelease(i, jobs[i].rev) /\ Release(i) /\ Mine(i, v)
           \/ ReleaseFails(i, jobs[i].rev, None) /\ Mine(i, v)
    BY <1>4 DEF Acknowledge
  <2>2. i \in JobIds /\ v # w
    BY <1>1, <2>1, HeldType
  <2>3. Mine(i, v) => i # j
    BY <1>1, <2>2 DEF Mine
  <2>4. UNCHANGED <<jobs, checkouts, lost>> => StaysEngaged(w)
    BY SameEngaged
  <2> HIDE DEF i
  <2>5. QED
    BY <2>1, <2>2, <2>3, <2>4, ReleaseEngaged, FailEngaged
<1>5. CASE SupersedeSiblings(v)
  <2>1. jobs'[j] = jobs[j] /\ UNCHANGED <<checkouts, lost>>
    BY <1>1, <1>5, SupersedeShape
  <2>2. QED
    BY <2>1, SameEngaged
<1>6. CASE AfterRun(v) \/ Conclude(v) \/ Heartbeat(v) \/ Crash(v)
  BY <1>6, SameEngaged DEF AfterRun, Conclude, Heartbeat, Crash
<1>7. QED
  BY <1>2, <1>3, <1>4, <1>5, <1>6 DEF Fixer

LEMMA NextEngaged ==
    ASSUME FixInv, Homed, Lineage, NEW w \in Workers, Running(w), [Next]_vars, held'[w] = held[w]
    PROVE  StaysEngaged(w)
<1>1. ASSUME NEW s \in DOMAIN scans, Server(s) PROVE StaysEngaged(w)
  <2>1. EndScan(s) \/ NextRunCheck(s) => UNCHANGED <<jobs, checkouts, lost>>
    BY DEF EndScan, NextRunCheck
  <2>2. QED
    BY <1>1, <2>1, SameEngaged, CreateEngaged DEF Server
<1>2. ASSUME NEW j, Expire(j) \/ Suspend(j) \/ UNCHANGED vars PROVE StaysEngaged(w)
  <2>1. UNCHANGED <<jobs, checkouts, lost>>
    BY <1>2 DEF Expire, Suspend, Fault, Age, vars
  <2>2. QED
    BY <2>1, SameEngaged
<1>3. QED
  BY <1>1, <1>2, CreateEngaged, WorkerEngaged, RequestEngaged, AcceptEngaged, ReclaimEngaged DEF Next

(* The engine starts in a workspace that is there.                         *)
LEMMA StartEngaged ==
    ASSUME Safe, ClaimedBy, NEW w \in Workers, StartEngine(w), held'[w].phase = "engine"
    PROVE  Engaged(jobs'[held'[w].job], w, checkouts' \cup lost')
<1> DEFINE j == held[w].job
<1>0. FixInv /\ NeededThere
  BY DEF Safe
<1>1. /\ held[w].phase = "claimed" /\ UNCHANGED lost
      /\ Launched(w) /\ held'[w].job = j /\ jobs'[j].status = "running"
      /\ \/ /\ jobs[j].ws # 0 /\ jobs'[j].ws = jobs[j].ws /\ UNCHANGED checkouts
         \/ /\ jobs'[j].ws = held[w].claim
            /\ checkouts' = checkouts \cup {held[w].claim}
  BY <1>0, StartShape DEF Refused
<1>2. jobs'[j].worker = w /\ held[w].claim # 0
  BY <1>1 DEF Launched, ClaimedBy
<1>3. CASE jobs[j].ws # 0 /\ jobs'[j].ws = jobs[j].ws /\ UNCHANGED checkouts
  <2>1. j \in JobIds /\ jobs[j].status \notin Terminal
    BY <1>0, <1>1, HeldType DEF Launched, Active, Terminal
  <2>2. jobs[j].ws \in checkouts \cup lost
    BY <1>0, <1>3, <2>1 DEF NeededThere, Needs, There
  <2>3. QED
    BY <1>1, <1>2, <1>3, <2>2 DEF Engaged
<1>4. QED
  BY <1>1, <1>2, <1>3 DEF Engaged

LEMMA NextEngineIn ==
    ASSUME Safe, ClaimedBy, EngineIn, [Next]_vars PROVE EngineIn'
<1>0. FixInv /\ Homed /\ Homes /\ Lineage /\ Lineal /\ ClaimedBy' /\ BeatGrows
  BY HomedHomes, NextLineal, NextClaimedBy, NextBeat DEF Safe
<1> SUFFICES ASSUME NEW w \in Workers, Renewed(w)'
             PROVE  Engaged(jobs'[held'[w].job], w, checkouts' \cup lost')
  BY DEF EngineIn
<1>1. /\ held'[w].phase = "engine" /\ jobs'[held'[w].job].claim = held'[w].claim
      /\ held'[w].job \in beat' \/ jobs'[held'[w].job].worker = w
  BY DEF Renewed
<1>2. CASE StartEngine(w)
  BY <1>1, <1>2, StartEngaged
<1>3. CASE ~StartEngine(w)
  <2> DEFINE j == held[w].job
  <2>1. held'[w] = held[w]
    <3>1. CASE HeldStays
      BY <1>1, <3>1 DEF HeldStays
    <3>2. ASSUME NEW v \in Workers, StartEngine(v) \/ Finish(v) PROVE held'[w] = held[w]
      <4>1. v # w
        <5>1. Finish(w) => held'[w].phase # "engine"
          BY <1>0, FinishShape DEF Refused
        <5>2. QED
          BY <1>1, <1>3, <3>2, <5>1
      <4>2. QED
        BY <1>0, <3>2, <4>1, StartShape, FinishShape DEF OthersHeld
    <3>3. QED
      BY <1>0, <3>1, <3>2, NextHeld
  <2>2. j \in JobIds /\ held[w].phase = "engine" /\ w # None
    BY <1>0, <1>1, <2>1, HeldType, FixAssumption DEF FixAssumption
  <2>3. jobs[j].claim = held[w].claim
    <3>1. CASE Step
      BY <1>1, <2>1, <2>2, <3>1 DEF Step, Traced
    <3>2. ASSUME NEW v \in Workers, Claim(v) PROVE jobs[j].claim = held[w].claim
      <4>1. PICK i \in JobIds : Claims(v, i)
        BY <1>0, <3>2, ClaimShape
      <4>2. held[w].claim # claims + 1
        BY <1>0, <2>2, ClaimsBound
      <4>3. QED
        BY <1>1, <2>1, <2>2, <4>1, <4>2 DEF Claims
    <3>3. QED
      BY <1>0, <3>1, <3>2, NextSteps
  <2>4. j \in beat \/ jobs[j].worker = w
    <3>1. CASE jobs'[j].worker # None
      <4>1. jobs'[j].worker = w
        BY <1>0, <1>1, <2>1, <2>2, <3>1 DEF ClaimedBy
      <4>2. jobs'[j].worker = jobs[j].worker
        BY <1>0, <1>1, <2>1, <2>2, <2>3, <3>1 DEF Lineal, RowsFollow, Follows
      <4>3. QED
        BY <4>1, <4>2
    <3>2. CASE jobs'[j].worker = None
      BY <1>0, <1>1, <2>1, <2>2, <3>2 DEF BeatGrows
    <3>3. QED
      BY <3>1, <3>2
  <2>5. Running(w)
    BY <1>1, <2>1, <2>2, <2>3, <2>4 DEF EngineIn, Renewed, Running
  <2>6. QED
    BY <1>0, <2>1, <2>5, NextEngaged DEF StaysEngaged
<1>4. QED
  BY <1>2, <1>3

LEMMA InitEngine == Init => ClaimedBy /\ EngineIn
<1> SUFFICES ASSUME Init PROVE ClaimedBy /\ EngineIn
  OBVIOUS
<1>1. \A w \in Workers : held[w].phase = "idle"
  BY IdleSound DEF Init
<1>2. QED
  BY <1>1 DEF ClaimedBy, EngineIn, Renewed

(* An engine whose claim is the newest and was renewed in time keeps its   *)
(* workspace until it has returned, also after a cancellation: neither a   *)
(* cleanup, a hand-off nor a reclaim touches it (heartbeatFixJob,          *)
(* completeFixCancellation).                                               *)
THEOREM EngineKeepsCheckoutHolds == Spec => []EngineKeepsCheckout
<1>1. Safe /\ ClaimedBy /\ EngineIn /\ [Next]_vars => ClaimedBy' /\ EngineIn'
  BY NextClaimedBy, NextEngineIn
<1>2. EngineIn => EngineKeepsCheckout
  <2> SUFFICES ASSUME EngineIn PROVE EngineKeepsCheckout
    OBVIOUS
  <2>1. \A w \in Workers : Renewed(w) => jobs[held[w].job].ws \in checkouts \cup lost
    BY DEF EngineIn, Engaged
  <2>2. QED
    BY <2>1 DEF EngineKeepsCheckout, Renewed
<1>3. QED
  BY <1>1, <1>2, InitEngine, SafeInvariant, PTL DEF Spec

-----------------------------------------------------------------------------
(* The types of the specification                                          *)
(*                                                                         *)
(* FixInv gives the kinds of the fields; what follows gives their ranges.  *)

(* No step but a creation adds a row, and no step moves a job to another   *)
(* planned run.                                                            *)
RunsStay == DOMAIN jobs' = JobIds /\ \A k \in JobIds : jobs'[k].run = jobs[k].run

LEMMA SameRuns == ASSUME FixInv, UNCHANGED jobs PROVE RunsStay
  BY Ids DEF RunsStay, FixInv

LEMMA WrittenRuns ==
    ASSUME FixInv, NEW j \in JobIds, NEW row \in Rows, row.run = jobs[j].run, SetJob(j, row)
    PROVE  RunsStay
<1> DEFINE new == [row EXCEPT !.rev = row.rev + 1]
<1>1. jobs' = [jobs EXCEPT ![j] = new]
  BY DEF SetJob, Bump
<1>2. new.run = jobs[j].run
  BY DEF Rows
<1> HIDE DEF new
<1>3. QED
  BY <1>1, <1>2, Ids DEF RunsStay, FixInv

(* What the bulk writes make of a row.                                     *)
LEMMA BumpedRun ==
    ASSUME FixInv, NEW j \in JobIds, NEW st \in Statuses, NEW wk \in Workers \cup {None}, NEW ws \in Nat
    PROVE  /\ Bump([jobs[j] EXCEPT !.status = st]).run = jobs[j].run
           /\ Bump([jobs[j] EXCEPT !.status = st, !.worker = wk]).run = jobs[j].run
           /\ Bump([jobs[j] EXCEPT !.status = st, !.ws = ws]).run = jobs[j].run
<1>1. jobs[j] \in Rows
  BY RowType DEF FixInv
<1>2. QED
  BY <1>1 DEF Bump, Rows

LEMMA SomeStatuses == /\ {"queued", "claimed", "running", "cancelled", "superseded", "succeeded"} \subseteq Statuses
                      /\ 0 \in Nat /\ None \in Workers \cup {None}
  BY DEF Statuses, Busy, Active, Terminal

LEMMA ReclaimRuns == ASSUME FixInv, Reclaim PROVE RunsStay
<1> DEFINE row(j) == IF j \in Stale
                     THEN Bump([jobs[j] EXCEPT !.status = "queued", !.worker = None]) ELSE jobs[j]
<1>1. jobs' = [j \in JobIds |-> row(j)]
  BY DEF Reclaim
<1>2. \A j \in JobIds : row(j).run = jobs[j].run
  BY BumpedRun, SomeStatuses
<1> HIDE DEF row
<1>3. QED
  BY <1>1, <1>2 DEF RunsStay

LEMMA SupersedeRuns == ASSUME FixInv, NEW w \in Workers, SupersedeSiblings(w) PROVE RunsStay
<1> DEFINE j == held[w].job
<1> DEFINE row(k) == IF k \in PausedOn(jobs[j].rem) \ {j}
                     THEN Bump([jobs[k] EXCEPT !.status = "superseded"]) ELSE jobs[k]
<1>1. jobs' = [k \in JobIds |-> row(k)] \/ UNCHANGED jobs
  BY SupersedeCases DEF SiblingMoved
<1>2. \A k \in JobIds : row(k).run = jobs[k].run
  BY BumpedRun, SomeStatuses
<1> HIDE DEF row
<1>3. QED
  BY <1>1, <1>2, SameRuns DEF RunsStay

LEMMA AcceptRuns == ASSUME FixInv, NEW r \in RemIds, Accept(r) PROVE RunsStay
<1> DEFINE row(k) == IF /\ jobs[k].rem = r
                        /\ \/ jobs[k].status \in Paused
                           \/ jobs[k].status = "succeeded" /\ jobs[k].ws = rems[r].ws
                     THEN Bump([jobs[k] EXCEPT !.status = "succeeded", !.ws = 0]) ELSE jobs[k]
<1>1. jobs' = [k \in JobIds |-> row(k)] \/ UNCHANGED jobs
  BY DEF Accept
<1>2. \A k \in JobIds : row(k).run = jobs[k].run
  BY BumpedRun, SomeStatuses
<1> HIDE DEF row
<1>3. QED
  BY <1>1, <1>2, SameRuns DEF RunsStay

LEMMA ReleaseRuns == ASSUME FixInv, NEW j \in JobIds, Release(j) PROVE RunsStay
<1> DEFINE row == [jobs[j] EXCEPT !.cleanup = FALSE, !.worker = None, !.ws = 0]
<1>1. jobs[j] \in Rows
  BY RowType DEF FixInv
<1>2. row \in Rows /\ row.run = jobs[j].run
  BY <1>1 DEF Rows
<1>3. SetJob(j, row)
  BY DEF Release
<1>4. QED
  BY <1>2, <1>3, WrittenRuns

LEMMA FailRuns ==
    ASSUME FixInv, NEW j \in JobIds, NEW rev, NEW worker \in Workers \cup {None},
           ReleaseFails(j, rev, worker)
    PROVE  RunsStay
<1> DEFINE row == [jobs[j] EXCEPT !.worker = worker]
<1>1. jobs[j] \in Rows
  BY RowType DEF FixInv
<1>2. row \in Rows /\ row.run = jobs[j].run
  BY <1>1 DEF Rows
<1>3. SetJob(j, row) \/ UNCHANGED jobs
  BY DEF ReleaseFails
<1>4. QED
  BY <1>2, <1>3, WrittenRuns, SameRuns

LEMMA EngineRuns == ASSUME FixInv, NEW w \in Workers, StartEngine(w) \/ Finish(w) PROVE RunsStay
<1> DEFINE j == held[w].job
<1>1. j \in JobIds /\ jobs[j] \in Rows /\ held[w].claim \in Nat
  BY HeldType, RowType DEF StartEngine, Finish, FixInv
<1>2. CASE StartEngine(w)
  <2> DEFINE ws == IF jobs[j].ws = 0 THEN held[w].claim ELSE jobs[j].ws
  <2> DEFINE row == [jobs[j] EXCEPT !.status = "running", !.ws = ws]
  <2>1. SetJob(j, row) \/ UNCHANGED jobs
    BY <1>2 DEF StartEngine, Save
  <2>2. ws \in Nat
    BY <1>1 DEF Rows
  <2> HIDE DEF ws
  <2>3. row \in Rows /\ row.run = jobs[j].run
    BY <1>1, <2>2, SomeStatuses DEF Rows
  <2>4. QED
    BY <1>1, <2>1, <2>3, WrittenRuns, SameRuns
<1>3. CASE Finish(w)
  <2>1. PICK out \in Ends : SetJob(j, [jobs[j] EXCEPT !.status = out.status, !.pushed = out.pushed])
                            \/ UNCHANGED jobs
    BY <1>3 DEF Finish, Save
  <2> DEFINE row == [jobs[j] EXCEPT !.status = out.status, !.pushed = out.pushed]
  <2>2. out.status \in Statuses /\ out.pushed \in BOOLEAN
    BY ResultType, FixAssumption DEF FixAssumption
  <2>3. row \in Rows /\ row.run = jobs[j].run
    BY <1>1, <2>2 DEF Rows
  <2>4. SetJob(j, row) \/ UNCHANGED jobs
    BY <2>1
  <2> HIDE DEF row
  <2>5. QED
    BY <1>1, <2>3, <2>4, WrittenRuns, SameRuns
<1>4. QED
  BY <1>2, <1>3

LEMMA ClaimRuns == ASSUME FixInv, NEW w \in Workers, Claim(w) PROVE RunsStay
<1>1. PICK j \in JobIds :
        SetJob(j, [jobs[j] EXCEPT !.status = "claimed", !.worker = w, !.claim = claims + 1])
  BY Zenon DEF Claim
<1> DEFINE row == [jobs[j] EXCEPT !.status = "claimed", !.worker = w, !.claim = claims + 1]
<1>2. jobs[j] \in Rows /\ claims + 1 \in Nat
  BY RowType DEF FixInv, TablesOK
<1>3. row \in Rows /\ row.run = jobs[j].run
  BY <1>2, SomeStatuses DEF Rows
<1>4. QED
  BY <1>1, <1>3, WrittenRuns

LEMMA RequestRuns == ASSUME FixInv, NEW c \in Clients, Request(c) PROVE RunsStay
<1> DEFINE j == req[c].job
<1>1. j \in JobIds /\ jobs[j] \in Rows
  BY ReqType DEF Request, CancelWrite, CancelCleanup, ResumeWrite
<1>2. jobs[j].worker \in Workers \cup {None}
  BY <1>1 DEF Rows
<1>3. CASE CancelWrite(c)
  <2> DEFINE worker == IF KeepsClaim(j) THEN jobs[j].worker ELSE None
  <2> DEFINE row == [jobs[j] EXCEPT !.status = "cancelled", !.cleanup = TRUE, !.worker = worker]
  <2>1. SetJob(j, row) \/ UNCHANGED jobs
    BY <1>3 DEF CancelWrite
  <2>2. worker \in Workers \cup {None}
    BY <1>2
  <2> HIDE DEF worker
  <2>3. row \in Rows /\ row.run = jobs[j].run
    BY <1>1, <2>2, SomeStatuses DEF Rows
  <2>4. QED
    BY <1>1, <2>1, <2>3, WrittenRuns, SameRuns
<1>4. CASE ResumeWrite(c)
  <2> DEFINE row == [jobs[j] EXCEPT !.status = "queued", !.worker = None]
  <2>1. SetJob(j, row) \/ UNCHANGED jobs
    BY <1>4 DEF ResumeWrite
  <2>2. row \in Rows /\ row.run = jobs[j].run
    BY <1>1, SomeStatuses DEF Rows
  <2>3. QED
    BY <1>1, <2>1, <2>2, WrittenRuns, SameRuns
<1>5. CASE CancelCleanup(c)
  <2>1. Release(j) \/ ReleaseFails(j, req[c].rev, jobs[j].worker)
    BY <1>5 DEF CancelCleanup
  <2>2. QED
    BY <1>1, <1>2, <2>1, ReleaseRuns, FailRuns
<1>6. QED
  BY <1>3, <1>4, <1>5 DEF Request

(* Every step but a creation.                                              *)
Creation == (\E o \in Origins : CreateFix(o)) \/ \E s \in DOMAIN scans : NextRunCreate(s)

LEMMA NextRuns == ASSUME FixInv, [Next]_vars, ~Creation PROVE RunsStay
<1>1. ASSUME NEW w \in Workers, Fixer(w) \/ Heartbeat(w) \/ Crash(w) PROVE RunsStay
  <2>1. CASE Acknowledge(w)
    <3>1. held[w].phase = "stopped"
          /\ (UNCHANGED jobs \/ Release(held[w].job) \/ ReleaseFails(held[w].job, jobs[held[w].job].rev, None))
      BY <2>1 DEF Acknowledge
    <3>2. held[w].job \in JobIds
      BY <3>1, HeldType
    <3>3. QED
      BY <3>1, <3>2, SomeStatuses, ReleaseRuns, FailRuns, SameRuns
  <2>2. CASE AfterRun(w) \/ Conclude(w) \/ Heartbeat(w) \/ Crash(w)
    BY <2>2, SameRuns DEF AfterRun, Conclude, Heartbeat, Crash
  <2>3. QED
    BY <1>1, <2>1, <2>2, ClaimRuns, EngineRuns, SupersedeRuns DEF Fixer
<1>2. ASSUME NEW c \in Clients, CancelRead(c) \/ ResumeRead(c) \/ Request(c) PROVE RunsStay
  BY <1>2, RequestRuns, SameRuns DEF CancelRead, ResumeRead
<1>3. ASSUME NEW s \in DOMAIN scans, EndScan(s) \/ NextRunCheck(s) PROVE RunsStay
  BY <1>3, SameRuns DEF EndScan, NextRunCheck
<1>4. ASSUME NEW j, Expire(j) \/ Suspend(j) \/ UNCHANGED vars PROVE RunsStay
  BY <1>4, SameRuns DEF Expire, Suspend, Age, vars
<1>5. QED
  BY <1>1, <1>2, <1>3, <1>4, AcceptRuns, ReclaimRuns DEF Next, Server, Creation

SessionsStay == DOMAIN rems' = RemIds

LEMMA NextSessions == ASSUME FixInv, [Next]_vars, ~Creation PROVE SessionsStay
<1>0. RemIds = DOMAIN rems
  BY Ids DEF FixInv
<1>1. ASSUME NEW w \in Workers, Fixer(w) \/ Heartbeat(w) \/ Crash(w) PROVE SessionsStay
  <2>1. CASE Acknowledge(w)
    BY <1>0, <2>1 DEF Acknowledge, Release, ReleaseFails, SessionsStay
  <2>2. CASE Conclude(w)
    BY <1>0, <2>2 DEF Conclude, SessionsStay
  <2>3. CASE AfterRun(w)
    BY <1>0, <2>3 DEF AfterRun, SessionsStay
  <2>4. QED
    BY <1>0, <1>1, <2>1, <2>2, <2>3
       DEF Fixer, Claim, StartEngine, Finish, SupersedeSiblings, Heartbeat, Crash, SessionsStay
<1>2. ASSUME NEW c \in Clients, CancelRead(c) \/ ResumeRead(c) \/ Request(c) PROVE SessionsStay
  BY <1>0, <1>2 DEF CancelRead, ResumeRead, Request, CancelWrite, CancelCleanup, ResumeWrite,
                    Release, ReleaseFails, SessionsStay
<1>3. ASSUME NEW s \in DOMAIN scans, EndScan(s) \/ NextRunCheck(s) PROVE SessionsStay
  BY <1>0, <1>3 DEF EndScan, NextRunCheck, SessionsStay
<1>4. ASSUME NEW x, Accept(x) \/ Expire(x) \/ Suspend(x) \/ Reclaim \/ UNCHANGED vars PROVE SessionsStay
  BY <1>0, <1>4 DEF Accept, Expire, Suspend, Age, Reclaim, vars, SessionsStay
<1>5. QED
  BY <1>1, <1>2, <1>3, <1>4 DEF Next, Server, Creation

(* A creation adds one job, and at most one session.                       *)
LEMMA EnqueueRuns ==
    ASSUME FixInv, NEW o \in Origins, NEW run \in Nat, NEW from \in Nat, Enqueue(o, run, from)
    PROVE  /\ Len(jobs) < MaxJobs /\ DOMAIN jobs' = 1..(Len(jobs) + 1)
           /\ jobs'[Len(jobs) + 1].run = run
           /\ \A k \in JobIds : jobs'[k].run = jobs[k].run
           /\ \/ DOMAIN rems' = RemIds
              \/ Len(rems) < MaxRems /\ DOMAIN rems' = 1..(Len(rems) + 1)
<1> DEFINE r == LatestRem(o)
<1> DEFINE open == r # 0 /\ rems[r].state = "open"
<1> DEFINE rem == IF open THEN r ELSE Len(rems) + 1
<1> DEFINE ws == IF open THEN rems[r].ws ELSE 0
<1> DEFINE job == [status |-> "queued", rev |-> 0, rem |-> rem, cleanup |-> FALSE,
              worker |-> None, claim |-> 0, ws |-> ws, pushed |-> FALSE, run |-> run, from |-> from]
<1> DEFINE row(k) == IF k \in PausedOn(rem)
                     THEN Bump([jobs[k] EXCEPT !.status = "superseded"]) ELSE jobs[k]
<1> DEFINE new == [origin |-> o, state |-> "open", ws |-> 0]
<1>1. /\ Len(jobs) < MaxJobs /\ (~open => Len(rems) < MaxRems)
      /\ rems' = IF open THEN rems ELSE Append(rems, new)
      /\ jobs' = Append([k \in JobIds |-> row(k)], job)
  BY DEF Enqueue
<1>2. Len(rems) \in Nat /\ Len(jobs) \in Nat /\ RemIds = 1..Len(rems) /\ JobIds = 1..Len(jobs)
      /\ RemIds = DOMAIN rems /\ rems \in Seq(Sessions)
  BY DEF FixInv, TablesOK, RemIds, JobIds
<1>3. job.run = run
  OBVIOUS
<1>4. \A k \in JobIds : row(k).run = jobs[k].run
  BY BumpedRun, SomeStatuses
<1>5. \A k \in JobIds : row(k) \in Rows
  <2>1. ASSUME NEW k \in JobIds PROVE row(k) \in Rows
    <3>1. CASE k \in PausedOn(rem)
      BY <3>1, SupersededRow DEF PausedOn, FixInv
    <3>2. CASE k \notin PausedOn(rem)
      BY <3>2, RowType DEF FixInv
    <3>3. QED
      BY <3>1, <3>2
  <2>2. QED
    BY <2>1
<1> DEFINE old == [k \in JobIds |-> row(k)]
<1> HIDE DEF row, job, new
<1>6. old \in Seq(Rows) /\ Len(old) = Len(jobs) /\ \A k \in JobIds : old[k] = row(k)
  BY <1>2, <1>5
<1>7. jobs' = Append(old, job)
  BY <1>1
<1> HIDE DEF old
<1>8. DOMAIN jobs' = 1..(Len(jobs) + 1) /\ jobs'[Len(jobs) + 1] = job /\ \A k \in JobIds : jobs'[k] = old[k]
  BY <1>2, <1>6, <1>7
<1> HIDE DEF open
<1>9. DOMAIN rems' = RemIds \/ (Len(rems) < MaxRems /\ DOMAIN rems' = 1..(Len(rems) + 1))
  BY <1>1, <1>2
<1>10. QED
  BY <1>1, <1>3, <1>4, <1>6, <1>8, <1>9

(* The run of a job is a planned one; the tables stay within their bounds. *)
RowsBounded ==
  /\ \A j \in JobIds : j <= MaxJobs /\ jobs[j].run \in 1..PlannedRuns
  /\ \A r \in RemIds : r <= MaxRems

ScansBounded == \A s \in DOMAIN scans : scans[s].rem \in RemIds /\ scans[s].ws # 0

LEMMA PlannedNat == PlannedRuns \in Nat \ {0} /\ MaxJobs \in Nat /\ MaxRems \in Nat
                    /\ 1 \in 1..PlannedRuns
<1>1. PlannedRuns \in Nat \ {0} /\ MaxJobs \in Nat /\ MaxRems \in Nat
  BY FixAssumption DEF FixAssumption
<1>2. QED
  BY <1>1

LEMMA NextRowsBounded ==
    ASSUME FixInv, FixInv', RowsBounded, [Next]_vars PROVE RowsBounded'
<1>1. /\ JobIds = DOMAIN jobs /\ JobIds' = DOMAIN jobs' /\ RemIds = DOMAIN rems /\ RemIds' = DOMAIN rems'
      /\ JobIds = 1..Len(jobs) /\ RemIds = 1..Len(rems) /\ Len(jobs) \in Nat /\ Len(rems) \in Nat
  BY DEF FixInv, TablesOK, JobIds, RemIds
<1>2. ASSUME NEW o \in Origins, NEW run \in 1..PlannedRuns, NEW from \in Nat, Enqueue(o, run, from)
      PROVE  RowsBounded'
  <2>1. run \in Nat
    BY PlannedNat
  <2>2. /\ Len(jobs) < MaxJobs /\ DOMAIN jobs' = 1..(Len(jobs) + 1)
        /\ jobs'[Len(jobs) + 1].run = run
        /\ \A k \in JobIds : jobs'[k].run = jobs[k].run
        /\ \/ DOMAIN rems' = RemIds
           \/ Len(rems) < MaxRems /\ DOMAIN rems' = 1..(Len(rems) + 1)
    BY <1>2, <2>1, EnqueueRuns
  <2>3. ASSUME NEW j \in JobIds' PROVE j <= MaxJobs /\ jobs'[j].run \in 1..PlannedRuns
    <3>1. CASE j \in JobIds
      BY <2>2, <3>1 DEF RowsBounded
    <3>2. CASE j = Len(jobs) + 1
      BY <1>1, <2>2, <3>2, PlannedNat
    <3>3. QED
      BY <1>1, <2>2, <3>1, <3>2
  <2>4. ASSUME NEW r \in RemIds' PROVE r <= MaxRems
    <3>1. CASE DOMAIN rems' = RemIds
      BY <1>1, <3>1 DEF RowsBounded
    <3>2. CASE Len(rems) < MaxRems /\ DOMAIN rems' = 1..(Len(rems) + 1)
      BY <1>1, <3>2, PlannedNat
    <3>3. QED
      BY <2>2, <3>1, <3>2
  <2>5. QED
    BY <2>3, <2>4 DEF RowsBounded
<1>3. ASSUME UNCHANGED <<jobs, rems>> PROVE RowsBounded'
  BY <1>1, <1>3 DEF RowsBounded
<1>4. ASSUME NEW o \in Origins, CreateFix(o) PROVE RowsBounded'
  <2>1. Enqueue(o, 1, 0) /\ 0 \in Nat
    BY <1>4 DEF CreateFix
  <2>2. QED
    BY <1>2, <2>1, PlannedNat
<1>5. ASSUME NEW s \in DOMAIN scans, NextRunCreate(s) PROVE RowsBounded'
  <2> DEFINE j == scans[s].job
  <2> DEFINE o == rems[jobs[j].rem].origin
  <2>1. (MayFollow(j) /\ Enqueue(o, NextRun(j), j)) \/ UNCHANGED <<jobs, rems>>
    BY <1>5 DEF NextRunCreate
  <2>2. j \in JobIds /\ j \in Nat
    BY <1>1 DEF FixInv, ScansOK
  <2>3. jobs[j].run \in 1..PlannedRuns
    BY <2>2 DEF RowsBounded
  <2>4. MayFollow(j) => NextRun(j) \in 1..PlannedRuns
    BY <2>3, PlannedNat DEF NextRun, MayFollow, MoreRuns
  <2>5. o \in Origins
    BY <2>2, RowType DEF FixInv, Sessions
  <2>6. QED
    BY <1>2, <1>3, <2>1, <2>2, <2>4, <2>5
<1>6. CASE ~Creation
  <2>1. RunsStay /\ SessionsStay
    BY <1>6, NextRuns, NextSessions
  <2>2. QED
    BY <1>1, <2>1 DEF RowsBounded, RunsStay, SessionsStay
<1>7. QED
  BY <1>4, <1>5, <1>6 DEF Creation

(* A worker without a job remembers nothing; from the start of its engine  *)
(* on it has a workspace.                                                  *)
HeldBounded ==
  \A w \in Workers :
    /\ held[w].phase = "idle" => held[w] = Idle
    /\ held[w].phase \in {"engine", "done", "saved", "alone"} => held[w].ws # 0

HeldSafe(h) ==
  /\ h.phase = "idle" => h = Idle
  /\ h.phase \in {"engine", "done", "saved", "alone"} => h.ws # 0

LEMMA OneHeldBounded ==
    ASSUME FixInv, HeldBounded, NEW w \in Workers, OthersHeld(w), HeldSafe(held'[w]) PROVE HeldBounded'
  BY DEF HeldBounded, HeldSafe, OthersHeld

LEMMA NextHeldBounded ==
    ASSUME Safe, ClaimedBy, EngineIn, HeldBounded, [Next]_vars PROVE HeldBounded'
<1>0. FixInv /\ HeldSafe(Idle)
  BY IdleSound DEF Safe, HeldSafe
<1>1. ASSUME UNCHANGED held PROVE HeldBounded'
  BY <1>1 DEF HeldBounded
<1>2. ASSUME NEW w \in Workers, held' = [held EXCEPT ![w] = Idle] PROVE HeldBounded'
  <2>1. OthersHeld(w) /\ held'[w] = Idle
    BY <1>0, <1>2 DEF FixInv, OthersHeld
  <2>2. QED
    BY <1>0, <2>1, OneHeldBounded
<1>3. ASSUME NEW w \in Workers, NEW p, p # "idle", held' = [held EXCEPT ![w].phase = p],
             p \in {"engine", "done", "saved", "alone"} => held[w].ws # 0
      PROVE  HeldBounded'
  <2> DEFINE g == [held[w] EXCEPT !.phase = p]
  <2>1. g.phase = p /\ g.ws = held[w].ws
    BY <1>0 DEF FixInv, Mem
  <2>2. held' = [held EXCEPT ![w] = g]
    BY <1>3
  <2> HIDE DEF g
  <2>3. OthersHeld(w) /\ held'[w] = g
    BY <1>0, <2>2 DEF FixInv, OthersHeld
  <2>4. HeldSafe(held'[w])
    BY <1>3, <2>1, <2>3 DEF HeldSafe
  <2>5. QED
    BY <1>0, <2>3, <2>4, OneHeldBounded
<1>4. ASSUME NEW w \in Workers, Claim(w) PROVE HeldBounded'
  <2>1. OthersHeld(w) /\ held'[w].phase = "claimed"
    BY <1>0, <1>4, ClaimShape DEF Claims, OthersHeld
  <2>2. QED
    BY <1>0, <2>1, OneHeldBounded DEF HeldSafe
<1>5. ASSUME NEW w \in Workers, StartEngine(w) PROVE HeldBounded'
  <2>1. OthersHeld(w) /\ (held'[w].phase = "stopped" \/ held'[w].phase = "engine")
    BY <1>0, <1>5, StartShape DEF Refused
  <2>2. ASSUME held'[w].phase = "engine" PROVE held'[w].ws # 0
    <3>1. held'[w].job = held[w].job /\ held'[w].ws = jobs'[held[w].job].ws
      BY <1>0, <1>5, <2>2, StartShape DEF Refused
    <3>2. jobs'[held'[w].job].ws # 0
      BY <1>5, <2>2, StartEngaged DEF Engaged
    <3>3. QED
      BY <3>1, <3>2
  <2>3. QED
    BY <1>0, <2>1, <2>2, OneHeldBounded DEF HeldSafe
<1>6. ASSUME NEW w \in Workers, Finish(w) PROVE HeldBounded'
  <2>1. /\ OthersHeld(w) /\ held[w].phase = "engine"
        /\ \/ held'[w].phase = "stopped"
           \/ Launched(w) /\ held'[w].phase = "done" /\ held'[w].ws = jobs[held[w].job].ws
    BY <1>0, <1>6, FinishShape DEF Refused
  <2>2. ASSUME Launched(w) PROVE jobs[held[w].job].ws # 0
    BY <2>1, <2>2 DEF Launched, EngineIn, Renewed, Engaged
  <2>3. QED
    BY <1>0, <2>1, <2>2, OneHeldBounded DEF HeldSafe
<1>7. ASSUME NEW w \in Workers, Fixer(w) \/ Heartbeat(w) \/ Crash(w) PROVE HeldBounded'
  <2>1. CASE Acknowledge(w) \/ Conclude(w) \/ Crash(w)
    <3>1. held' = [held EXCEPT ![w] = Idle]
      BY <2>1 DEF Acknowledge, Conclude, Crash
    <3>2. QED
      BY <1>2, <3>1
  <2>2. CASE AfterRun(w)
    <3>1. held[w].phase = "done"
          /\ (held' = [held EXCEPT ![w] = Idle] \/ held' = [held EXCEPT ![w].phase = "saved"])
      BY <2>2 DEF AfterRun
    <3>2. held[w].ws # 0
      BY <3>1 DEF HeldBounded
    <3>3. QED
      BY <1>2, <1>3, <3>1, <3>2
  <2>3. CASE SupersedeSiblings(w)
    <3>1. /\ held[w].phase = "saved"
          /\ \/ held' = [held EXCEPT ![w] = Idle] \/ held' = [held EXCEPT ![w].phase = "alone"]
      BY <2>3, SupersedeCases DEF SiblingMoved
    <3>2. held[w].ws # 0
      BY <3>1 DEF HeldBounded
    <3>3. QED
      BY <1>2, <1>3, <3>1, <3>2
  <2>4. CASE Heartbeat(w)
    <3>1. UNCHANGED held \/ held' = [held EXCEPT ![w].phase = "stopped"]
      BY <2>4 DEF Heartbeat
    <3>2. QED
      BY <1>1, <1>3, <3>1
  <2>5. QED
    BY <1>4, <1>5, <1>6, <1>7, <2>1, <2>2, <2>3, <2>4 DEF Fixer
<1>8. ASSUME NEW c \in Clients, CancelRead(c) \/ ResumeRead(c) \/ Request(c) PROVE UNCHANGED held
  BY <1>8 DEF CancelRead, ResumeRead, Request, CancelWrite, CancelCleanup, ResumeWrite
<1>9. ASSUME NEW s \in DOMAIN scans, Server(s) PROVE UNCHANGED held
  BY <1>9 DEF Server, EndScan, NextRunCheck, NextRunCreate
<1>10. ASSUME NEW x, CreateFix(x) \/ Accept(x) \/ Expire(x) \/ Suspend(x) \/ Reclaim \/ UNCHANGED vars
      PROVE  UNCHANGED held
  BY <1>10 DEF CreateFix, Accept, Expire, Suspend, Age, Reclaim, vars
<1>11. QED
  BY <1>1, <1>7, <1>8, <1>9, <1>10 DEF Next

(* The child scans.                                                        *)
LEMMA NextScansBounded ==
    ASSUME FixInv, HeldBounded, ScansBounded, [Next]_vars PROVE ScansBounded'
<1>0. RemIds \subseteq RemIds'
  BY NextFix DEF FixInv, Advanced, RemsKept, RemIds
<1>1. ASSUME UNCHANGED scans PROVE ScansBounded'
  BY <1>0, <1>1 DEF ScansBounded
<1>2. ASSUME NEW s \in DOMAIN scans, Server(s) PROVE ScansBounded'
  <2>1. PICK st \in {"checking", "failed", "creating", "over"} : SetScan(s, st)
    BY <1>2 DEF Server, EndScan, NextRunCheck, NextRunCreate
  <2> DEFINE row == [scans[s] EXCEPT !.status = st]
  <2>2. scans[s] \in ScanRows
    BY DEF FixInv, ScansOK
  <2>3. row.ws = scans[s].ws /\ row.rem = scans[s].rem
    BY <2>2 DEF ScanRows
  <2> HIDE DEF row
  <2>4. scans' = [scans EXCEPT ![s] = row]
    BY <2>1 DEF SetScan, row
  <2>5. DOMAIN scans' = DOMAIN scans /\ scans'[s] = row /\ \A q \in DOMAIN scans \ {s} : scans'[q] = scans[q]
    BY <2>4
  <2>6. QED
    BY <1>0, <2>3, <2>5 DEF ScansBounded
<1>3. ASSUME NEW w \in Workers, Conclude(w) PROVE ScansBounded'
  <2> DEFINE r == jobs[held[w].job].rem
  <2> DEFINE child == [rem |-> r, ws |-> held[w].ws, job |-> held[w].job, status |-> "pending"]
  <2>1. /\ held[w].phase = "alone"
        /\ UNCHANGED scans \/ scans' = Append(scans, child)
    BY <1>3 DEF Conclude
  <2>2. CASE scans' = Append(scans, child)
    <3>1. r \in RemIds /\ held[w].ws # 0
      BY <2>1, HeldType DEF HeldBounded
    <3>2. child.rem = r /\ child.ws = held[w].ws
      OBVIOUS
    <3> HIDE DEF child
    <3>3. scans \in Seq(ScanRows)
      BY DEF FixInv, ScansOK
    <3>4. DOMAIN scans' = DOMAIN scans \cup {Len(scans) + 1} /\ scans'[Len(scans) + 1] = child
          /\ \A q \in DOMAIN scans : scans'[q] = scans[q]
      BY <2>2, <3>3
    <3>5. QED
      BY <1>0, <3>1, <3>2, <3>4 DEF ScansBounded
  <2>3. QED
    BY <1>1, <2>1, <2>2
<1>4. ASSUME NEW w \in Workers, Fixer(w) \/ Heartbeat(w) \/ Crash(w), ~Conclude(w) PROVE UNCHANGED scans
  BY <1>4 DEF Fixer, Claim, StartEngine, Finish, Acknowledge, AfterRun, SupersedeSiblings, Heartbeat, Crash
<1>5. ASSUME NEW c \in Clients, CancelRead(c) \/ ResumeRead(c) \/ Request(c) PROVE UNCHANGED scans
  BY <1>5 DEF CancelRead, ResumeRead, Request, CancelWrite, CancelCleanup, ResumeWrite
<1>6. ASSUME NEW x, CreateFix(x) \/ Accept(x) \/ Expire(x) \/ Suspend(x) \/ Reclaim \/ UNCHANGED vars
      PROVE  UNCHANGED scans
  BY <1>6 DEF CreateFix, Accept, Expire, Suspend, Age, Reclaim, vars
<1>7. QED
  BY <1>1, <1>2, <1>3, <1>4, <1>5, <1>6 DEF Next

(* A request that is over remembers nothing.                               *)
ReqBounded == \A c \in Clients : req[c].op = "none" => req[c] = NoReq

LEMMA NextReqBounded == ASSUME FixInv, ReqBounded, [Next]_vars PROVE ReqBounded'
<1>1. ASSUME UNCHANGED req PROVE ReqBounded'
  BY <1>1 DEF ReqBounded
<1>2. ASSUME NEW c \in Clients, NEW q, q.op = "none" => q = NoReq, req' = [req EXCEPT ![c] = q]
      PROVE  ReqBounded'
  BY <1>2 DEF ReqBounded, FixInv, ReqsOK
<1>3. ASSUME NEW c \in Clients, NEW op, NEW j, NEW rev, op # "none", SetReq(c, op, j, rev)
      PROVE  ReqBounded'
  BY <1>2, <1>3 DEF SetReq
<1>4. ASSUME NEW c \in Clients, CancelRead(c) \/ ResumeRead(c) \/ Request(c) PROVE ReqBounded'
  <2>1. EndReq(c) => ReqBounded'
    BY <1>2 DEF EndReq
  <2>2. CASE CancelRead(c)
    BY <1>3, <2>2 DEF CancelRead
  <2>3. CASE ResumeRead(c)
    BY <1>3, <2>3 DEF ResumeRead
  <2>4. CASE CancelWrite(c)
    BY <1>3, <2>1, <2>4 DEF CancelWrite
  <2>5. CASE CancelCleanup(c) \/ ResumeWrite(c)
    BY <2>1, <2>5 DEF CancelCleanup, ResumeWrite
  <2>6. QED
    BY <1>4, <2>2, <2>3, <2>4, <2>5 DEF Request
<1>5. ASSUME NEW w \in Workers, Fixer(w) \/ Heartbeat(w) \/ Crash(w) PROVE UNCHANGED req
  BY <1>5 DEF Fixer, Claim, StartEngine, Finish, Acknowledge, AfterRun, SupersedeSiblings, Conclude,
              Heartbeat, Crash
<1>6. ASSUME NEW s \in DOMAIN scans, Server(s) PROVE UNCHANGED req
  BY <1>6 DEF Server, EndScan, NextRunCheck, NextRunCreate
<1>7. ASSUME NEW x, CreateFix(x) \/ Accept(x) \/ Expire(x) \/ Suspend(x) \/ Reclaim \/ UNCHANGED vars
      PROVE  UNCHANGED req
  BY <1>7 DEF CreateFix, Accept, Expire, Suspend, Age, Reclaim, vars
<1>8. QED
  BY <1>1, <1>4, <1>5, <1>6, <1>7 DEF Next

(* The bounds on requests and faults.                                      *)
Spent == asks \in 0..MaxAsks /\ faults \in 0..MaxFaults

LEMMA NextSpent == ASSUME Spent, [Next]_vars PROVE Spent'
<1>0. MaxAsks \in Nat /\ MaxFaults \in Nat
  BY FixAssumption DEF FixAssumption
<1>1. ASSUME UNCHANGED asks \/ Ask, UNCHANGED faults \/ Fault PROVE Spent'
  BY <1>0, <1>1 DEF Spent, Ask, Fault
<1>2. ASSUME NEW w \in Workers, Fixer(w) \/ Heartbeat(w) \/ Crash(w)
      PROVE  (UNCHANGED asks \/ Ask) /\ (UNCHANGED faults \/ Fault)
  <2>1. CASE Acknowledge(w)
    BY <2>1 DEF Acknowledge, Release, ReleaseFails
  <2>2. CASE ~Acknowledge(w)
    BY <1>2, <2>2 DEF Fixer, Claim, StartEngine, Finish, AfterRun, SupersedeSiblings, Conclude,
                      Heartbeat, Crash
  <2>3. QED
    BY <2>1, <2>2
<1>3. ASSUME NEW c \in Clients, CancelRead(c) \/ ResumeRead(c) \/ Request(c)
      PROVE  (UNCHANGED asks \/ Ask) /\ (UNCHANGED faults \/ Fault)
  BY <1>3 DEF CancelRead, ResumeRead, Request, CancelWrite, CancelCleanup, ResumeWrite, Release, ReleaseFails
<1>4. ASSUME NEW s \in DOMAIN scans, Server(s) PROVE UNCHANGED <<asks, faults>>
  BY <1>4 DEF Server, EndScan, NextRunCheck, NextRunCreate
<1>5. ASSUME NEW x, CreateFix(x) \/ Accept(x) \/ Expire(x) \/ Suspend(x) \/ Reclaim \/ UNCHANGED vars
      PROVE  (UNCHANGED asks \/ Ask) /\ (UNCHANGED faults \/ Fault)
  BY <1>5 DEF CreateFix, Accept, Expire, Suspend, Age, Reclaim, vars
<1>6. QED
  BY <1>1, <1>2, <1>3, <1>4, <1>5 DEF Next

(* What every token and workspace of the state is within.                  *)
LEMMA TokensMade ==
    ASSUME FixInv, Homed
    PROVE  /\ claims \in Nat
           /\ \A j \in JobIds : jobs[j].ws \in 0..claims /\ jobs[j].claim \in 0..claims
           /\ \A r \in RemIds : rems[r].ws \in 0..claims
           /\ \A s \in DOMAIN scans : scans[s].ws \in 0..claims
           /\ \A w \in Workers : held[w].phase # "idle" =>
                held[w].ws \in 0..claims /\ held[w].claim \in 0..claims
<1>1. PICK home \in [Nat -> Nat] : Owned(home) /\ ScansHomed(home)
  BY DEF Homed
<1>2. claims \in Nat
  BY DEF FixInv, TablesOK
<1>3. \A r : \A x \in Made(home, r) : x \in 0..claims
  BY <1>2 DEF Made
<1>4. QED
  BY <1>1, <1>2, <1>3 DEF Owned, ScansHomed

(* Workspaces and crashed claims are those of claims that were made.       *)
Disk == beat \subseteq JobIds /\ dead \subseteq 1..claims /\ checkouts \subseteq 1..claims /\ lost \subseteq 1..claims

LEMMA NextDisk == ASSUME Safe, Safe', ClaimedBy, Disk, [Next]_vars PROVE Disk'
<1>0. FixInv /\ Homed /\ claims \in Nat /\ claims' \in Nat
  BY DEF Safe, FixInv, TablesOK
<1>1. JobIds \subseteq JobIds'
  <2>1. Advanced
    BY <1>0, NextFix
  <2>2. JobIds' = DOMAIN jobs'
    BY DEF Safe, FixInv, TablesOK, JobIds
  <2>3. QED
    BY <2>1, <2>2 DEF Advanced, JobsKept
<1>2. ASSUME NEW w \in Workers, held[w].phase # "idle" PROVE held[w].claim \in 1..claims
  <2>1. held[w].claim \in 0..claims /\ held[w].claim # 0
    BY <1>0, <1>2, TokensMade DEF ClaimedBy
  <2>2. QED
    BY <1>0, <2>1
<1>3. ASSUME NEW x \in 0..claims PROVE {x} \ {0} \subseteq 1..claims
  BY <1>0
<1>4. ASSUME UNCHANGED claims, beat' \subseteq beat, dead' \subseteq dead,
             checkouts' \subseteq checkouts, lost' \subseteq lost
      PROVE  Disk'
  BY <1>1, <1>4 DEF Disk
<1>5. ASSUME NEW j \in JobIds, NEW rev, NEW worker, UNCHANGED <<claims, beat, dead>>,
             Release(j) \/ ReleaseFails(j, rev, worker)
      PROVE  Disk'
  <2>1. {jobs[j].ws} \ {0} \subseteq 1..claims
    BY <1>0, <1>3, TokensMade
  <2>2. checkouts' \subseteq checkouts
        /\ (lost' = lost \/ lost' = lost \cup ({jobs[j].ws} \ {0}))
    BY <1>5 DEF Release, ReleaseFails
  <2>3. QED
    BY <1>1, <1>5, <2>1, <2>2 DEF Disk
<1>6. ASSUME NEW w \in Workers, Fixer(w) \/ Heartbeat(w) \/ Crash(w) PROVE Disk'
  <2>1. CASE Claim(w)
    <3>1. PICK j \in JobIds : /\ claims' = claims + 1 /\ beat' = beat \cup {j}
                              /\ UNCHANGED <<dead, checkouts, lost>>
      BY <2>1, Zenon DEF Claim
    <3>2. 1..claims \subseteq 1..(claims + 1)
      BY <1>0
    <3>3. QED
      BY <1>1, <3>1, <3>2 DEF Disk
  <2>2. CASE StartEngine(w)
    <3>1. held[w].phase = "claimed" /\ UNCHANGED <<beat, claims, dead, lost>>
          /\ (UNCHANGED checkouts \/ checkouts' = checkouts \cup {held[w].claim})
      BY <1>0, <2>2, StartShape DEF StartEngine
    <3>2. held[w].claim \in 1..claims
      BY <1>2, <3>1
    <3>3. QED
      BY <1>1, <3>1, <3>2 DEF Disk
  <2>3. CASE Acknowledge(w)
    <3>1. held[w].phase = "stopped" /\ UNCHANGED <<claims, beat, dead>>
          /\ \/ UNCHANGED <<checkouts, lost>>
             \/ Release(held[w].job) \/ ReleaseFails(held[w].job, jobs[held[w].job].rev, None)
      BY <2>3 DEF Acknowledge
    <3>2. held[w].job \in JobIds
      BY <1>0, <3>1, HeldType
    <3>3. QED
      BY <1>4, <1>5, <3>1, <3>2
  <2>4. CASE Crash(w)
    <3>1. held[w].phase # "idle" /\ dead' = dead \cup {held[w].claim}
          /\ UNCHANGED <<beat, claims, checkouts, lost>>
      BY <2>4 DEF Crash
    <3>2. held[w].claim \in 1..claims
      BY <1>2, <3>1
    <3>3. QED
      BY <1>1, <3>1, <3>2 DEF Disk
  <2>5. CASE Heartbeat(w)
    <3>1. held[w].phase # "idle" /\ UNCHANGED <<claims, dead, checkouts, lost>>
          /\ (UNCHANGED beat \/ beat' = beat \cup {held[w].job})
      BY <2>5 DEF Heartbeat
    <3>2. held[w].job \in JobIds
      BY <1>0, <3>1, HeldType
    <3>3. QED
      BY <1>1, <3>1, <3>2 DEF Disk
  <2>6. CASE Finish(w) \/ AfterRun(w) \/ SupersedeSiblings(w) \/ Conclude(w)
    <3>1. UNCHANGED <<claims, beat, dead, checkouts, lost>>
      BY <2>6 DEF Finish, AfterRun, SupersedeSiblings, Conclude
    <3>2. QED
      BY <1>4, <3>1
  <2>7. QED
    BY <1>6, <2>1, <2>2, <2>3, <2>4, <2>5, <2>6 DEF Fixer
<1>7. ASSUME NEW c \in Clients, CancelRead(c) \/ ResumeRead(c) \/ Request(c) PROVE Disk'
  <2>1. CASE CancelCleanup(c)
    <3>1. req[c].op = "cleanup" /\ UNCHANGED <<claims, beat, dead>>
          /\ (Release(req[c].job) \/ ReleaseFails(req[c].job, req[c].rev, jobs[req[c].job].worker))
      BY <2>1 DEF CancelCleanup
    <3>2. req[c].job \in JobIds
      BY <1>0, <3>1, ReqType
    <3>3. QED
      BY <1>5, <3>1, <3>2
  <2>2. CASE ~CancelCleanup(c)
    <3>1. UNCHANGED <<claims, beat, dead, checkouts, lost>>
      BY <1>7, <2>2 DEF CancelRead, ResumeRead, Request, CancelWrite, ResumeWrite
    <3>2. QED
      BY <1>4, <3>1
  <2>3. QED
    BY <2>1, <2>2
<1>8. ASSUME NEW r \in RemIds, Accept(r) PROVE Disk'
  <2>1. {rems[r].ws} \ {0} \subseteq 1..claims
    BY <1>0, <1>3, TokensMade
  <2>2. checkouts' \subseteq checkouts /\ UNCHANGED <<claims, beat, dead>>
        /\ (lost' = lost \/ lost' = lost \cup ({rems[r].ws} \ {0}))
    BY <1>8 DEF Accept
  <2>3. QED
    BY <1>1, <2>1, <2>2 DEF Disk
<1>9. ASSUME NEW s \in DOMAIN scans, Server(s) PROVE Disk'
  <2>1. UNCHANGED <<claims, beat, dead, checkouts, lost>>
    BY <1>9 DEF Server, EndScan, NextRunCheck, NextRunCreate
  <2>2. QED
    BY <1>4, <2>1
<1>10. ASSUME NEW x, CreateFix(x) \/ Expire(x) \/ Suspend(x) \/ Reclaim \/ UNCHANGED vars PROVE Disk'
  <2>1. UNCHANGED <<claims, dead, checkouts, lost>> /\ beat' \subseteq beat
    BY <1>10 DEF CreateFix, Expire, Suspend, Age, Reclaim, vars
  <2>2. QED
    BY <1>4, <2>1
<1>11. QED
  BY <1>6, <1>7, <1>8, <1>9, <1>10 DEF Next

-----------------------------------------------------------------------------
Bounded == RowsBounded /\ ScansBounded /\ HeldBounded /\ ReqBounded /\ Spent /\ Disk

Ranged == Safe /\ ClaimedBy /\ EngineIn /\ Bounded

LEMMA InitBounded == Init => Bounded
<1> SUFFICES ASSUME Init PROVE Bounded
  OBVIOUS
<1>1. JobIds = {} /\ RemIds = {} /\ DOMAIN scans = {} /\ claims \in Nat
  BY DEF Init, JobIds, RemIds
<1>2. RowsBounded /\ ScansBounded /\ Disk
  BY <1>1 DEF Init, RowsBounded, ScansBounded, Disk
<1>3. HeldBounded
  BY IdleSound DEF Init, HeldBounded
<1>4. ReqBounded
  BY DEF Init, ReqBounded
<1>5. Spent
  BY FixAssumption DEF Init, Spent, FixAssumption
<1>6. QED
  BY <1>2, <1>3, <1>4, <1>5 DEF Bounded

LEMMA NextRanged == Ranged /\ [Next]_vars => Ranged'
<1> SUFFICES ASSUME Ranged, [Next]_vars PROVE Ranged'
  OBVIOUS
<1>1. Safe /\ ClaimedBy /\ EngineIn /\ FixInv
  BY DEF Ranged, Safe
<1>2. RowsBounded /\ ScansBounded /\ HeldBounded /\ ReqBounded /\ Spent /\ Disk
  BY DEF Ranged, Bounded
<1>3. Safe' /\ FixInv'
  BY <1>1, NextSafe DEF Safe
<1>4. ClaimedBy' /\ EngineIn'
  BY <1>1, NextClaimedBy, NextEngineIn
<1>5. RowsBounded' /\ ScansBounded'
  BY <1>1, <1>2, <1>3, NextRowsBounded, NextScansBounded
<1>6. HeldBounded' /\ ReqBounded' /\ Spent' /\ Disk'
  BY <1>1, <1>2, <1>3, NextHeldBounded, NextReqBounded, NextSpent, NextDisk
<1>7. QED
  BY <1>3, <1>4, <1>5, <1>6 DEF Ranged, Bounded

(* A sequence whose entries are all of a narrower kind.                    *)
LEMMA Narrowed ==
    ASSUME NEW S, NEW T, NEW q \in Seq(S), \A i \in DOMAIN q : q[i] \in T PROVE q \in Seq(T)
  OBVIOUS

LEMMA RangedJobs ==
    ASSUME Ranged
    PROVE  jobs \in Seq([status : Statuses, rev : Nat, rem : 1..MaxRems, cleanup : BOOLEAN,
                         worker : Workers \cup {None}, claim : 0..claims, ws : 0..claims,
                         pushed : BOOLEAN, run : 1..PlannedRuns, from : 0..MaxJobs])
<1>1. FixInv /\ Homed /\ RowsBounded /\ FollowsJob
  BY DEF Ranged, Safe, Bounded, Lineage
<1>2. ASSUME NEW j \in JobIds
      PROVE  /\ jobs[j] \in Rows /\ jobs[j].ws \in 0..claims /\ jobs[j].claim \in 0..claims
             /\ jobs[j].run \in 1..PlannedRuns /\ jobs[j].rem \in 1..MaxRems
             /\ jobs[j].from \in 0..MaxJobs
  <2>1. jobs[j] \in Rows /\ jobs[j].rem \in RemIds /\ jobs[j].run \in 1..PlannedRuns
        /\ jobs[j].ws \in 0..claims /\ jobs[j].claim \in 0..claims
    BY <1>1, RowType, TokensMade DEF FixInv, RowsBounded
  <2>2. jobs[j].rem \in 1..MaxRems
    BY <1>1, <2>1, PlannedNat DEF RowsBounded, RemIds, FixInv, TablesOK
  <2>3. jobs[j].from \in 0..MaxJobs
    <3>1. CASE jobs[j].from = 0
      BY <3>1, PlannedNat
    <3>2. CASE jobs[j].from # 0
      BY <1>1, <3>2, PlannedNat DEF FollowsJob, RowsBounded, JobIds, FixInv, TablesOK
    <3>3. QED
      BY <3>1, <3>2
  <2>4. QED
    BY <2>1, <2>2, <2>3
<1>3. \A j \in DOMAIN jobs :
        jobs[j] \in [status : Statuses, rev : Nat, rem : 1..MaxRems, cleanup : BOOLEAN,
                     worker : Workers \cup {None}, claim : 0..claims, ws : 0..claims,
                     pushed : BOOLEAN, run : 1..PlannedRuns, from : 0..MaxJobs]
  BY <1>1, <1>2, Ids DEF Rows, FixInv
<1>4. jobs \in Seq(Rows)
  BY <1>1 DEF FixInv, TablesOK
<1>5. QED
  BY <1>3, <1>4, Narrowed

LEMMA RangedRest ==
    ASSUME Ranged
    PROVE  /\ rems \in Seq([origin : Origins, state : {"open", "frozen", "discarded"}, ws : 0..claims])
           /\ scans \in Seq([rem : RemIds, ws : 1..claims, job : JobIds,
                             status : {"pending", "failed", "checking", "creating", "over"}])
<1>1. FixInv /\ Homed /\ ScansBounded /\ claims \in Nat
  BY DEF Ranged, Safe, Bounded, FixInv, TablesOK
<1>2. \A r \in DOMAIN rems :
        rems[r] \in [origin : Origins, state : {"open", "frozen", "discarded"}, ws : 0..claims]
  <2>1. ASSUME NEW r \in DOMAIN rems PROVE rems[r] \in Sessions /\ rems[r].ws \in 0..claims
    BY <1>1, Ids, TokensMade DEF FixInv, TablesOK
  <2>2. QED
    BY <2>1 DEF Sessions
<1>3. \A s \in DOMAIN scans :
        scans[s] \in [rem : RemIds, ws : 1..claims, job : JobIds,
                      status : {"pending", "failed", "checking", "creating", "over"}]
  <2>1. ASSUME NEW s \in DOMAIN scans
        PROVE  scans[s] \in ScanRows /\ scans[s].job \in JobIds /\ scans[s].rem \in RemIds
               /\ scans[s].ws \in 0..claims /\ scans[s].ws # 0
    BY <1>1, TokensMade DEF FixInv, ScansOK, ScansBounded
  <2>2. \A s \in DOMAIN scans : scans[s].ws \in 1..claims
    BY <1>1, <2>1
  <2>3. QED
    BY <2>1, <2>2 DEF ScanRows
<1>4. rems \in Seq(Sessions) /\ scans \in Seq(ScanRows)
  BY <1>1 DEF FixInv, TablesOK, ScansOK
<1>5. QED
  BY <1>2, <1>3, <1>4, Narrowed

LEMMA RangedMemory ==
    ASSUME Ranged
    PROVE  /\ held \in [Workers -> [job : 0..MaxJobs, rev : Nat, claim : 0..claims, ws : 0..claims,
                out : Results \cup {NoResult},
                phase : {"idle", "claimed", "engine", "stopped", "done", "saved", "alone"}]]
           /\ req \in [Clients -> [op : {"none", "cancel", "cleanup", "resume"}, job : 0..MaxJobs, rev : Nat]]
<1>1. FixInv /\ Homed /\ RowsBounded /\ HeldBounded /\ ReqBounded /\ claims \in Nat
  BY DEF Ranged, Safe, Bounded, FixInv, TablesOK
<1>2. \A j \in JobIds : j \in 0..MaxJobs
  BY <1>1, PlannedNat DEF RowsBounded, JobIds, FixInv, TablesOK
<1>3. ASSUME NEW w \in Workers
      PROVE  held[w] \in Mem /\ held[w].job \in 0..MaxJobs /\ held[w].claim \in 0..claims
             /\ held[w].ws \in 0..claims
  <2>1. held[w] \in Mem
    BY <1>1 DEF FixInv
  <2>2. CASE held[w].phase = "idle"
    BY <1>1, <2>1, <2>2, PlannedNat DEF HeldBounded, Idle
  <2>3. CASE held[w].phase # "idle"
    BY <1>1, <1>2, <2>1, <2>3, HeldType, TokensMade
  <2>4. QED
    BY <2>2, <2>3
<1>4. ASSUME NEW c \in Clients PROVE req[c] \in Reqs /\ req[c].job \in 0..MaxJobs
  <2>1. req[c] \in Reqs
    BY <1>1 DEF FixInv, ReqsOK
  <2>2. CASE req[c].op = "none"
    BY <1>1, <2>1, <2>2, PlannedNat DEF ReqBounded, NoReq
  <2>3. CASE req[c].op # "none"
    BY <1>1, <1>2, <2>1, <2>3 DEF FixInv, ReqsOK
  <2>4. QED
    BY <2>1, <2>2, <2>3
<1>5. \A w \in Workers : held[w] \in [job : 0..MaxJobs, rev : Nat, claim : 0..claims, ws : 0..claims,
        out : Results \cup {NoResult},
        phase : {"idle", "claimed", "engine", "stopped", "done", "saved", "alone"}]
  BY <1>3 DEF Mem
<1>6. \A c \in Clients : req[c] \in [op : {"none", "cancel", "cleanup", "resume"}, job : 0..MaxJobs, rev : Nat]
  BY <1>4 DEF Reqs
<1>7. held = [w \in Workers |-> held[w]] /\ req = [c \in Clients |-> req[c]]
  BY <1>1 DEF FixInv, ReqsOK
<1>8. QED
  BY <1>5, <1>6, <1>7

(* Every reachable state is typed: the tables stay within their bounds, a  *)
(* claim, a workspace, a child scan's checkout and what a worker or a      *)
(* request remembers are of claims and rows that exist, and no job is of a *)
(* run beyond the planned ones (createFixJob, MaybeEnqueueNextRun).        *)
THEOREM FixTypeHolds == Spec => []TypeOK
<1>1. Init => Ranged
  BY InitFix, InitHomed, InitLineage, InitNeeded, InitEngine, InitBounded DEF Ranged, Safe
<1>2. Ranged => TypeOK
  <2> SUFFICES ASSUME Ranged PROVE TypeOK
    OBVIOUS
  <2>1. FixInv /\ RowsBounded /\ Spent /\ Disk
    BY DEF Ranged, Safe, Bounded
  <2>2. claims \in Nat /\ Len(jobs) \in Nat /\ Len(rems) \in Nat /\ \A j \in JobIds : jobs[j].rem \in RemIds
    BY <2>1 DEF FixInv, TablesOK
  <2>3. Len(jobs) <= MaxJobs /\ Len(rems) <= MaxRems
    <3>1. Len(jobs) = 0 \/ Len(jobs) \in JobIds
      BY <2>2 DEF JobIds
    <3>2. Len(rems) = 0 \/ Len(rems) \in RemIds
      BY <2>2 DEF RemIds
    <3>3. QED
      BY <2>1, <3>1, <3>2, PlannedNat DEF RowsBounded
  <2>4. QED
    BY <2>1, <2>2, <2>3, RangedJobs, RangedRest, RangedMemory DEF TypeOK, Spent, Disk
<1>3. QED
  BY <1>1, <1>2, NextRanged, PTL DEF Spec

=============================================================================
