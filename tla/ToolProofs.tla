----------------------------- MODULE ToolProofs ----------------------------
(***************************************************************************)
(* The scanner tools: admitting their containers (ToolAdmission) and       *)
(* building their images (CustomBuilds).  The two specifications share no  *)
(* state; each theorem is about one of them.                               *)
(*                                                                         *)
(* ToolAdmission, for any scans, tools, demands and limits: no ceiling or  *)
(* budget is exceeded, no wake-up is lost, and the counters are at every   *)
(* moment what the running tools take (Ledger).  What a tool takes beside  *)
(* others is a sum over a set; the lemmas on Sums show, from a smallest    *)
(* counterexample, that the fold which computes it splits off any element  *)
(* of the set.                                                             *)
(*                                                                         *)
(* CustomBuilds, for any variants, workers, attempt budget and number of   *)
(* faults: the attempts of a build stay within the budget, it ends in a    *)
(* state its variants agree with, a requested cancellation is never queued *)
(* again, and a completed variant is never built again.                    *)
(***************************************************************************)
EXTENDS ToolAdmission, CustomBuilds, FiniteSetTheorems, WellFoundedInduction, TLAPS

\* A waiter's channel is one its pool has had, so a release since then shows.
Shape ==
    /\ state \in [Tools -> States]
    /\ slots \in [Scans -> [Classes -> Int]]
    /\ used \in [Pools -> [cpus : Int, memory : Int]]
    /\ changed \in [Pools -> Nat]
    /\ seen \in [Tools -> Nat]
    /\ \A t \in Tools : state[t] = "waiting" => seen[t] <= changed[Pool(t)]

IInv == Shape /\ WithinLimits /\ NoLostWakeup

-----------------------------------------------------------------------------
LEMMA Demand ==
    ASSUME NEW t \in Tools
    PROVE  /\ ScanOf[t] \in Scans /\ Pool(t) \in Pools
           /\ CPUs(t) \in Nat /\ Memory[t] \in Nat
           /\ Pool(t) = Daemon <=> Budgeted(t)
  BY AdmissionAssumption
     DEF AdmissionAssumption, Pool, Pools, CPUs, Budgeted, Plans

LEMMA CeilingNat ==
    ASSUME NEW s \in Scans, NEW c \in Classes PROVE Ceiling(s, c) \in Nat \ {0}
  BY AdmissionAssumption DEF AdmissionAssumption, Ceiling, Plans, Classes

\* Tools of one scan ask the same pool.
LEMMA OnePool ==
    ASSUME NEW t \in Tools, NEW u \in Tools, ScanOf[t] = ScanOf[u]
    PROVE  Pool(t) = Pool(u)
  BY DEF Pool

\* What charging a tool, or crediting it back, does to the counters.
LEMMA Charging ==
    ASSUME Shape, NEW t \in Tools, NEW n \in Int, Charge(t, n)
    PROVE  /\ slots' \in [Scans -> [Classes -> Int]]
           /\ used' \in [Pools -> [cpus : Int, memory : Int]]
           /\ \A c \in Classes :
                 slots'[ScanOf[t]][c] = slots[ScanOf[t]][c]
                                          + IF Takes(t, c) THEN n ELSE 0
           /\ \A s \in Scans \ {ScanOf[t]} : slots'[s] = slots[s]
           /\ used'[Pool(t)].cpus = used[Pool(t)].cpus + n * CPUs(t)
           /\ used'[Pool(t)].memory = used[Pool(t)].memory + n * Memory[t]
           /\ \A p \in Pools \ {Pool(t)} : used'[p] = used[p]
<1>1. Counted(t, n) \in [Classes -> Int]
  BY Demand DEF Shape, Counted
<1>2. Charged(t, n) \in [cpus : Int, memory : Int]
  <2>1. n * CPUs(t) \in Int /\ n * Memory[t] \in Int
    BY Demand
  <2>2. used[Pool(t)].cpus \in Int /\ used[Pool(t)].memory \in Int
    BY Demand DEF Shape
  <2>3. QED
    BY <2>1, <2>2 DEF Charged
<1>3. /\ slots' \in [Scans -> [Classes -> Int]]
      /\ slots'[ScanOf[t]] = Counted(t, n)
      /\ \A s \in Scans \ {ScanOf[t]} : slots'[s] = slots[s]
  BY <1>1, Demand DEF Shape, Charge
<1>4. /\ used' \in [Pools -> [cpus : Int, memory : Int]]
      /\ used'[Pool(t)] = Charged(t, n)
      /\ \A p \in Pools \ {Pool(t)} : used'[p] = used[p]
  BY <1>2, Demand DEF Shape, Charge
<1>5. QED
  BY <1>3, <1>4 DEF Counted, Charged

-----------------------------------------------------------------------------
LEMMA InitInv == Init => IInv
<1> SUFFICES ASSUME Init PROVE IInv
  OBVIOUS
<1>1. Shape
  BY Demand DEF Init, Shape, States
<1>2. WithinLimits
  BY CeilingNat, AdmissionAssumption
     DEF Init, WithinLimits, AdmissionAssumption, Pools
<1>3. NoLostWakeup
  BY DEF Init, NoLostWakeup
<1>4. QED
  BY <1>1, <1>2, <1>3 DEF IInv

\* Steps that move one goroutine without touching a counter.
LEMMA QuietStep ==
    ASSUME IInv, NEW t \in Tools, NEW s \in States \ {"waiting"}, Goto(t, s),
           UNCHANGED <<slots, used, changed, seen>>
    PROVE  IInv'
<1>1. /\ state' \in [Tools -> States]
      /\ \A u \in Tools : state'[u] = "waiting" => state[u] = "waiting"
  BY DEF IInv, Shape, Goto
<1>2. Shape'
  BY <1>1 DEF IInv, Shape, Pool
<1>3. WithinLimits'
  BY DEF IInv, WithinLimits
<1>4. NoLostWakeup'
  BY <1>1 DEF IInv, NoLostWakeup, Fits
<1>5. QED
  BY <1>2, <1>3, <1>4 DEF IInv

\* A waiter tests and reads its channel in one critical section.
LEMMA WaitStep ==
    ASSUME IInv, NEW t \in Tools, Wait(t) PROVE IInv'
<1>1. /\ state' \in [Tools -> States]
      /\ \A u \in Tools \ {t} : state'[u] = state[u] /\ seen'[u] = seen[u]
      /\ seen' \in [Tools -> Nat] /\ seen'[t] = changed[Pool(t)]
  BY Demand DEF IInv, Shape, Wait, Goto, States
<1>2. Shape'
  BY <1>1, Demand DEF IInv, Shape, Wait, Pool
<1>3. WithinLimits'
  BY DEF IInv, WithinLimits, Wait
<1>4. NoLostWakeup'
  BY <1>1 DEF IInv, NoLostWakeup, Fits, Wait
<1>5. QED
  BY <1>2, <1>3, <1>4 DEF IInv

\* Admission keeps every limit and only makes fitting harder for the others.
LEMMA AdmitStep ==
    ASSUME IInv, NEW t \in Tools, Admit(t) PROVE IInv'
<1>1. /\ state' \in [Tools -> States]
      /\ \A u \in Tools : state'[u] = "waiting" => state[u] = "waiting"
  BY DEF IInv, Shape, Admit, Goto, States
<1>2. Charge(t, 1) /\ Fits(t) /\ UNCHANGED <<changed, seen>>
  BY DEF Admit
<1>3. /\ slots' \in [Scans -> [Classes -> Int]]
      /\ used' \in [Pools -> [cpus : Int, memory : Int]]
      /\ \A c \in Classes :
            slots'[ScanOf[t]][c] = slots[ScanOf[t]][c]
                                     + IF Takes(t, c) THEN 1 ELSE 0
      /\ \A s \in Scans \ {ScanOf[t]} : slots'[s] = slots[s]
      /\ used'[Pool(t)].cpus = used[Pool(t)].cpus + CPUs(t)
      /\ used'[Pool(t)].memory = used[Pool(t)].memory + Memory[t]
      /\ \A p \in Pools \ {Pool(t)} : used'[p] = used[p]
  <2>1. 1 * CPUs(t) = CPUs(t) /\ 1 * Memory[t] = Memory[t]
    BY Demand
  <2>2. Shape
    BY DEF IInv
  <2>3. QED
    BY <1>2, <2>1, <2>2, Charging
<1>4. Shape'
  BY <1>1, <1>2, <1>3 DEF IInv, Shape, Pool
<1>5. WithinLimits'
  <2>1. ASSUME NEW s \in Scans, NEW c \in Classes
        PROVE  slots'[s][c] <= Ceiling(s, c)
    <3>1. CASE s = ScanOf[t] /\ Takes(t, c)
      <4>1. slots[s][c] < Ceiling(s, c)
        BY <1>2, <3>1 DEF Fits
      <4>2. slots[s][c] \in Int
        BY DEF IInv, Shape
      <4>3. QED
        BY <1>3, <3>1, <4>1, <4>2, CeilingNat
    <3>2. CASE s = ScanOf[t] /\ ~Takes(t, c)
      <4>1. slots[s][c] \in Int
        BY DEF IInv, Shape
      <4>2. QED
        BY <1>3, <3>2, <4>1 DEF IInv, WithinLimits
    <3>3. CASE s # ScanOf[t]
      BY <1>3, <3>3 DEF IInv, WithinLimits
    <3>4. QED
      BY <3>1, <3>2, <3>3
  <2>2. used'[Daemon].cpus <= CPUBudget /\ used'[Daemon].memory <= MemoryBudget
    <3>1. CASE Pool(t) = Daemon
      BY <1>2, <1>3, <3>1, Demand DEF Fits
    <3>2. CASE Pool(t) # Daemon
      BY <1>3, <3>2 DEF IInv, WithinLimits, Pools
    <3>3. QED
      BY <3>1, <3>2
  <2>3. QED
    BY <2>1, <2>2 DEF WithinLimits, Ceiling
<1>6. NoLostWakeup'
  <2>1. SUFFICES ASSUME NEW u \in Tools, state'[u] = "waiting",
                        changed'[Pool(u)] = seen'[u]
                 PROVE  ~Fits(u)'
    BY DEF NoLostWakeup, Pool
  <2>2. ~Fits(u)
    BY <1>1, <1>2, <2>1 DEF IInv, NoLostWakeup
  <2>3. \A c \in Classes : slots[ScanOf[u]][c] <= slots'[ScanOf[u]][c]
    <3>1. \A c \in Classes : slots[ScanOf[u]][c] \in Int
      BY Demand DEF IInv, Shape
    <3>2. QED
      BY <1>3, <3>1, Demand
  <2>4. /\ used[Pool(u)].cpus <= used'[Pool(u)].cpus
        /\ used[Pool(u)].memory <= used'[Pool(u)].memory
    <3>1. used[Pool(u)].cpus \in Int /\ used[Pool(u)].memory \in Int
      BY Demand DEF IInv, Shape
    <3>2. CASE Pool(u) = Pool(t)
      BY <1>3, <3>1, <3>2, Demand
    <3>3. CASE Pool(u) # Pool(t)
      BY <1>3, <3>1, <3>3, Demand
    <3>4. QED
      BY <3>2, <3>3
  <2>5. ASSUME Fits(u)'
        PROVE  \A c \in Classes :
                  Takes(u, c) => slots[ScanOf[u]][c] < Ceiling(ScanOf[u], c)
    <3>1. \A c \in Classes :
             Takes(u, c) => slots'[ScanOf[u]][c] < Ceiling(ScanOf[u], c)
      BY <2>5 DEF Fits, Ceiling, Takes
    <3>2. \A c \in Classes : /\ slots[ScanOf[u]][c] \in Int
                              /\ slots'[ScanOf[u]][c] \in Int
      BY <1>3, Demand DEF IInv, Shape
    <3>3. QED
      BY <2>3, <3>1, <3>2, Demand, CeilingNat
  <2>6. ASSUME Fits(u)'
        PROVE  Budgeted(u) =>
                  /\ used[Pool(u)].cpus + CPUs(u) <= CPUBudget
                  /\ used[Pool(u)].memory + Memory[u] <= MemoryBudget
    <3>1. Budgeted(u) => /\ used'[Pool(u)].cpus + CPUs(u) <= CPUBudget
                         /\ used'[Pool(u)].memory + Memory[u] <= MemoryBudget
      BY <2>6 DEF Fits, Budgeted, Pool, CPUs
    <3>2. /\ used[Pool(u)].cpus \in Int /\ used[Pool(u)].memory \in Int
          /\ used'[Pool(u)].cpus \in Int /\ used'[Pool(u)].memory \in Int
          /\ CPUBudget \in Int /\ MemoryBudget \in Int
      BY <1>3, Demand, AdmissionAssumption
         DEF IInv, Shape, AdmissionAssumption
    <3>3. QED
      BY <2>4, <3>1, <3>2, Demand
  <2>7. QED
    BY <2>2, <2>5, <2>6 DEF Fits
<1>7. QED
  BY <1>4, <1>5, <1>6 DEF IInv

\* A release opens slots to the waiters of its own pool only, and closes the
\* channel all of these wait on.
LEMMA FinishStep ==
    ASSUME IInv, NEW t \in Tools, FinishTool(t) PROVE IInv'
<1>1. /\ state' \in [Tools -> States]
      /\ \A u \in Tools : state'[u] = "waiting" => state[u] = "waiting"
  BY DEF IInv, Shape, FinishTool, Goto, States
<1>2. /\ changed' \in [Pools -> Nat]
      /\ changed'[Pool(t)] = changed[Pool(t)] + 1
      /\ \A p \in Pools \ {Pool(t)} : changed'[p] = changed[p]
      /\ seen' = seen
  BY Demand DEF IInv, Shape, FinishTool, NextChannel
<1>3. /\ slots' \in [Scans -> [Classes -> Int]]
      /\ used' \in [Pools -> [cpus : Int, memory : Int]]
      /\ \A c \in Classes :
            slots'[ScanOf[t]][c] = slots[ScanOf[t]][c]
                                     + IF Takes(t, c) THEN -1 ELSE 0
      /\ \A s \in Scans \ {ScanOf[t]} : slots'[s] = slots[s]
      /\ used'[Pool(t)].cpus = used[Pool(t)].cpus - CPUs(t)
      /\ used'[Pool(t)].memory = used[Pool(t)].memory - Memory[t]
      /\ \A p \in Pools \ {Pool(t)} : used'[p] = used[p]
  <2>1. Charge(t, -1)
    BY DEF FinishTool, Releases
  <2>2. /\ used[Pool(t)].cpus \in Int /\ used[Pool(t)].memory \in Int
        /\ CPUs(t) \in Int /\ Memory[t] \in Int
    BY Demand DEF IInv, Shape
  <2>3. Shape
    BY DEF IInv
  <2>4. /\ used[Pool(t)].cpus + (-1) * CPUs(t) = used[Pool(t)].cpus - CPUs(t)
        /\ used[Pool(t)].memory + (-1) * Memory[t]
              = used[Pool(t)].memory - Memory[t]
    BY <2>2
  <2>5. QED
    BY <2>1, <2>3, <2>4, Charging
<1>4. Shape'
  <2>1. \A u \in Tools : state'[u] = "waiting" => seen'[u] <= changed'[Pool(u)]
    BY <1>1, <1>2, Demand DEF IInv, Shape
  <2>2. QED
    BY <1>1, <1>2, <1>3, <2>1 DEF IInv, Shape, Pool
<1>5. WithinLimits'
  <2>1. ASSUME NEW s \in Scans, NEW c \in Classes
        PROVE  slots'[s][c] <= Ceiling(s, c)
    <3>1. slots[s][c] \in Int /\ slots[s][c] <= Ceiling(s, c)
      BY DEF IInv, Shape, WithinLimits
    <3>2. slots'[s][c] <= slots[s][c]
      <4>1. CASE s = ScanOf[t]
        BY <1>3, <3>1, <4>1
      <4>2. CASE s # ScanOf[t]
        BY <1>3, <3>1, <4>2
      <4>3. QED
        BY <4>1, <4>2
    <3>3. slots'[s][c] \in Int
      BY <1>3
    <3>4. QED
      BY <3>1, <3>2, <3>3, CeilingNat
  <2>2. used'[Daemon].cpus <= CPUBudget /\ used'[Daemon].memory <= MemoryBudget
    <3>1. /\ used[Daemon].cpus \in Int /\ used[Daemon].memory \in Int
          /\ used[Daemon].cpus <= CPUBudget
          /\ used[Daemon].memory <= MemoryBudget
      BY DEF IInv, Shape, WithinLimits, Pools
    <3>2. CASE Pool(t) = Daemon
      BY <1>3, <3>1, <3>2, Demand, AdmissionAssumption DEF AdmissionAssumption
    <3>3. CASE Pool(t) # Daemon
      BY <1>3, <3>1, <3>3 DEF Pools
    <3>4. QED
      BY <3>2, <3>3
  <2>3. QED
    BY <2>1, <2>2 DEF WithinLimits, Ceiling
<1>6. NoLostWakeup'
  <2>1. SUFFICES ASSUME NEW u \in Tools, state'[u] = "waiting",
                        changed'[Pool(u)] = seen'[u]
                 PROVE  ~Fits(u)'
    BY DEF NoLostWakeup, Pool
  <2>2. Pool(u) # Pool(t)
    BY <1>1, <1>2, <2>1, Demand DEF IInv, Shape
  <2>3. ScanOf[u] # ScanOf[t]
    BY <2>2, OnePool
  <2>4. slots'[ScanOf[u]] = slots[ScanOf[u]] /\ used'[Pool(u)] = used[Pool(u)]
    BY <1>3, <2>2, <2>3, Demand
  <2>5. ~Fits(u)
    BY <1>1, <1>2, <2>1, <2>2, Demand DEF IInv, NoLostWakeup
  <2>6. QED
    BY <2>4, <2>5 DEF Fits, Pool, Budgeted, CPUs, Ceiling
<1>7. QED
  BY <1>4, <1>5, <1>6 DEF IInv

\* Cancelling contexts touches none of it.
LEMMA CancelStep ==
    ASSUME IInv, UNCHANGED <<state, slots, used, changed, seen>> PROVE IInv'
  BY DEF IInv, Shape, WithinLimits, NoLostWakeup, Fits, Pool

LEMMA Inductive == IInv /\ [Next]_vars => IInv'
<1> SUFFICES ASSUME IInv, [Next]_vars PROVE IInv'
  OBVIOUS
<1>1. ASSUME NEW t \in Tools, StartTool(t) PROVE IInv'
  <2>1. PICK s \in {"refused", "asking"} : Goto(t, s)
    BY <1>1 DEF StartTool
  <2>2. QED
    BY <1>1, <2>1, QuietStep DEF StartTool, States
<1>2. ASSUME NEW t \in Tools, SkipTool(t) PROVE IInv'
  BY <1>2, QuietStep DEF SkipTool, States
<1>3. ASSUME NEW t \in Tools, Admit(t) PROVE IInv'
  BY <1>3, AdmitStep
<1>4. ASSUME NEW t \in Tools, Wait(t) PROVE IInv'
  BY <1>4, WaitStep
<1>5. ASSUME NEW t \in Tools, Wake(t) PROVE IInv'
  BY <1>5, QuietStep DEF Wake, States
<1>6. ASSUME NEW t \in Tools, FinishTool(t) PROVE IInv'
  BY <1>6, FinishStep
<1>7. ASSUME NEW t \in Tools, CancelTool(t) PROVE IInv'
  BY <1>7, CancelStep DEF CancelTool
<1>8. ASSUME NEW s \in Scans, CancelScan(s) PROVE IInv'
  BY <1>8, CancelStep DEF CancelScan
<1>9. CASE UNCHANGED vars
  BY <1>9, CancelStep DEF vars
<1>10. QED
  BY <1>1, <1>2, <1>3, <1>4, <1>5, <1>6, <1>7, <1>8, <1>9 DEF Next, Run

LEMMA Invariance == Spec => []IInv
  BY InitInv, Inductive, PTL DEF Spec

\* However many scans share the daemon, their running tools never exceed its
\* budget, nor those of one scan its ceilings.
THEOREM LimitsHold == Spec => []WithinLimits
<1>1. IInv => WithinLimits
  BY DEF IInv
<1>2. QED
  BY <1>1, Invariance, PTL

\* No waiter misses the release that would admit it.
THEOREM WakeupsKept == Spec => []NoLostWakeup
<1>1. IInv => NoLostWakeup
  BY DEF IInv
<1>2. QED
  BY <1>1, Invariance, PTL

-----------------------------------------------------------------------------
First(R) == CHOOSE x \in R : TRUE

\* h gives the sum of the weights w of every subset of S, the way the folds of
\* the community modules compute it.
Sums(h, w, S) ==
    h = [R \in SUBSET S |->
           IF R = {} THEN 0 ELSE w[First(R)] + h[R \ {First(R)}]]

LEMMA FirstIn == ASSUME NEW R, R # {} PROVE First(R) \in R
  BY DEF First

\* The sets of a finite set are ordered by their sizes.
LEMMA Smaller ==
    ASSUME NEW S, IsFiniteSet(S), NEW R \in SUBSET S, NEW x \in R
    PROVE  /\ R \ {x} \in SUBSET S
           /\ Cardinality(R) \in Nat /\ Cardinality(R \ {x}) \in Nat
           /\ Cardinality(R \ {x}) < Cardinality(R)
<1>1. IsFiniteSet(R)
  BY FS_Subset
<1>2. /\ IsFiniteSet(R \ {x})
      /\ Cardinality(R \ {x}) = Cardinality(R) - 1
  BY <1>1, FS_RemoveElement
<1>3. Cardinality(R) \in Nat /\ Cardinality(R \ {x}) \in Nat
  BY <1>1, <1>2, FS_CardinalityType
<1>4. QED
  BY <1>2, <1>3

\* A set of sizes has a least one.
LEMMA Smallest ==
    ASSUME NEW T \in SUBSET Nat, T # {}
    PROVE  \E n \in T : \A m \in T : ~ (m < n)
<1>1. \E n \in T : \A m \in T : ~ (<<m, n>> \in OpToRel(<, Nat))
  BY NatLessThanWellFounded, WFMin
<1>2. QED
  BY <1>1 DEF OpToRel

\* Two ways to sum agree where their weights do.
LEMMA SumsAgree ==
    ASSUME NEW S, NEW T, NEW g, NEW h, NEW v, NEW w,
           IsFiniteSet(S), Sums(g, v, S), Sums(h, w, T),
           NEW A \in SUBSET S, A \in SUBSET T, \A x \in A : v[x] = w[x]
    PROVE  g[A] = h[A]
<1> DEFINE Bad == {R \in SUBSET A : g[R] # h[R]}
           Sizes == {Cardinality(R) : R \in Bad}
<1>1. SUFFICES ASSUME Bad # {} PROVE FALSE
  OBVIOUS
<1>2. Sizes \in SUBSET Nat /\ Sizes # {}
  <2>1. \A R \in Bad : Cardinality(R) \in Nat
    BY FS_Subset, FS_CardinalityType
  <2>2. QED
    BY <1>1, <2>1
<1>3. PICK R \in Bad : \A Q \in Bad : ~ (Cardinality(Q) < Cardinality(R))
  BY <1>2, Smallest
<1>4. R # {}
  BY DEF Sums
<1>5. First(R) \in R /\ First(R) \in A
  BY <1>4, FirstIn
<1>6. /\ R \ {First(R)} \in SUBSET A
      /\ Cardinality(R \ {First(R)}) < Cardinality(R)
  BY <1>5, Smaller
<1>7. g[R \ {First(R)}] = h[R \ {First(R)}]
  BY <1>3, <1>6
<1>8. v[First(R)] = w[First(R)]
  BY <1>5
<1>9. g[R] = v[First(R)] + g[R \ {First(R)}]
  BY <1>4 DEF Sums
<1>10. h[R] = w[First(R)] + h[R \ {First(R)}]
  BY <1>4 DEF Sums
<1>11. QED
  BY <1>7, <1>8, <1>9, <1>10

LEMMA SumsExist ==
    ASSUME NEW S, IsFiniteSet(S), NEW w PROVE \E h : Sums(h, w, S)
<1> DEFINE D(n) == {R \in SUBSET S : Cardinality(R) <= n}
           Is(h, n) == h = [R \in D(n) |->
                              IF R = {} THEN 0
                              ELSE w[First(R)] + h[R \ {First(R)}]]
           Bad == {n \in Nat : ~ \E h : Is(h, n)}
<1>1. \A R \in SUBSET S : Cardinality(R) \in Nat /\ Cardinality(R) <= Cardinality(S)
  BY FS_Subset, FS_CardinalityType
<1>2. Bad = {}
  <2>1. SUFFICES ASSUME Bad # {} PROVE FALSE
    OBVIOUS
  <2>2. PICK n \in Bad : \A m \in Bad : ~ (m < n)
    BY <2>1, Smallest
  <2>3. CASE n = 0
    <3>1. \A R \in D(0) : R = {}
      BY <1>1, FS_Subset, FS_EmptySet
    <3>2. Is([R \in D(0) |-> 0], 0)
      BY <3>1
    <3>3. QED
      BY <2>2, <2>3, <3>2
  <2>4. CASE n # 0
    <3>1. n - 1 \in Nat /\ n - 1 < n
      BY <2>4
    <3>2. PICK h : Is(h, n - 1)
      BY <2>2, <3>1
    <3> DEFINE g == [R \in D(n) |-> IF R = {} THEN 0
                                    ELSE w[First(R)] + h[R \ {First(R)}]]
    <3>3. ASSUME NEW R \in D(n), R # {}
          PROVE  g[R \ {First(R)}] = h[R \ {First(R)}]
      <4> DEFINE Q == R \ {First(R)}
      <4>1. First(R) \in R
        BY <3>3, FirstIn
      <4>2. Q \in SUBSET S /\ Cardinality(Q) \in Nat /\ Cardinality(Q) < Cardinality(R)
            /\ Cardinality(R) \in Nat
        BY <4>1, Smaller
      <4>3. Q \in D(n - 1) /\ Q \in D(n)
        BY <4>2, <3>1
      <4>4. g[Q] = IF Q = {} THEN 0 ELSE w[First(Q)] + h[Q \ {First(Q)}]
        BY <4>3
      <4>5. h[Q] = IF Q = {} THEN 0 ELSE w[First(Q)] + h[Q \ {First(Q)}]
        <5> HIDE DEF Q
        <5>1. QED
          BY <3>2, <4>3
      <4>6. QED
        BY <4>4, <4>5
    <3>4. g = [R \in D(n) |-> IF R = {} THEN 0 ELSE w[First(R)] + g[R \ {First(R)}]]
      BY <3>3
    <3>5. QED
      BY <2>2, <3>4
  <2>5. QED
    BY <2>3, <2>4
<1>3. Cardinality(S) \in Nat /\ D(Cardinality(S)) = SUBSET S
  BY <1>1, FS_CardinalityType
<1>4. PICK h : Is(h, Cardinality(S))
  BY <1>2, <1>3
<1>5. Sums(h, w, S)
  BY <1>3, <1>4 DEF Sums
<1>6. QED
  BY <1>5

\* Integer weights, and sums that are those of any element and the rest,
\* whichever the fold takes first.
Weighs(w, S) == \A x \in S : w[x] \in Int
Splits(h, w, S) ==
    /\ \A R \in SUBSET S : h[R] \in Int
    /\ \A R \in SUBSET S : \A x \in R : h[R] = w[x] + h[R \ {x}]

LEMMA SumsSplit ==
    ASSUME NEW S, IsFiniteSet(S), NEW w, Weighs(w, S), NEW h, Sums(h, w, S)
    PROVE  Splits(h, w, S)
<1> DEFINE Good(R) == h[R] \in Int /\ \A x \in R : h[R] = w[x] + h[R \ {x}]
           Bad == {R \in SUBSET S : ~ Good(R)}
           Sizes == {Cardinality(R) : R \in Bad}
<1>0. /\ h[{}] = 0
      /\ \A R \in SUBSET S : R # {} => h[R] = w[First(R)] + h[R \ {First(R)}]
  BY DEF Sums
<1>1. Bad = {}
  <2>1. SUFFICES ASSUME Bad # {} PROVE FALSE
    OBVIOUS
  <2>2. Sizes \in SUBSET Nat /\ Sizes # {}
    <3>1. \A R \in Bad : Cardinality(R) \in Nat
      BY FS_Subset, FS_CardinalityType
    <3>2. QED
      BY <2>1, <3>1
  <2>3. PICK R \in Bad : \A Q \in Bad : ~ (Cardinality(Q) < Cardinality(R))
    BY <2>2, Smallest
  <2>4. R # {}
    <3>1. Good({})
      BY <1>0
    <3>2. QED
      BY <2>3, <3>1
  <2>5. \A x \in R : R \ {x} \in SUBSET S /\ Good(R \ {x})
    <3> HIDE DEF Good
    <3>1. R \in SUBSET S
      BY <2>3
    <3>2. TAKE x \in R
    <3>3. R \ {x} \in SUBSET S /\ Cardinality(R \ {x}) < Cardinality(R)
      BY <3>1, Smaller
    <3>4. QED
      BY <2>3, <3>3
  <2> DEFINE y == First(R)
  <2>6. y \in R
    BY <2>4, FirstIn
  <2>7. h[R] = w[y] + h[R \ {y}]
    BY <1>0, <2>4
  <2>8. \A x \in R : w[x] \in Int
    BY DEF Weighs
  <2>9. h[R] \in Int
    <3>1. h[R \ {y}] \in Int /\ w[y] \in Int
      BY <2>5, <2>6, <2>8
    <3>2. QED
      BY <2>7, <3>1
  <2> HIDE DEF y
  <2>10. ASSUME NEW x \in R, x # y PROVE h[R] = w[x] + h[R \ {x}]
    <3>1. x \in R \ {y} /\ y \in R \ {x}
      BY <2>6, <2>10
    <3>2. h[R \ {y}] = w[x] + h[(R \ {y}) \ {x}]
      BY <2>5, <2>6, <3>1
    <3>3. h[R \ {x}] = w[y] + h[(R \ {x}) \ {y}]
      BY <2>5, <2>10, <3>1
    <3>4. (R \ {y}) \ {x} = (R \ {x}) \ {y}
      OBVIOUS
    <3>5. h[(R \ {x}) \ {y}] \in Int
      <4>1. (R \ {x}) \ {y} \in SUBSET S
        OBVIOUS
      <4>2. Cardinality((R \ {x}) \ {y}) < Cardinality(R)
        <5>1. /\ Cardinality((R \ {x}) \ {y}) < Cardinality(R \ {x})
              /\ Cardinality((R \ {x}) \ {y}) \in Nat /\ Cardinality(R \ {x}) \in Nat
          <6>1. PICK Q \in SUBSET S : Q = R \ {x}
            BY <2>5, <2>10
          <6>2. y \in Q
            BY <3>1, <6>1
          <6>3. /\ Cardinality(Q \ {y}) < Cardinality(Q)
                /\ Cardinality(Q \ {y}) \in Nat /\ Cardinality(Q) \in Nat
            BY <6>2, Smaller
          <6>4. QED
            BY <6>1, <6>3
        <5>2. Cardinality(R \ {x}) < Cardinality(R) /\ Cardinality(R) \in Nat
          BY <2>10, Smaller
        <5>3. QED
          BY <5>1, <5>2
      <4>3. QED
        BY <2>3, <4>1, <4>2
    <3>6. w[x] \in Int /\ w[y] \in Int
      BY <2>6, <2>8
    <3> DEFINE rest == h[(R \ {x}) \ {y}]
    <3>7. h[R] = w[y] + (w[x] + rest)
      BY <2>7, <3>2, <3>4
    <3>8. h[R \ {x}] = w[y] + rest
      BY <3>3
    <3>9. w[y] + (w[x] + rest) = w[x] + (w[y] + rest)
      BY <3>5, <3>6
    <3>10. QED
      BY <3>7, <3>8, <3>9
  <2>11. Good(R)
    BY <2>7, <2>9, <2>10
  <2>12. QED
    BY <2>3, <2>11
<1>2. QED
  BY <1>1 DEF Splits

-----------------------------------------------------------------------------
LEMMA CPUFold ==
    ASSUME NEW A \in SUBSET Tools, IsFiniteSet(A), NEW w, NEW h,
           \A t \in A : w[t] = CPUs(t), Sums(h, w, A)
    PROVE  MapThenSumSet(CPUs, A) = h[A]
<1> DEFINE Eq(i) == i = [R \in SUBSET A |->
                           IF R = {} THEN 0
                           ELSE CPUs(CHOOSE x \in R : TRUE)
                                  + i[R \ {CHOOSE x \in R : TRUE}]]
           f == CHOOSE i : Eq(i)
<1>1. \A R \in SUBSET A : R # {} => w[First(R)] = CPUs(CHOOSE x \in R : TRUE)
  BY FirstIn DEF First
<1>2. Eq(h)
  BY <1>1 DEF Sums, First
<1>3. Eq(f)
  BY <1>2
<1>4. MapThenSumSet(CPUs, A) = f[A]
  BY DEF MapThenSumSet, MapThenFoldSet
<1> HIDE DEF f
<1>5. Sums(f, w, A)
  BY <1>1, <1>3 DEF Sums, First
<1>6. QED
  BY <1>4, <1>5, SumsAgree

LEMMA MemoryFold ==
    ASSUME NEW A \in SUBSET Tools, IsFiniteSet(A), NEW h, Sums(h, Memory, A)
    PROVE  MapThenSumSet(LAMBDA t : Memory[t], A) = h[A]
<1> DEFINE Eq(i) == i = [R \in SUBSET A |->
                           IF R = {} THEN 0
                           ELSE Memory[CHOOSE x \in R : TRUE]
                                  + i[R \ {CHOOSE x \in R : TRUE}]]
           f == CHOOSE i : Eq(i)
<1>1. Eq(h)
  BY DEF Sums, First
<1>2. Eq(f)
  BY <1>1
<1>3. MapThenSumSet(LAMBDA t : Memory[t], A) = f[A]
  BY DEF MapThenSumSet, MapThenFoldSet
<1> HIDE DEF f
<1>4. Sums(f, Memory, A)
  BY <1>2 DEF Sums, First
<1>5. QED
  BY <1>3, <1>4, SumsAgree

\* What the tools of A take of a pool.
Taken(A) == [cpus   |-> MapThenSumSet(CPUs, A),
             memory |-> MapThenSumSet(LAMBDA t : Memory[t], A)]

LEMMA TakenNone == Taken({}).cpus = 0 /\ Taken({}).memory = 0
<1>1. IsFiniteSet({}) /\ {} \in SUBSET Tools
  BY FS_EmptySet
<1>2. PICK h : Sums(h, Memory, {})
  BY <1>1, SumsExist
<1>3. h[{}] = 0
  BY <1>2 DEF Sums
<1>4. MapThenSumSet(CPUs, {}) = 0
  BY <1>1, <1>2, <1>3, CPUFold DEF Sums
<1>5. QED
  BY <1>1, <1>2, <1>3, <1>4, MemoryFold DEF Taken

\* A tool takes its own demand beside the others.
LEMMA TakenWith ==
    ASSUME NEW A \in SUBSET Tools, IsFiniteSet(A), NEW t \in A
    PROVE  /\ Taken(A \ {t}) \in [cpus : Int, memory : Int]
           /\ Taken(A).cpus = Taken(A \ {t}).cpus + CPUs(t)
           /\ Taken(A).memory = Taken(A \ {t}).memory + Memory[t]
<1> DEFINE B == A \ {t}
<1>0. PICK w : w = [u \in Tools |-> CPUs(u)]
  OBVIOUS
<1>1. B \in SUBSET Tools /\ IsFiniteSet(B) /\ B \in SUBSET A
  BY FS_RemoveElement
<1>2. \A u \in A : w[u] \in Int /\ w[u] = CPUs(u) /\ Memory[u] \in Int
  BY <1>0, Demand
<1> HIDE DEF B
<1>3. PICK f, g : Sums(f, w, A) /\ Sums(g, w, B)
  BY <1>1, SumsExist
<1>4. PICK h, i : Sums(h, Memory, A) /\ Sums(i, Memory, B)
  BY <1>1, SumsExist
<1>5. /\ MapThenSumSet(CPUs, A) = f[A]
      /\ MapThenSumSet(CPUs, B) = f[B]
  <2>1. g[B] = f[B]
    BY <1>1, <1>3, SumsAgree
  <2>2. \A u \in B : w[u] = CPUs(u)
    BY <1>1, <1>2
  <2>3. QED
    BY <1>1, <1>2, <1>3, <2>1, <2>2, CPUFold
<1>6. /\ MapThenSumSet(LAMBDA u : Memory[u], A) = h[A]
      /\ MapThenSumSet(LAMBDA u : Memory[u], B) = h[B]
  <2>1. i[B] = h[B]
    BY <1>1, <1>4, SumsAgree
  <2>2. QED
    BY <1>1, <1>4, <2>1, MemoryFold
<1>7. Splits(f, w, A)
  <2>1. Weighs(w, A)
    BY <1>2 DEF Weighs
  <2>2. QED
    BY <1>3, <2>1, SumsSplit
<1>8. Splits(h, Memory, A)
  <2>1. Weighs(Memory, A)
    BY <1>2 DEF Weighs
  <2>2. QED
    BY <1>4, <2>1, SumsSplit
<1>9. /\ f[B] \in Int /\ f[A] = CPUs(t) + f[B]
      /\ h[B] \in Int /\ h[A] = Memory[t] + h[B]
      /\ CPUs(t) \in Int /\ Memory[t] \in Int
  BY <1>1, <1>2, <1>7, <1>8 DEF B, Splits
<1>10. /\ Taken(A) = [cpus |-> f[A], memory |-> h[A]]
       /\ Taken(A \ {t}) = [cpus |-> f[B], memory |-> h[B]]
  BY <1>5, <1>6 DEF Taken, B
<1>11. QED
  BY <1>9, <1>10

-----------------------------------------------------------------------------
\* The tools that hold a slot of the class in the scan, and those on a pool:
\* finitely many, and the counters are theirs.
Holding(s, c) == {t \in Running(s) : Takes(t, c)}
AllRunning    == {t \in Tools : state[t] = "running"}

Ledger == Shape /\ IsFiniteSet(AllRunning) /\ Accounting

Accounts ==
    /\ \A s \in Scans, c \in Classes : slots[s][c] = Cardinality(Holding(s, c))
    /\ \A p \in Pools : /\ used[p].cpus = Taken(OnPool(p)).cpus
                        /\ used[p].memory = Taken(OnPool(p)).memory

LEMMA AccountingIs == Accounting <=> Accounts
  BY DEF Accounting, Accounts, Holding, Taken

LEMMA AccountingNextIs == Accounting' <=> Accounts'
  BY AccountingIs, PTL

LEMMA HoldingIs ==
    ASSUME NEW s, NEW c \in Classes, NEW u
    PROVE  /\ u \in Holding(s, c) <=> /\ u \in Tools /\ ScanOf[u] = s
                                      /\ state[u] = "running" /\ Takes(u, c)
           /\ u \in Holding(s, c)' <=> /\ u \in Tools /\ ScanOf[u] = s
                                       /\ state'[u] = "running" /\ Takes(u, c)
  BY DEF Holding, Running, Takes

LEMMA InitLedger == Init => Ledger
<1> SUFFICES ASSUME Init PROVE Ledger
  OBVIOUS
<1>1. Shape
  BY InitInv DEF IInv
<1>2. /\ \A s \in Scans, c \in Classes : Holding(s, c) = {}
      /\ \A p \in Pools : OnPool(p) = {}
      /\ AllRunning = {}
  BY DEF Init, Holding, Running, OnPool, AllRunning
<1>3. Accounting
  <2>1. Cardinality({}) = 0
    BY FS_EmptySet
  <2>2. QED
    BY <1>2, <2>1, TakenNone, AccountingIs DEF Init, Accounts
<1>4. QED
  BY <1>1, <1>2, <1>3, FS_EmptySet DEF Ledger

\* Steps that leave the counters and the running tools alone.
LEMMA LedgerSame ==
    ASSUME Ledger, Shape', UNCHANGED <<slots, used>>,
           \A u \in Tools : state'[u] = "running" <=> state[u] = "running"
    PROVE  Ledger'
<1>1. /\ \A s \in Scans, c \in Classes : Holding(s, c)' = Holding(s, c)
      /\ \A p \in Pools : OnPool(p)' = OnPool(p)
      /\ AllRunning' = AllRunning
  BY DEF Holding, Running, OnPool, AllRunning, Takes, Pool
<1>2. Accounting'
  BY <1>1, AccountingIs, AccountingNextIs DEF Ledger, Accounts
<1>3. QED
  BY <1>1, <1>2 DEF Ledger

\* The counters follow the one tool that starts to run (n = 1) or ends.
LEMMA LedgerStarts ==
    ASSUME Ledger, Shape', NEW t \in Tools, Charge(t, 1),
           state[t] # "running", state'[t] = "running",
           \A u \in Tools \ {t} : state'[u] = state[u]
    PROVE  Ledger'
<1>1. /\ \A c \in Classes :
            slots'[ScanOf[t]][c] = slots[ScanOf[t]][c]
                                     + IF Takes(t, c) THEN 1 ELSE 0
      /\ \A s \in Scans \ {ScanOf[t]} : slots'[s] = slots[s]
      /\ used'[Pool(t)].cpus = used[Pool(t)].cpus + CPUs(t)
      /\ used'[Pool(t)].memory = used[Pool(t)].memory + Memory[t]
      /\ \A p \in Pools \ {Pool(t)} : used'[p] = used[p]
  <2>1. 1 * CPUs(t) = CPUs(t) /\ 1 * Memory[t] = Memory[t]
    BY Demand
  <2>2. Shape
    BY DEF Ledger
  <2>3. QED
    BY <2>1, <2>2, Charging
<1>2. IsFiniteSet(AllRunning')
  <2>1. AllRunning' = AllRunning \cup {t}
    BY DEF AllRunning
  <2>2. QED
    BY <2>1, FS_AddElement DEF Ledger
<1>3. ASSUME NEW s \in Scans, NEW c \in Classes
      PROVE  slots'[s][c] = Cardinality(Holding(s, c)')
  <2>1. /\ slots[s][c] = Cardinality(Holding(s, c))
        /\ IsFiniteSet(Holding(s, c)) /\ Cardinality(Holding(s, c)) \in Nat
    <3>1. Holding(s, c) \in SUBSET AllRunning
      BY DEF Holding, Running, AllRunning
    <3>2. QED
      BY <3>1, AccountingIs, FS_Subset, FS_CardinalityType DEF Ledger, Accounts
  <2>2. CASE s = ScanOf[t] /\ Takes(t, c)
    <3>1. Holding(s, c)' = Holding(s, c) \cup {t} /\ t \notin Holding(s, c)
      BY <2>2, HoldingIs
    <3>2. Cardinality(Holding(s, c)') = Cardinality(Holding(s, c)) + 1
      BY <2>1, <3>1, FS_AddElement
    <3>3. slots'[s][c] = slots[s][c] + 1
      BY <1>1, <2>2
    <3>4. QED
      BY <2>1, <3>2, <3>3
  <2>3. CASE s = ScanOf[t] /\ ~Takes(t, c)
    <3>1. Holding(s, c)' = Holding(s, c)
      <4>1. \A u : u \in Holding(s, c)' <=> u \in Holding(s, c)
        BY <2>3, HoldingIs
      <4>2. QED
        BY <4>1
    <3>2. QED
      BY <1>1, <2>1, <2>3, <3>1
  <2>4. CASE s # ScanOf[t]
    <3>1. Holding(s, c)' = Holding(s, c)
      BY <2>4, HoldingIs
    <3>2. QED
      BY <1>1, <2>1, <2>4, <3>1
  <2>5. QED
    BY <2>2, <2>3, <2>4
<1>4. ASSUME NEW p \in Pools
      PROVE  /\ used'[p].cpus = Taken(OnPool(p)').cpus
             /\ used'[p].memory = Taken(OnPool(p)').memory
  <2>1. /\ used[p].cpus = Taken(OnPool(p)).cpus
        /\ used[p].memory = Taken(OnPool(p)).memory
    BY AccountingIs DEF Ledger, Accounts
  <2>2. CASE p = Pool(t)
    <3>1. /\ OnPool(p)' \in SUBSET Tools /\ t \in OnPool(p)'
          /\ OnPool(p) = OnPool(p)' \ {t}
      BY <2>2 DEF OnPool, Pool
    <3>2. IsFiniteSet(OnPool(p)')
      <4>1. OnPool(p)' \in SUBSET AllRunning'
        BY DEF OnPool, AllRunning
      <4>2. QED
        BY <1>2, <4>1, FS_Subset
    <3>3. PICK A \in SUBSET Tools : A = OnPool(p)'
      BY <3>1
    <3>4. /\ Taken(A).cpus = Taken(A \ {t}).cpus + CPUs(t)
          /\ Taken(A).memory = Taken(A \ {t}).memory + Memory[t]
      BY <3>1, <3>2, <3>3, TakenWith
    <3>5. QED
      BY <1>1, <2>1, <2>2, <3>1, <3>3, <3>4
  <2>3. CASE p # Pool(t)
    <3>1. OnPool(p)' = OnPool(p)
      BY <2>3 DEF OnPool, Pool
    <3>2. QED
      BY <1>1, <2>1, <2>3, <3>1
  <2>4. QED
    BY <2>2, <2>3
<1>5. Accounting'
  BY <1>3, <1>4, AccountingNextIs DEF Accounts
<1>6. QED
  BY <1>2, <1>5 DEF Ledger

LEMMA LedgerEnds ==
    ASSUME Ledger, Shape', NEW t \in Tools, Charge(t, -1),
           state[t] = "running", state'[t] # "running",
           \A u \in Tools \ {t} : state'[u] = state[u]
    PROVE  Ledger'
<1>1. /\ \A c \in Classes :
            slots'[ScanOf[t]][c] = slots[ScanOf[t]][c]
                                     + IF Takes(t, c) THEN -1 ELSE 0
      /\ \A s \in Scans \ {ScanOf[t]} : slots'[s] = slots[s]
      /\ used'[Pool(t)].cpus = used[Pool(t)].cpus - CPUs(t)
      /\ used'[Pool(t)].memory = used[Pool(t)].memory - Memory[t]
      /\ \A p \in Pools \ {Pool(t)} : used'[p] = used[p]
  <2>1. /\ used[Pool(t)].cpus \in Int /\ used[Pool(t)].memory \in Int
        /\ CPUs(t) \in Int /\ Memory[t] \in Int
    BY Demand DEF Ledger, Shape
  <2>2. /\ used[Pool(t)].cpus + (-1) * CPUs(t) = used[Pool(t)].cpus - CPUs(t)
        /\ used[Pool(t)].memory + (-1) * Memory[t]
              = used[Pool(t)].memory - Memory[t]
    BY <2>1
  <2>3. Shape
    BY DEF Ledger
  <2>4. QED
    BY <2>2, <2>3, Charging
<1>2. IsFiniteSet(AllRunning')
  <2>1. AllRunning' \in SUBSET AllRunning
    BY DEF AllRunning
  <2>2. QED
    BY <2>1, FS_Subset DEF Ledger
<1>3. ASSUME NEW s \in Scans, NEW c \in Classes
      PROVE  slots'[s][c] = Cardinality(Holding(s, c)')
  <2>1. /\ slots[s][c] = Cardinality(Holding(s, c))
        /\ IsFiniteSet(Holding(s, c)) /\ Cardinality(Holding(s, c)) \in Nat
    <3>1. Holding(s, c) \in SUBSET AllRunning
      BY DEF Holding, Running, AllRunning
    <3>2. QED
      BY <3>1, AccountingIs, FS_Subset, FS_CardinalityType DEF Ledger, Accounts
  <2>2. CASE s = ScanOf[t] /\ Takes(t, c)
    <3>1. Holding(s, c)' = Holding(s, c) \ {t} /\ t \in Holding(s, c)
      BY <2>2, HoldingIs
    <3>2. Cardinality(Holding(s, c)') = Cardinality(Holding(s, c)) - 1
      BY <2>1, <3>1, FS_RemoveElement
    <3>3. slots'[s][c] = slots[s][c] + (-1)
      BY <1>1, <2>2
    <3>4. QED
      BY <2>1, <3>2, <3>3
  <2>3. CASE s = ScanOf[t] /\ ~Takes(t, c)
    <3>1. Holding(s, c)' = Holding(s, c)
      <4>1. \A u : u \in Holding(s, c)' <=> u \in Holding(s, c)
        BY <2>3, HoldingIs
      <4>2. QED
        BY <4>1
    <3>2. QED
      BY <1>1, <2>1, <2>3, <3>1
  <2>4. CASE s # ScanOf[t]
    <3>1. Holding(s, c)' = Holding(s, c)
      BY <2>4, HoldingIs
    <3>2. QED
      BY <1>1, <2>1, <2>4, <3>1
  <2>5. QED
    BY <2>2, <2>3, <2>4
<1>4. ASSUME NEW p \in Pools
      PROVE  /\ used'[p].cpus = Taken(OnPool(p)').cpus
             /\ used'[p].memory = Taken(OnPool(p)').memory
  <2>1. /\ used[p].cpus = Taken(OnPool(p)).cpus
        /\ used[p].memory = Taken(OnPool(p)).memory
    BY AccountingIs DEF Ledger, Accounts
  <2>2. CASE p = Pool(t)
    <3>1. /\ OnPool(p) \in SUBSET Tools /\ t \in OnPool(p)
          /\ OnPool(p)' = OnPool(p) \ {t}
      BY <2>2 DEF OnPool, Pool
    <3>2. IsFiniteSet(OnPool(p))
      <4>1. OnPool(p) \in SUBSET AllRunning
        BY DEF OnPool, AllRunning
      <4>2. QED
        BY <4>1, FS_Subset DEF Ledger
    <3>3. PICK A \in SUBSET Tools : A = OnPool(p)
      BY <3>1
    <3>4. /\ Taken(A).cpus = Taken(A \ {t}).cpus + CPUs(t)
          /\ Taken(A).memory = Taken(A \ {t}).memory + Memory[t]
          /\ Taken(A \ {t}).cpus \in Int /\ Taken(A \ {t}).memory \in Int
      BY <3>1, <3>2, <3>3, TakenWith
    <3>5. CPUs(t) \in Int /\ Memory[t] \in Int
      BY Demand
    <3>6. QED
      BY <1>1, <2>1, <2>2, <3>1, <3>3, <3>4, <3>5
  <2>3. CASE p # Pool(t)
    <3>1. OnPool(p)' = OnPool(p)
      BY <2>3 DEF OnPool, Pool
    <3>2. QED
      BY <1>1, <2>1, <2>3, <3>1
  <2>4. QED
    BY <2>2, <2>3
<1>5. Accounting'
  BY <1>3, <1>4, AccountingNextIs DEF Accounts
<1>6. QED
  BY <1>2, <1>5 DEF Ledger

LEMMA LedgerStep == Ledger /\ IInv' /\ [Next]_vars => Ledger'
<1> SUFFICES ASSUME Ledger, IInv', [Next]_vars PROVE Ledger'
  OBVIOUS
<1>0. Shape /\ Shape'
  BY DEF Ledger, IInv
<1>1. ASSUME NEW t \in Tools, StartTool(t) \/ SkipTool(t) \/ Wait(t) \/ Wake(t)
      PROVE  Ledger'
  <2>1. \A u \in Tools : state'[u] = "running" <=> state[u] = "running"
    BY <1>0, <1>1 DEF Shape, StartTool, SkipTool, Wait, Wake, Goto
  <2>2. UNCHANGED <<slots, used>>
    BY <1>1 DEF StartTool, SkipTool, Wait, Wake
  <2>3. QED
    BY <1>0, <2>1, <2>2, LedgerSame
<1>2. ASSUME NEW t \in Tools, Admit(t) PROVE Ledger'
  <2>1. /\ state[t] # "running" /\ state'[t] = "running"
        /\ \A u \in Tools \ {t} : state'[u] = state[u]
    BY <1>0, <1>2 DEF Shape, Admit, Goto
  <2>2. QED
    BY <1>0, <1>2, <2>1, LedgerStarts DEF Admit
<1>3. ASSUME NEW t \in Tools, FinishTool(t) PROVE Ledger'
  <2>1. /\ state[t] = "running" /\ state'[t] # "running"
        /\ \A u \in Tools \ {t} : state'[u] = state[u]
    BY <1>0, <1>3 DEF Shape, FinishTool, Goto
  <2>2. Charge(t, -1)
    BY <1>3 DEF FinishTool, Releases
  <2>3. QED
    BY <1>0, <2>1, <2>2, LedgerEnds
<1>4. ASSUME NEW t \in Tools, CancelTool(t) PROVE Ledger'
  BY <1>0, <1>4, LedgerSame DEF CancelTool
<1>5. ASSUME NEW s \in Scans, CancelScan(s) PROVE Ledger'
  BY <1>0, <1>5, LedgerSame DEF CancelScan
<1>6. CASE UNCHANGED vars
  BY <1>0, <1>6, LedgerSame DEF vars
<1>7. QED
  BY <1>1, <1>2, <1>3, <1>4, <1>5, <1>6 DEF Next, Run

\* However the runs of any number of tools interleave, are cancelled and end,
\* each counter is at every moment what the running tools together need:
\* nothing is leaked, taken in part or freed twice.
THEOREM AccountsBalance == Spec => []Accounting
<1>1. Ledger => Accounting
  BY DEF Ledger
<1>2. QED
  BY <1>1, InitLedger, LedgerStep, Invariance, PTL DEF Spec

\* What is taken is never negative, again by a smallest counterexample.
LEMMA TakenNat ==
    ASSUME NEW A \in SUBSET Tools, IsFiniteSet(A)
    PROVE  Taken(A).cpus \in Nat /\ Taken(A).memory \in Nat
<1> DEFINE Good(R) == Taken(R).cpus \in Nat /\ Taken(R).memory \in Nat
           Bad == {n \in Nat : \E R \in SUBSET A : Cardinality(R) = n /\ ~ Good(R)}
<1>1. ASSUME Bad # {} PROVE FALSE
  <2>1. PICK n \in Bad : \A m \in Bad : ~ (m < n)
    BY <1>1, Smallest
  <2>2. PICK R \in SUBSET A : Cardinality(R) = n /\ ~ Good(R)
    BY <2>1
  <2>3. CASE R = {}
    BY <2>2, <2>3, TakenNone
  <2>4. CASE R # {}
    <3>1. PICK t \in R : t \in Tools
      BY <2>4
    <3>2. /\ R \ {t} \in SUBSET A
          /\ Cardinality(R) \in Nat /\ Cardinality(R \ {t}) \in Nat
          /\ Cardinality(R \ {t}) < Cardinality(R)
      BY <3>1, Smaller
    <3>3. Good(R \ {t})
      BY <2>1, <2>2, <3>2
    <3>4. IsFiniteSet(R) /\ R \in SUBSET Tools
      BY FS_Subset
    <3>5. /\ Taken(R).cpus = Taken(R \ {t}).cpus + CPUs(t)
          /\ Taken(R).memory = Taken(R \ {t}).memory + Memory[t]
      BY <3>1, <3>4, TakenWith
    <3>6. CPUs(t) \in Nat /\ Memory[t] \in Nat
      BY <3>1, Demand
    <3> HIDE DEF Bad
    <3>7. QED
      BY <2>2, <3>3, <3>5, <3>6
  <2>5. QED
    BY <2>3, <2>4
<1>2. Cardinality(A) \in Nat
  BY FS_CardinalityType
<1>3. QED
  BY <1>1, <1>2

CancelsTools == cancelled \subseteq Tools

LEMMA CancelledKept == CancelsTools /\ [Next]_vars => CancelsTools'
<1> SUFFICES ASSUME CancelsTools, [Next]_vars PROVE cancelled' \subseteq Tools
  BY DEF CancelsTools
<1> USE DEF CancelsTools
<1>1. ASSUME NEW t \in Tools, Run(t) PROVE UNCHANGED cancelled
  BY <1>1 DEF Run, StartTool, SkipTool, Admit, Wait, Wake, FinishTool
<1>2. CASE \E t \in Tools : CancelTool(t)
  BY <1>2 DEF CancelTool
<1>3. CASE \E s \in Scans : CancelScan(s)
  BY <1>3 DEF CancelScan
<1>4. CASE UNCHANGED vars
  BY <1>4 DEF vars
<1>5. QED
  BY <1>1, <1>2, <1>3, <1>4, Zenon DEF Next

\* The counters are natural numbers: no release takes one below zero.
THEOREM AdmissionTypeHolds == Spec => []TypeOK
<1>1. Ledger /\ CancelsTools => TypeOK
  <2> SUFFICES ASSUME Ledger, CancelsTools PROVE TypeOK
    OBVIOUS
  <2>1. Shape /\ Accounts /\ IsFiniteSet(AllRunning)
    BY AccountingIs DEF Ledger
  <2>2. ASSUME NEW s \in Scans, NEW c \in Classes PROVE slots[s][c] \in Nat
    <3>1. Holding(s, c) \subseteq AllRunning
      BY DEF Holding, Running, AllRunning
    <3>2. IsFiniteSet(Holding(s, c))
      BY <2>1, <3>1, FS_Subset
    <3>3. QED
      BY <2>1, <3>2, FS_CardinalityType DEF Accounts
  <2>3. ASSUME NEW p \in Pools PROVE used[p].cpus \in Nat /\ used[p].memory \in Nat
    <3>1. OnPool(p) \in SUBSET Tools /\ OnPool(p) \subseteq AllRunning
      BY DEF OnPool, AllRunning
    <3>2. IsFiniteSet(OnPool(p))
      BY <2>1, <3>1, FS_Subset
    <3>3. QED
      BY <2>1, <3>1, <3>2, TakenNat DEF Accounts
  <2>4. slots \in [Scans -> [Classes -> Nat]]
    <3>1. slots = [s \in Scans |-> slots[s]]
      BY <2>1 DEF Shape
    <3>2. \A s \in Scans : slots[s] = [c \in Classes |-> slots[s][c]]
      BY <2>1 DEF Shape
    <3>3. QED
      BY <2>2, <3>1, <3>2
  <2>5. used \in [Pools -> [cpus : Nat, memory : Nat]]
    <3>1. \A p \in Pools : used[p] \in [cpus : Nat, memory : Nat]
      BY <2>1, <2>3 DEF Shape
    <3>2. used = [p \in Pools |-> used[p]]
      BY <2>1 DEF Shape
    <3>3. QED
      BY <3>1, <3>2
  <2>6. QED
    BY <2>1, <2>4, <2>5 DEF TypeOK, Shape, CancelsTools
<1>2. Init => CancelsTools
  BY DEF Init, CancelsTools
<1>3. QED
  BY <1>1, <1>2, InitLedger, LedgerStep, CancelledKept, Invariance, PTL DEF Spec

-----------------------------------------------------------------------------
(* Custom builds                                                           *)

BuildPlaces == {"idle", "begin", "list", "next", "start", "build", "report", "record", "final"}
BuildResults == {"none", "completed", "partial", "failed", "cancelled"}
VariantStates == {"queued", "running", "completed", "failed", "cancelled"}

BuildRow == [state : Leased \cup Ended \cup {"queued"}, att : 0..MaxAttempts,
        token : Nat, cancel : BOOLEAN]
BuildMemory == [pc : BuildPlaces, token : Nat, todo : SUBSET Variants, begun : SUBSET Variants,
           cur : Variants \cup {None}, failing : BOOLEAN, stop : BOOLEAN, out : BuildResults]

BuildTyped ==
  /\ build \in BuildRow /\ vs \in [Variants -> VariantStates] /\ fresh \in BOOLEAN
  /\ claims \in Nat /\ held \in [Workers -> BuildMemory]

(* The variants bear the verdict out.                                      *)
Agrees(verdict) ==
  /\ verdict = "completed" => \A v \in Variants : vs[v] = "completed"
  /\ verdict = "partial" => {"completed", "failed"} \subseteq {vs[v] : v \in Variants}

(* What a worker h is about to write.                                      *)
WriterSound(h) ==
  /\ h.token <= claims /\ (h.pc # "idle" => h.token > 0)
  /\ h.pc \in {"start", "build", "report", "record"} => h.cur \in Variants
  /\ h.pc \in {"report", "record"} => h.out \in {"completed", "failed"}
  /\ h.pc = "final" => h.out \in Ended
  /\ h.pc = "final" /\ h.token = build.token => Agrees(h.out)

(* Variants are cancelled only with their build.                           *)
TogetherCancelled == build.state # "cancelled" => \A v \in Variants : vs[v] # "cancelled"

BuildSound ==
  /\ TogetherCancelled
  /\ build.state \notin Leased => build.token = 0
  /\ Agrees(build.state) /\ CancelKept

BuildInv == BuildTyped /\ BuildSound /\ \A w \in Workers : WriterSound(held[w])

-----------------------------------------------------------------------------
(* Building blocks                                                         *)

(* A verdict stays true as long as no finished variant is touched.         *)
Calm == \A v \in Variants : vs[v] \in {"completed", "failed"} => vs'[v] = vs[v]

NoneCancelled == \A v \in Variants : vs'[v] = "cancelled" => vs[v] = "cancelled"

LEMMA AgreesKept ==
    ASSUME Calm, NEW verdict, Agrees(verdict) PROVE Agrees(verdict)'
<1>1. CASE verdict = "completed"
  BY <1>1 DEF Agrees, Calm
<1>2. CASE verdict = "partial"
  <2>1. PICK a \in Variants, b \in Variants : vs[a] = "completed" /\ vs[b] = "failed"
    BY <1>2 DEF Agrees
  <2>2. vs'[a] = "completed" /\ vs'[b] = "failed"
    BY <2>1 DEF Calm
  <2>3. QED
    BY <1>2, <2>2 DEF Agrees
<1>3. CASE verdict \notin {"completed", "partial"}
  BY <1>3 DEF Agrees
<1>4. QED
  BY <1>1, <1>2, <1>3

LEMMA BuilderIdle == BuildInv => Idle \in BuildMemory /\ WriterSound(Idle)
  BY DEF BuildInv, BuildTyped, WriterSound, Idle, BuildMemory, BuildPlaces, BuildResults

(* One worker moves on; the build keeps its token, and so its state is     *)
(* still true if it is new.                                                *)
LEMMA BuildMoved ==
    ASSUME BuildInv, UNCHANGED <<build, claims>>, fresh' \in BOOLEAN,
           vs' \in [Variants -> VariantStates], Calm, NoneCancelled,
           NEW w \in Workers, NEW h \in BuildMemory, WriterSound(h), held' = [held EXCEPT ![w] = h]
    PROVE  BuildInv'
<1>1. BuildTyped'
  BY DEF BuildInv, BuildTyped
<1>2. BuildSound'
  <2>1. PICK s : s = build.state
    OBVIOUS
  <2>2. Agrees(s)'
    BY <2>1, AgreesKept DEF BuildInv, BuildSound
  <2>3. QED
    BY <2>1, <2>2 DEF BuildInv, BuildSound, CancelKept, Agrees, TogetherCancelled, NoneCancelled
<1>3. ASSUME NEW u \in Workers PROVE WriterSound(held[u])'
  <2>1. WriterSound(held'[u])
    BY DEF BuildInv, BuildTyped
  <2>2. QED
    BY <2>1, AgreesKept DEF WriterSound
<1>4. QED
  BY <1>1, <1>2, <1>3 DEF BuildInv

(* The build leaves its lease or its queue.                                *)
LEMMA BuildParted ==
    ASSUME BuildInv, UNCHANGED claims, build' \in BuildRow, build'.token = 0,
           build'.state \notin Leased, Agrees(build.state)', CancelKept',
           TogetherCancelled', fresh' \in BOOLEAN, vs' \in [Variants -> VariantStates],
           NEW w \in Workers, NEW h \in BuildMemory, WriterSound(h), held' = [held EXCEPT ![w] = h]
    PROVE  BuildInv'
<1>1. BuildTyped'
  BY DEF BuildInv, BuildTyped
<1>2. BuildSound'
  BY DEF BuildSound
<1>3. ASSUME NEW u \in Workers PROVE WriterSound(held[u])'
  <2>1. WriterSound(held'[u]) /\ held'[u] \in BuildMemory
    BY DEF BuildInv, BuildTyped
  <2>2. held'[u].pc = "final" => held'[u].token # 0
    BY <2>1 DEF WriterSound, BuildMemory
  <2>3. QED
    BY <2>1, <2>2 DEF WriterSound
<1>4. QED
  BY <1>1, <1>2, <1>3 DEF BuildInv

(* Nothing but one worker's memory changes.                                *)
LEMMA BuildQuiet ==
    ASSUME BuildInv, UNCHANGED <<build, vs, claims>>, fresh' \in BOOLEAN,
           NEW w \in Workers, NEW h \in BuildMemory, WriterSound(h), held' = [held EXCEPT ![w] = h]
    PROVE  BuildInv'
  BY BuildMoved DEF BuildInv, BuildTyped, Calm, NoneCancelled

LEMMA BuildLeft ==
    ASSUME BuildInv, UNCHANGED <<build, vs, claims>>, fresh' \in BOOLEAN,
           NEW w \in Workers, Leave(w)
    PROVE  BuildInv'
  BY BuilderIdle, BuildQuiet DEF Leave

LEMMA SweepTyped ==
    ASSUME vs \in [Variants -> VariantStates], NEW from, NEW to \in VariantStates, Sweep(from, to)
    PROVE  vs' \in [Variants -> VariantStates]
  BY DEF Sweep

-----------------------------------------------------------------------------
(* The actions                                                             *)

LEMMA BuildClaimKeeps == ASSUME BuildInv, NEW w \in Workers, Claim(w) PROVE BuildInv'
<1> DEFINE h == [Idle EXCEPT !.pc = "begin", !.token = claims + 1]
<1>1. build \in BuildRow /\ claims \in Nat /\ MaxAttempts \in Nat /\ ~build.cancel
      /\ build.att < MaxAttempts /\ build.att \in 0..MaxAttempts
  BY BuildAssumption DEF Claim, Claimable, BuildInv, BuildTyped, BuildRow, BuildAssumption
<1>2. PICK t \in Nat : t = claims + 1
  BY <1>1
<1>3. PICK a \in 0..MaxAttempts : a = build.att + 1
  BY <1>1
<1>4. build' = [build EXCEPT !.state = "claimed", !.att = a, !.token = t]
      /\ claims' = t /\ fresh' = TRUE /\ vs' = vs
  BY <1>2, <1>3 DEF Claim
<1>5. build' \in BuildRow /\ build'.state = "claimed" /\ build'.token = t /\ ~build'.cancel
  BY <1>1, <1>4 DEF BuildRow, Leased
<1>6. h = [Idle EXCEPT !.pc = "begin", !.token = t] /\ held' = [held EXCEPT ![w] = h]
  BY <1>2 DEF Claim
<1> HIDE DEF h
<1>7. h \in BuildMemory /\ h.pc = "begin" /\ h.token = t
  BY <1>6, BuilderIdle DEF BuildMemory, BuildPlaces
<1>8. BuildTyped'
  BY <1>2, <1>4, <1>5, <1>6, <1>7 DEF BuildInv, BuildTyped
<1>9. BuildSound'
  BY <1>4, <1>5 DEF Claim, Claimable, BuildInv, BuildSound, Agrees, CancelKept, Leased, TogetherCancelled
<1>10. ASSUME NEW u \in Workers PROVE WriterSound(held[u])'
  <2>1. CASE u = w
    <3>1. held'[u] = h
      BY <2>1, <1>6 DEF BuildInv, BuildTyped
    <3>2. t <= t /\ t > 0
      BY <1>1, <1>2
    <3>3. QED
      BY <1>4, <1>7, <3>1, <3>2 DEF WriterSound
  <2>2. CASE u # w
    <3>1. held'[u] = held[u] /\ held[u] \in BuildMemory /\ WriterSound(held[u])
      BY <2>2, <1>6 DEF BuildInv, BuildTyped
    <3>2. held[u].token \in Nat /\ held[u].token <= claims
      BY <3>1 DEF BuildMemory, WriterSound
    <3>3. held[u].token <= t /\ held[u].token # t
      BY <1>1, <1>2, <3>2
    <3>4. QED
      BY <1>4, <1>5, <3>1, <3>3 DEF WriterSound
  <2>3. QED
    BY <2>1, <2>2
<1>11. QED
  BY <1>8, <1>9, <1>10 DEF BuildInv

LEMMA BuildReclaimKeeps == ASSUME BuildInv, NEW w \in Workers, Reclaim(w) PROVE BuildInv'
<1>1. Reclaimed \in {"cancelled", "failed", "queued"} /\ (build.cancel => Reclaimed = "cancelled")
  BY DEF Reclaimed
<1>2. build \in BuildRow /\ build' = [build EXCEPT !.state = Reclaimed, !.token = 0]
      /\ fresh' = FALSE /\ claims' = claims
  BY DEF Reclaim, Release, BuildInv, BuildTyped
<1>3. build' \in BuildRow /\ build'.state = Reclaimed /\ build'.token = 0 /\ build'.cancel = build.cancel
  BY <1>1, <1>2 DEF BuildRow, Ended, Leased
<1>4. vs' \in [Variants -> VariantStates]
  BY SweepTyped DEF Reclaim, BuildInv, BuildTyped, VariantStates
<1>5. held' = [held EXCEPT ![w] = held[w]] /\ held[w] \in BuildMemory /\ WriterSound(held[w])
  BY DEF Reclaim, BuildInv, BuildTyped
<1>6. build'.state \notin Leased /\ Agrees(build.state)' /\ CancelKept'
  BY <1>1, <1>3 DEF Agrees, CancelKept, Leased
<1>7. TogetherCancelled'
  <2>1. \A v \in Variants : vs[v] # "cancelled"
    BY DEF Reclaim, Stale, Leased, BuildInv, BuildSound, TogetherCancelled
  <2>2. \A v \in Variants : vs'[v] # "cancelled"
    BY <2>1 DEF Reclaim, Sweep
  <2>3. QED
    BY <2>2 DEF TogetherCancelled
<1>8. QED
  BY <1>2, <1>3, <1>4, <1>5, <1>6, <1>7, BuildParted

LEMMA BeginKeeps == ASSUME BuildInv, NEW w \in Workers, Begin(w) PROVE BuildInv'
<1>1. CASE UNCHANGED build /\ Leave(w)
  BY <1>1, BuildLeft DEF Begin, BuildInv, BuildTyped
<1>2. CASE build.state = "claimed" /\ build' = [build EXCEPT !.state = "running"] /\ Go(w, "list")
  <2> DEFINE h == [held[w] EXCEPT !.pc = "list"]
  <2>1. build \in BuildRow /\ UNCHANGED <<vs, fresh, claims>> /\ held' = [held EXCEPT ![w] = h]
    BY <1>2 DEF Begin, Go, BuildInv, BuildTyped
  <2>2. build' \in BuildRow /\ build'.token = build.token /\ build'.cancel = build.cancel
        /\ build'.state = "running"
    BY <1>2, <2>1 DEF BuildRow, Leased
  <2>3. held[w] \in BuildMemory /\ WriterSound(held[w]) /\ held[w].pc = "begin"
    BY DEF Begin, Step, BuildInv, BuildTyped
  <2>4. h \in BuildMemory /\ WriterSound(h)
    BY <2>3 DEF BuildMemory, WriterSound, BuildPlaces
  <2> HIDE DEF h
  <2>5. BuildTyped'
    BY <2>1, <2>2, <2>4 DEF BuildInv, BuildTyped
  <2>6. BuildSound'
    BY <1>2, <2>1, <2>2 DEF BuildInv, BuildSound, Agrees, CancelKept, Leased, TogetherCancelled
  <2>7. ASSUME NEW u \in Workers PROVE WriterSound(held[u])'
    <3>1. WriterSound(held'[u])
      BY <2>1, <2>4 DEF BuildInv, BuildTyped
    <3>2. QED
      BY <2>1, <2>2, <3>1 DEF WriterSound, Agrees
  <2>8. QED
    BY <2>5, <2>6, <2>7 DEF BuildInv
<1>3. QED
  BY <1>1, <1>2 DEF Begin

(* The steps of a worker that write nothing.                               *)
LEMMA ThinkingKeeps ==
    ASSUME BuildInv, NEW w \in Workers,
           \/ List(w) \/ Take(w) \/ Built(w) \/ LogRefused(w) \/ Interrupted(w) \/ Report(w)
           \/ Tally(w) \/ Heartbeat(w) \/ TimeOut(w) \/ Crash(w)
    PROVE  BuildInv'
<1>0. UNCHANGED <<build, vs, claims>> /\ fresh' \in BOOLEAN
  BY DEF List, Take, Built, LogRefused, Interrupted, Report, Tally, Heartbeat, TimeOut, Crash,
     BuildInv, BuildTyped
<1>1. held[w] \in BuildMemory /\ WriterSound(held[w]) /\ Idle \in BuildMemory /\ WriterSound(Idle)
  BY BuilderIdle DEF BuildInv, BuildTyped
<1>2. ASSUME NEW h \in BuildMemory, WriterSound(h), held' = [held EXCEPT ![w] = h] PROVE BuildInv'
  BY <1>0, <1>2, BuildQuiet
<1>3. CASE Leave(w)
  BY <1>1, <1>2, <1>3 DEF Leave
<1>4. CASE held' = [held EXCEPT ![w].stop = TRUE]
  <2> DEFINE h == [held[w] EXCEPT !.stop = TRUE]
  <2>1. h \in BuildMemory /\ WriterSound(h)
    BY <1>1 DEF BuildMemory, WriterSound
  <2>2. held' = [held EXCEPT ![w] = h]
    BY <1>4
  <2> HIDE DEF h
  <2>3. QED
    BY <1>2, <2>1, <2>2
<1>5. CASE held' = held
  <2>1. held' = [held EXCEPT ![w] = held[w]]
    BY <1>5 DEF BuildInv, BuildTyped
  <2>2. QED
    BY <1>1, <1>2, <2>1
<1>6. CASE List(w)
  <2>1. PICK failing \in BOOLEAN :
          held' = [held EXCEPT ![w].pc = "next", ![w].todo = In({"queued"}), ![w].failing = failing]
    BY <1>6 DEF List
  <2> DEFINE h == [held[w] EXCEPT !.pc = "next", !.todo = In({"queued"}), !.failing = failing]
  <2>2. h \in BuildMemory /\ WriterSound(h)
    BY <1>1, <1>6 DEF List, Step, In, BuildMemory, WriterSound, BuildPlaces
  <2>3. held' = [held EXCEPT ![w] = h]
    BY <2>1
  <2> HIDE DEF h
  <2>4. QED
    BY <1>2, <2>2, <2>3
<1>7. CASE Take(w)
  <2> DEFINE g(v) == [held[w] EXCEPT !.pc = "report", !.cur = v, !.out = "failed"]
             h(v) == [held[w] EXCEPT !.pc = "start", !.cur = v]
  <2>1. PICK v \in held[w].todo :
          \/ held' = [held EXCEPT ![w] = g(v)]
          \/ held' = [held EXCEPT ![w] = h(v)]
          \/ held' = [held EXCEPT ![w] = Idle]
    BY <1>7 DEF Take
  <2>2. v \in Variants /\ held[w].pc = "next"
    BY <1>1, <1>7 DEF BuildMemory, Take, Step
  <2>3. g(v) \in BuildMemory /\ WriterSound(g(v))
    BY <1>1, <2>2 DEF BuildMemory, WriterSound, BuildPlaces, BuildResults
  <2>4. h(v) \in BuildMemory /\ WriterSound(h(v))
    BY <1>1, <2>2 DEF BuildMemory, WriterSound, BuildPlaces
  <2> HIDE DEF g, h
  <2>5. QED
    BY <1>1, <1>2, <2>1, <2>3, <2>4
<1>8. CASE Built(w)
  <2>1. PICK out \in {"completed", "failed"} :
          held' = [held EXCEPT ![w].pc = "report", ![w].out = out]
    BY <1>8 DEF Built
  <2> DEFINE h == [held[w] EXCEPT !.pc = "report", !.out = out]
  <2>2. h \in BuildMemory /\ WriterSound(h)
    BY <1>1, <1>8 DEF Built, Step, BuildMemory, WriterSound, BuildPlaces, BuildResults
  <2>3. held' = [held EXCEPT ![w] = h]
    BY <2>1
  <2> HIDE DEF h
  <2>4. QED
    BY <1>2, <2>2, <2>3
<1>9. CASE Interrupted(w)
  <2> DEFINE todo == IF build.cancel THEN {} ELSE In(Unfinished)
             h == [held[w] EXCEPT !.pc = "next", !.failing = TRUE, !.todo = todo,
                                  !.begun = In({"running"})]
  <2>1. held' = [held EXCEPT ![w] = h]
    BY <1>9 DEF Interrupted
  <2>2. todo \in SUBSET Variants /\ In({"running"}) \in SUBSET Variants
    BY DEF In
  <2>3. held[w].pc # "idle"
    BY <1>9 DEF Interrupted, Step
  <2> HIDE DEF todo
  <2>4. h \in BuildMemory /\ WriterSound(h)
    BY <1>1, <2>2, <2>3 DEF BuildMemory, WriterSound, BuildPlaces
  <2> HIDE DEF h
  <2>5. QED
    BY <1>2, <2>1, <2>4
<1>10. CASE Report(w) /\ Go(w, "record")
  <2> DEFINE h == [held[w] EXCEPT !.pc = "record"]
  <2>1. h \in BuildMemory /\ WriterSound(h)
    BY <1>1, <1>10 DEF Report, Step, BuildMemory, WriterSound, BuildPlaces
  <2>2. held' = [held EXCEPT ![w] = h]
    BY <1>10 DEF Go
  <2> HIDE DEF h
  <2>3. QED
    BY <1>2, <2>1, <2>2
<1>11. CASE Step(w, "next") /\ Verdict # "none" /\ Holds(w)
            /\ held' = [held EXCEPT ![w].pc = "final", ![w].out = Verdict]
  <2>1. PICK out \in Ended : out = Verdict
    BY <1>11 DEF Verdict, Ended
  <2>2. Agrees(out)
    <3>1. CASE out = "completed"
      <4>1. In({"failed"}) = {} /\ In(Unfinished) = {}
        BY <2>1, <3>1 DEF Verdict
      <4>2. build.state # "cancelled"
        BY <1>11 DEF Holds, Leased
      <4>3. \A v \in Variants : vs[v] \in VariantStates /\ vs[v] # "cancelled"
        BY <4>2 DEF BuildInv, BuildTyped, BuildSound, TogetherCancelled
      <4>4. QED
        BY <3>1, <4>1, <4>3 DEF Agrees, In, Unfinished, VariantStates
    <3>2. CASE out = "partial"
      <4>1. In({"failed"}) # {} /\ In({"completed"}) # {}
        BY <2>1, <3>2 DEF Verdict
      <4>2. QED
        BY <3>2, <4>1 DEF Agrees, In
    <3>3. QED
      BY <3>1, <3>2 DEF Agrees
  <2> DEFINE h == [held[w] EXCEPT !.pc = "final", !.out = out]
  <2>3. out \in BuildResults /\ held[w].pc = "next" /\ "final" \in BuildPlaces
    BY <1>11 DEF Step, BuildResults, BuildPlaces, Ended
  <2>4. h \in BuildMemory /\ h.pc = "final" /\ h.out = out /\ h.token = held[w].token
    BY <1>1, <2>3 DEF BuildMemory
  <2>5. held' = [held EXCEPT ![w] = h]
    BY <1>11, <2>1
  <2> HIDE DEF h
  <2>6. WriterSound(h)
    BY <1>1, <2>2, <2>3, <2>4 DEF WriterSound
  <2>7. QED
    BY <1>2, <2>4, <2>5, <2>6
<1>12. QED
  BY <1>3, <1>4, <1>5, <1>6, <1>7, <1>8, <1>9, <1>10, <1>11
     DEF LogRefused, Report, Tally, MayFinalize, Heartbeat, TimeOut, Crash

(* The writes of a variant touch no finished one.                          *)
LEMMA VariantKeeps ==
    ASSUME BuildInv, NEW w \in Workers, Start(w) \/ Record(w) PROVE BuildInv' /\ Calm
<1>0. UNCHANGED <<build, claims>> /\ fresh' \in BOOLEAN
  BY DEF Start, Record, BuildInv, BuildTyped
<1>1. held[w] \in BuildMemory /\ WriterSound(held[w]) /\ held[w].cur \in Variants
      /\ vs \in [Variants -> VariantStates]
  BY DEF BuildInv, BuildTyped, WriterSound, Start, Record, Step
<1>2. CASE UNCHANGED vs /\ Leave(w)
  BY <1>0, <1>2, BuildLeft DEF Calm
<1>3. CASE Start(w) /\ vs[held[w].cur] = "queued"
  <2> DEFINE g == [held[w] EXCEPT !.pc = "report", !.out = "failed"]
             h == [held[w] EXCEPT !.pc = "build"]
  <2>1. vs' = [vs EXCEPT ![held[w].cur] = "running"]
        /\ (held' = [held EXCEPT ![w] = g] \/ held' = [held EXCEPT ![w] = h])
    BY <1>3 DEF Start
  <2>2. Calm /\ NoneCancelled /\ vs' \in [Variants -> VariantStates]
    BY <1>1, <1>3, <2>1 DEF Calm, NoneCancelled, VariantStates
  <2>3. g \in BuildMemory /\ h \in BuildMemory
    BY <1>1 DEF BuildMemory, BuildPlaces, BuildResults
  <2>4. WriterSound(g) /\ WriterSound(h)
    BY <1>1, <1>3 DEF Start, Step, BuildMemory, WriterSound
  <2> HIDE DEF g, h
  <2>5. QED
    BY <1>0, <2>1, <2>2, <2>3, <2>4, BuildMoved
<1>4. CASE Record(w) /\ vs[held[w].cur] = "running"
  <2> DEFINE h == [held[w] EXCEPT !.pc = "next", !.todo = @ \ {held[w].cur}]
  <2>1. vs' = [vs EXCEPT ![held[w].cur] = held[w].out] /\ held' = [held EXCEPT ![w] = h]
    BY <1>4 DEF Record, MayRecord
  <2>2. held[w].out \in {"completed", "failed"} /\ held[w].pc = "record"
    BY <1>1, <1>4 DEF Record, Step, WriterSound
  <2>3. Calm /\ NoneCancelled /\ vs' \in [Variants -> VariantStates]
    BY <1>1, <1>4, <2>1, <2>2 DEF Calm, NoneCancelled, VariantStates
  <2>4. h \in BuildMemory /\ WriterSound(h)
    BY <1>1, <2>2 DEF BuildMemory, WriterSound, BuildPlaces
  <2> HIDE DEF h
  <2>5. QED
    BY <1>0, <2>1, <2>3, <2>4, BuildMoved
<1>5. QED
  BY <1>2, <1>3, <1>4 DEF Start, Record, MayRecord
LEMMA FinalizeKeeps ==
    ASSUME BuildInv, NEW w \in Workers, Finalize(w) PROVE BuildInv' /\ Calm
<1>1. CASE UNCHANGED <<build, vs, fresh>>
  BY <1>1, BuildLeft DEF Finalize, Calm, BuildInv, BuildTyped
<1>2. CASE Holds(w) /\ Release(held[w].out)
  <2>1. PICK out \in Ended : out = held[w].out /\ Agrees(out)
    BY <1>2 DEF Finalize, Step, Holds, BuildInv, WriterSound
  <2>2. build \in BuildRow /\ build' = [build EXCEPT !.state = out, !.token = 0]
        /\ fresh' = FALSE /\ claims' = claims
    BY <1>2, <2>1 DEF Finalize, Release, BuildInv, BuildTyped
  <2>3. build' \in BuildRow /\ build'.state = out /\ build'.token = 0 /\ out \notin Leased
    BY <2>2 DEF BuildRow, Ended, Leased
  <2>4. Calm /\ vs' \in [Variants -> VariantStates]
    <3>1. CASE UNCHANGED vs
      BY <3>1 DEF Calm, BuildInv, BuildTyped
    <3>2. CASE Sweep(Unfinished, "cancelled")
      BY <3>2, SweepTyped DEF Sweep, Calm, Unfinished, BuildInv, BuildTyped, VariantStates
    <3>3. QED
      BY <1>2, <3>1, <3>2 DEF Finalize
  <2>5. Agrees(out)'
    BY <2>1, <2>4, AgreesKept
  <2>6. Agrees(build.state)' /\ CancelKept'
    BY <2>3, <2>5 DEF CancelKept, Agrees, Ended
  <2>7. held' = [held EXCEPT ![w] = Idle]
    BY DEF Finalize, Leave
  <2>8. TogetherCancelled'
    <3>1. \A v \in Variants : vs[v] # "cancelled"
      BY <1>2 DEF Holds, Leased, BuildInv, BuildSound, TogetherCancelled
    <3>2. CASE out # "cancelled"
      BY <1>2, <2>1, <3>1, <3>2 DEF Finalize, TogetherCancelled
    <3>3. QED
      BY <2>3, <3>2 DEF TogetherCancelled
  <2>9. QED
    BY <2>2, <2>3, <2>4, <2>6, <2>7, <2>8, BuilderIdle, BuildParted
<1>3. QED
  BY <1>1, <1>2 DEF Finalize

(* Time and the operator.                                                  *)
LEMMA OperatorKeeps ==
    ASSUME BuildInv, Expire \/ Suspend \/ Cancel \/ Retry PROVE BuildInv'
<1>0. build \in BuildRow /\ vs \in [Variants -> VariantStates] /\ MaxAttempts \in Nat
  BY BuildAssumption DEF BuildInv, BuildTyped, BuildAssumption
<1>1. CASE Expire \/ Suspend
  BY <1>1 DEF Expire, Suspend, RunOut, BuildInv, BuildTyped, BuildSound, WriterSound, Agrees, CancelKept,
     TogetherCancelled
<1>2. ASSUME UNCHANGED <<fresh, claims, held>>, build' \in BuildRow, build'.token = build.token,
             build'.token = 0, build'.state \notin Leased, Agrees(build.state)', CancelKept',
             TogetherCancelled', vs' \in [Variants -> VariantStates]
      PROVE  BuildInv'
  <2>1. BuildTyped' /\ BuildSound'
    BY <1>2 DEF BuildInv, BuildTyped, BuildSound
  <2>2. ASSUME NEW u \in Workers PROVE WriterSound(held[u])'
    <3>1. WriterSound(held[u]) /\ held[u] \in BuildMemory
      BY DEF BuildInv, BuildTyped
    <3>2. held[u].pc = "final" => held[u].token # 0
      BY <3>1 DEF WriterSound, BuildMemory
    <3>3. QED
      BY <1>2, <3>1, <3>2 DEF WriterSound
  <2>3. QED
    BY <2>1, <2>2 DEF BuildInv
<1>3. CASE Cancel /\ build.state = "queued"
  <2>1. build' = [build EXCEPT !.cancel = TRUE, !.state = "cancelled"]
        /\ UNCHANGED <<fresh, claims, held>>
    BY <1>3 DEF Cancel
  <2>2. build' \in BuildRow /\ build'.token = build.token /\ build'.state = "cancelled" /\ build.token = 0
    BY <1>0, <1>3, <2>1 DEF BuildRow, Ended, Leased, BuildInv, BuildSound
  <2>3. vs' \in [Variants -> VariantStates]
    BY <1>0, <1>3, SweepTyped DEF Cancel, VariantStates
  <2>4. Agrees(build.state)' /\ CancelKept' /\ build'.state \notin Leased
    BY <2>2 DEF Agrees, CancelKept, Leased
  <2>5. TogetherCancelled'
    BY <2>2 DEF TogetherCancelled
  <2>6. QED
    BY <1>2, <2>1, <2>2, <2>3, <2>4, <2>5
<1>4. CASE Cancel /\ build.state # "queued"
  <2>1. build' = [build EXCEPT !.cancel = TRUE] /\ UNCHANGED <<vs, fresh, claims, held>>
    <3>1. build' = [build EXCEPT !.cancel = TRUE, !.state = build.state]
      BY <1>4 DEF Cancel
    <3>2. QED
      BY <1>0, <1>4, <3>1 DEF Cancel, BuildRow
  <2>2. build' \in BuildRow /\ build'.token = build.token /\ build'.state = build.state
    BY <1>0, <2>1 DEF BuildRow
  <2>3. BuildTyped' /\ BuildSound'
    BY <1>4, <2>1, <2>2 DEF BuildInv, BuildTyped, BuildSound, Agrees, CancelKept, TogetherCancelled
  <2>4. ASSUME NEW u \in Workers PROVE WriterSound(held[u])'
    BY <2>1, <2>2 DEF BuildInv, WriterSound, Agrees
  <2>5. QED
    BY <2>3, <2>4 DEF BuildInv
<1>5. CASE Retry
  <2>1. build' = [build EXCEPT !.state = "queued", !.cancel = FALSE]
        /\ UNCHANGED <<fresh, claims, held>> /\ build.state \notin Leased
    BY <1>5 DEF Retry, Leased
  <2>2. build' \in BuildRow /\ build'.token = build.token /\ build'.state = "queued"
        /\ ~build'.cancel /\ build.token = 0
    BY <1>0, <2>1 DEF BuildRow, BuildInv, BuildSound
  <2>3. vs' \in [Variants -> VariantStates]
    BY <1>0, <1>5, SweepTyped DEF Retry, VariantStates
  <2>4. Agrees(build.state)' /\ CancelKept' /\ build'.state \notin Leased
    BY <2>2 DEF Agrees, CancelKept, Leased
  <2>5. TogetherCancelled'
    BY <1>5 DEF Retry, Sweep, BuildInv, BuildSound, TogetherCancelled
  <2>6. QED
    BY <1>2, <2>1, <2>2, <2>3, <2>4, <2>5
<1>6. QED
  BY <1>1, <1>3, <1>4, <1>5

-----------------------------------------------------------------------------
LEMMA BuildStarts == InitBuild => BuildInv
<1> SUFFICES ASSUME InitBuild PROVE BuildInv
  OBVIOUS
<1>1. build \in BuildRow /\ build.state = "queued" /\ build.token = 0 /\ ~build.cancel
  BY BuildAssumption DEF InitBuild, NewBuild, BuildRow, BuildAssumption
<1>2. Idle \in BuildMemory /\ Idle.token = 0 /\ Idle.pc = "idle"
  BY DEF Idle, BuildMemory, BuildPlaces, BuildResults
<1>3. BuildTyped
  BY <1>1, <1>2 DEF InitBuild, BuildTyped, VariantStates
<1>4. BuildSound
  BY <1>1 DEF InitBuild, BuildSound, Agrees, CancelKept, TogetherCancelled
<1>5. ASSUME NEW w \in Workers PROVE WriterSound(held[w])
  BY <1>2 DEF InitBuild, WriterSound
<1>6. QED
  BY <1>3, <1>4, <1>5 DEF BuildInv

LEMMA BuildGoesOn == BuildInv /\ [NextBuild]_buildVars => BuildInv'
<1> SUFFICES ASSUME BuildInv, [NextBuild]_buildVars PROVE BuildInv'
  OBVIOUS
<1>1. CASE UNCHANGED buildVars
  BY <1>1 DEF buildVars, BuildInv, BuildTyped, BuildSound, WriterSound, Agrees, CancelKept, TogetherCancelled
<1>2. ASSUME NEW w \in Workers,
             Poll(w) \/ WorkerStep(w) \/ Heartbeat(w) \/ TimeOut(w) \/ Crash(w)
      PROVE  BuildInv'
  BY <1>2, BuildReclaimKeeps, BuildClaimKeeps, BeginKeeps, ThinkingKeeps, VariantKeeps, FinalizeKeeps
     DEF Poll, WorkerStep
<1>3. QED
  BY <1>1, <1>2, OperatorKeeps DEF NextBuild

(* A build, its variants and what its workers are about to write fit       *)
(* together (scanner_custom_build_repository.go).                          *)
THEOREM BuildInvariant == BuildSpec => []BuildInv
  BY BuildStarts, BuildGoesOn, PTL DEF BuildSpec

(* Attempts stay within the budget (ClaimNextCustomBuild).                 *)
THEOREM BuildTypeHolds == BuildSpec => []BuildTypeOK
<1>1. BuildInv => BuildTypeOK
  BY DEF BuildInv, BuildTyped, BuildRow, VariantStates, BuildTypeOK
<1>2. QED
  BY <1>1, BuildInvariant, PTL

(* A build says completed or partial only if its variants do               *)
(* (FinalizeCustomBuild).                                                  *)
THEOREM VerdictHolds == BuildSpec => []VerdictMatches
<1>1. BuildInv => VerdictMatches
  BY DEF BuildInv, BuildSound, Agrees, VerdictMatches
<1>2. QED
  BY <1>1, BuildInvariant, PTL

(* No cancellation is lost with its worker (ReclaimStaleCustomBuilds).     *)
THEOREM BuildCancelHolds == BuildSpec => []CancelKept
<1>1. BuildInv => CancelKept
  BY DEF BuildInv, BuildSound
<1>2. QED
  BY <1>1, BuildInvariant, PTL

Keeps == \A v \in Variants : vs[v] = "completed" => vs'[v] = "completed"

LEMMA StepKeeps == BuildInv /\ [NextBuild]_buildVars => [Keeps]_buildVars
<1> SUFFICES ASSUME BuildInv, NextBuild PROVE Keeps
  OBVIOUS
<1>1. CASE UNCHANGED vs
  BY <1>1 DEF Keeps
<1>2. CASE Calm
  BY <1>2 DEF Calm, Keeps
<1>3. ASSUME NEW from, NEW to, "completed" \notin from, Sweep(from, to) PROVE Keeps
  BY <1>3 DEF Sweep, Keeps
<1>4. ASSUME NEW w \in Workers, Poll(w) PROVE Keeps
  BY <1>1, <1>3, <1>4 DEF Poll, Claim, Reclaim
<1>5. ASSUME NEW w \in Workers, WorkerStep(w) PROVE Keeps
  BY <1>1, <1>2, <1>5, VariantKeeps, FinalizeKeeps
     DEF WorkerStep, Begin, List, Take, Built, LogRefused, Interrupted, Report, Tally
<1>6. ASSUME NEW w \in Workers, Heartbeat(w) \/ TimeOut(w) \/ Crash(w) PROVE Keeps
  BY <1>1, <1>6 DEF Heartbeat, TimeOut, Crash
<1>7. CASE Expire \/ Suspend
  BY <1>1, <1>7 DEF Expire, Suspend, RunOut
<1>8. CASE Cancel \/ Retry
  BY <1>1, <1>3, <1>8 DEF Cancel, Retry, Rebuilt
<1>9. QED
  BY <1>4, <1>5, <1>6, <1>7, <1>8 DEF NextBuild

(* A variant is built to completion once (CompleteCustomBuildVariant,      *)
(* RetryCustomBuild).                                                      *)
THEOREM NeverRebuiltHolds == BuildSpec => NeverRebuilt
<1>1. NeverRebuilt <=> [][Keeps]_buildVars
  BY PTL DEF NeverRebuilt, Keeps
<1>2. QED
  BY <1>1, StepKeeps, BuildInvariant, PTL DEF BuildSpec
=============================================================================
