---------------------------- MODULE ToolAdmission ----------------------------
(***************************************************************************)
(* The admission of tool runs by internal/scan/runner: each tool of a scan *)
(* is a goroutine of runner.Run that asks acquireResourceSlots for its     *)
(* slots before it executes.  The scan's own ceilings are counted in its   *)
(* resourceSlots; CPU and memory in a resourcePool, which every scan whose *)
(* Docker daemon was detected shares.  One mutex guards both, so that each *)
(* critical section is a step; a waiter holds the channel it read in its   *)
(* critical section, and a release closes and replaces it.                 *)
(*                                                                         *)
(* CPUs and memory are integers, in whatever unit; channels are numbered.  *)
(***************************************************************************)
EXTENDS Integers, FiniteSets, FiniteSetsExt

CONSTANTS
    Scans,         \* scans executed by one worker process
    Tools,         \* their runnable tools
    ScanOf,        \* the scan of each tool
    Detected,      \* scans whose Docker daemon answered DetectHostResources
    Daemon,        \* names the shared pool; the other scans have their own
    Heavy, Network, Exclusive,   \* tools by ResourceSpec
    Plan,          \* per-scan ceilings of the SchedulingPlan, and its CPUs
    Memory,        \* memory limit of each tool's container
    CPUBudget, MemoryBudget      \* of the detected daemon

Pools     == Detected \cup {Daemon} \cup Scans
Plans     == [concurrency : Nat \ {0}, heavy : Nat \ {0}, network : Nat \ {0},
              cpus : Nat]

ASSUME AdmissionAssumption ==
    /\ ScanOf \in [Tools -> Scans]
    /\ Detected \subseteq Scans /\ Daemon \notin Scans
    /\ Exclusive \subseteq Heavy
    /\ Plan \in [Scans -> Plans]
    /\ Memory \in [Tools -> Nat]
    /\ CPUBudget \in Nat \ {0} /\ MemoryBudget \in Nat

VARIABLES
    state,      \* where the goroutine of each tool is
    cancelled,  \* tools whose context is cancelled
    slots,      \* resourceSlots of each scan
    used,       \* cpuUsed and memoryUsed of each pool
    changed,    \* the channel each pool's next release will close
    seen        \* the channel each waiting tool selects on

vars == <<state, cancelled, slots, used, changed, seen>>

-----------------------------------------------------------------------------
Unlimited == 0          \* Config.CPUs left empty
States    == {"created", "asking", "waiting", "running", "done", "refused",
              "skipped"}
Over      == {"done", "refused", "skipped"}
Classes   == {"active", "heavy", "network", "exclusive"}

TypeOK ==
    /\ state \in [Tools -> States]
    /\ cancelled \subseteq Tools
    /\ slots \in [Scans -> [Classes -> Nat]]
    /\ used \in [Pools -> [cpus : Nat, memory : Nat]]
    /\ changed \in [Pools -> Nat]
    /\ seen \in [Tools -> Nat]

Init ==
    /\ state = [t \in Tools |-> "created"]
    /\ cancelled = {}
    /\ slots = [s \in Scans |-> [c \in Classes |-> 0]]
    /\ used = [p \in Pools |-> [cpus |-> 0, memory |-> 0]]
    /\ changed = [p \in Pools |-> 0]
    /\ seen = [t \in Tools |-> 0]

-----------------------------------------------------------------------------
Pool(t)     == IF ScanOf[t] \in Detected THEN Daemon ELSE ScanOf[t]
Budgeted(t) == ScanOf[t] \in Detected

\* An uncapped scanner needs the whole budget, and no cap exceeds it.
CPUs(t) ==
    LET cap == Plan[ScanOf[t]].cpus
    IN  IF Budgeted(t) /\ (cap = Unlimited \/ cap > CPUBudget)
        THEN CPUBudget ELSE cap

\* The slots a tool takes in its scan.
Takes(t, class) ==
    CASE class = "active"    -> TRUE
      [] class = "heavy"     -> t \in Heavy
      [] class = "network"   -> t \in Network
      [] class = "exclusive" -> t \in Exclusive

Ceiling(s, class) ==
    CASE class = "active"    -> Plan[s].concurrency
      [] class = "heavy"     -> Plan[s].heavy
      [] class = "network"   -> Plan[s].network
      [] class = "exclusive" -> 1

TooLarge(t) == Budgeted(t) /\ (CPUs(t) > CPUBudget \/ Memory[t] > MemoryBudget)

\* Would it fit beside what is running?  All dimensions at once.
Fits(t) ==
    /\ \A c \in Classes :
          Takes(t, c) => slots[ScanOf[t]][c] < Ceiling(ScanOf[t], c)
    /\ Budgeted(t) => /\ used[Pool(t)].cpus + CPUs(t) <= CPUBudget
                      /\ used[Pool(t)].memory + Memory[t] <= MemoryBudget

\* The slots of the tool's scan with its own n times more (or, -1, less).
Counted(t, n) ==
    [c \in Classes |->
       slots[ScanOf[t]][c] + IF Takes(t, c) THEN n ELSE 0]
Charged(t, n) ==
    [cpus   |-> used[Pool(t)].cpus + n * CPUs(t),
     memory |-> used[Pool(t)].memory + n * Memory[t]]
Charge(t, n) ==
    /\ slots' = [slots EXCEPT ![ScanOf[t]] = Counted(t, n)]
    /\ used' = [used EXCEPT ![Pool(t)] = Charged(t, n)]

Goto(t, s) == state' = [state EXCEPT ![t] = s]

-----------------------------------------------------------------------------
\* The goroutine starts, and its demand is checked against the budget.
StartTool(t) ==
    /\ state[t] = "created" /\ t \notin cancelled
    /\ Goto(t, IF TooLarge(t) THEN "refused" ELSE "asking")
    /\ UNCHANGED <<cancelled, slots, used, changed, seen>>

\* Cancelled before it has its slots: OnToolDone, and nothing is released.
SkipTool(t) ==
    /\ state[t] \in {"created", "asking", "waiting"} /\ t \in cancelled
    /\ Goto(t, "skipped")
    /\ UNCHANGED <<cancelled, slots, used, changed, seen>>

Admit(t) ==
    /\ state[t] = "asking" /\ t \notin cancelled
    /\ Fits(t)
    /\ Charge(t, 1)
    /\ Goto(t, "running")
    /\ UNCHANGED <<cancelled, changed, seen>>

Wait(t) ==
    /\ state[t] = "asking" /\ t \notin cancelled
    /\ ~Fits(t)
    /\ seen' = [seen EXCEPT ![t] = changed[Pool(t)]]
    /\ Goto(t, "waiting")
    /\ UNCHANGED <<cancelled, slots, used, changed>>

\* Its channel was closed: it asks again, among all who do.
Wake(t) ==
    /\ state[t] = "waiting"
    /\ changed[Pool(t)] # seen[t]
    /\ Goto(t, "asking")
    /\ UNCHANGED <<cancelled, slots, used, changed, seen>>

\* The run ended or timed out, OnToolDone has returned, the deferred release
\* runs once.
ReleasesEach == 2                                                \* mutant
Releases == 1
KeepsChannel(p) == changed[p]                                    \* mutant
NextChannel(p) == changed[p] + 1
FinishTool(t) ==
    /\ state[t] = "running"
    /\ Charge(t, -Releases)
    /\ changed' = [changed EXCEPT ![Pool(t)] = NextChannel(Pool(t))]
    /\ Goto(t, "done")
    /\ UNCHANGED <<cancelled, seen>>

\* A user cancels one tool, or the scan's context is cancelled.
CancelTool(t) ==
    /\ state[t] \notin Over /\ t \notin cancelled
    /\ cancelled' = cancelled \cup {t}
    /\ UNCHANGED <<state, slots, used, changed, seen>>

CancelScan(s) ==
    /\ \E t \in Tools : ScanOf[t] = s /\ state[t] \notin Over
    /\ cancelled' = cancelled \cup {t \in Tools : ScanOf[t] = s}
    /\ UNCHANGED <<state, slots, used, changed, seen>>

-----------------------------------------------------------------------------
Run(t) ==
    \/ StartTool(t) \/ SkipTool(t) \/ Admit(t) \/ Wait(t) \/ Wake(t)
    \/ FinishTool(t)

Next ==
    \/ \E t \in Tools : Run(t) \/ CancelTool(t)
    \/ \E s \in Scans : CancelScan(s)

Spec == Init /\ [][Next]_vars

\* A goroutine that can run does, and every tool run ends by its timeout.
FairSpec == Spec /\ \A t \in Tools : WF_vars(Run(t))

-----------------------------------------------------------------------------
(* Properties *)

\* What is taken stays within the ceilings of each scan and, summed over all
\* the scans that share the daemon, within its budget.
WithinLimits ==
    /\ \A s \in Scans, c \in Classes : slots[s][c] <= Ceiling(s, c)
    /\ used[Daemon].cpus <= CPUBudget
    /\ used[Daemon].memory <= MemoryBudget

\* What is taken is what the running tools need: a waiter holds no part of
\* its slots, and no end of a run, skip or cancellation leaks or frees twice.
Running(s)  == {t \in Tools : ScanOf[t] = s /\ state[t] = "running"}
OnPool(p)   == {t \in Tools : Pool(t) = p /\ state[t] = "running"}
Accounting ==
    /\ \A s \in Scans, c \in Classes :
          slots[s][c] = Cardinality({t \in Running(s) : Takes(t, c)})
    /\ \A p \in Pools :
          /\ used[p].cpus = MapThenSumSet(CPUs, OnPool(p))
          /\ used[p].memory = MapThenSumSet(LAMBDA t : Memory[t], OnPool(p))

\* A tool that waits on an open channel could not be admitted now: no release
\* between its test and its wait, or by another scan, is missed.
NoLostWakeup ==
    \A t \in Tools :
       state[t] = "waiting" /\ changed[Pool(t)] = seen[t] => ~Fits(t)

\* runner.Run returns: every tool runs, is refused or is skipped.
EveryToolEnds == <>(\A t \in Tools : state[t] \in Over)
=============================================================================
