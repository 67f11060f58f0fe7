-------------------------- MODULE LeasedJobsProofs -------------------------
(***************************************************************************)
(* The jobs of the release workers, for any workers, any attempt budget    *)
(* and any number of faults: in every one of the four queues the attempts  *)
(* stay within the budget, a requested cancellation is honoured, a job is  *)
(* given up only with its budget used, and under a live lease only its     *)
(* holder takes it out of the lease.                                       *)
(***************************************************************************)
EXTENDS LeasedJobs, TLAPS

Row == [state : States, att : 0..MaxAttempts, token : Nat, ver : Nat,
        cancel : BOOLEAN, plan : BOOLEAN]

Places == {"idle", "work", "beat", "write", "release", "noop", "settle", "plan"}
Results == {"none", "ready", "done", "dead", "cancelled", "noop"}

Memory == [pc : Places, token : Nat, att : Nat, ver : Nat, out : Results,
           tries : {0, 1}, lost : BOOLEAN]

Typed ==
  /\ kind \in Kinds /\ job \in Row /\ fresh \in BOOLEAN
  /\ claims \in Nat /\ retries \in Nat /\ faults \in Nat
  /\ held \in [Workers -> Memory]

(* A run whose claim does not look at the attempts waits only while one is *)
(* left, and a cancellation is final as soon as the run is not leased.     *)
RowSound ==
  /\ job.token <= claims
  /\ job.state = "leased" => job.token > 0
  /\ kind = "discovery" /\ job.state = "ready" => job.att < MaxAttempts
  /\ job.cancel => kind = "discovery" /\ job.state \in {"leased", "cancelled"}
  /\ GivenUpAtBudget

(* What a worker h remembers: the attempt of its claim, and a registry     *)
(* worker gives up only in the last one.                                   *)
Sound(h) ==
  /\ h.token <= claims
  /\ job.state = "leased" /\ h.token = job.token => h.att = job.att
  /\ h.pc = "settle" => h.out \in {"ready", "done", "dead"}
  /\ h.pc \in {"beat", "write"} => h.out \in {"done", "dead", "cancelled"}
  /\ kind = "registry" /\ h.out = "dead" => h.att >= MaxAttempts
  /\ h.pc \in {"release", "noop", "plan"} => kind = "proposal"
  /\ h.pc = "settle" => kind \in Outbox

JobInv == Typed /\ RowSound /\ \A w \in Workers : Sound(held[w])

-----------------------------------------------------------------------------
LEMMA IdleSound == JobInv => Idle \in Memory /\ Sound(Idle)
  BY JobAssumption DEF JobInv, Typed, RowSound, Row, Sound, Idle, Memory, Places, Results, JobAssumption

(* A written row gets a new version.                                       *)
LEMMA NextVersion ==
    ASSUME JobInv
    PROVE  job \in Row /\ MaxAttempts \in Nat /\ \E v \in Nat : v = job.ver + 1
  BY JobAssumption DEF JobInv, Typed, Row, JobAssumption

(* Only the memory of one worker changes.                                  *)
LEMMA Quiet ==
    ASSUME JobInv, UNCHANGED <<kind, job, fresh, claims, retries>>, faults' \in Nat,
           NEW w \in Workers, NEW h \in Memory, Sound(h), held' = [held EXCEPT ![w] = h]
    PROVE  JobInv'
<1>1. Typed'
  BY DEF JobInv, Typed
<1>2. RowSound'
  BY DEF JobInv, RowSound, GivenUpAtBudget
<1>3. ASSUME NEW v \in Workers PROVE Sound(held[v])'
  BY DEF JobInv, Typed, Sound
<1>4. QED
  BY <1>1, <1>2, <1>3 DEF JobInv

(* The job leaves its lease, or never had one, and one worker moves on.    *)
LEMMA Released ==
    ASSUME JobInv, UNCHANGED <<kind, claims, retries, faults>>, NEW to \in States \ {"leased"},
           Release(to), NEW w \in Workers, NEW h \in Memory, Sound(h), held' = [held EXCEPT ![w] = h],
           kind = "discovery" /\ to = "ready" => job.att < MaxAttempts,
           job.cancel => to = "cancelled",
           kind \in {"proposal", "registry"} /\ to = "dead" => job.att = MaxAttempts
    PROVE  JobInv'
<1>1. job' \in Row /\ job'.state = to /\ job'.token = 0 /\ job'.att = job.att /\ job'.cancel = job.cancel
  <2>1. PICK v \in Nat : v = job.ver + 1
    BY NextVersion
  <2>2. job' = [job EXCEPT !.state = to, !.token = 0, !.ver = v]
    BY <2>1 DEF Release
  <2>3. QED
    BY <2>2, NextVersion DEF Row
<1>2. Typed'
  BY <1>1 DEF Release, JobInv, Typed
<1>3. RowSound'
  <2>1. 0 <= claims /\ claims' = claims /\ kind' = kind
    BY DEF JobInv, Typed
  <2>2. GivenUpAtBudget'
    BY <1>1, <2>1 DEF GivenUpAtBudget
  <2>3. QED
    BY <1>1, <2>1, <2>2 DEF RowSound, JobInv
<1>4. ASSUME NEW v \in Workers PROVE Sound(held[v])'
  BY <1>1 DEF JobInv, Typed, Sound
<1>5. QED
  BY <1>2, <1>3, <1>4 DEF JobInv

LEMMA GoSound ==
    ASSUME JobInv, NEW w \in Workers, NEW pc \in Places \ {"settle", "beat", "write"},
           pc \in {"release", "noop", "plan"} => kind = "proposal"
    PROVE  LET h == [held[w] EXCEPT !.pc = pc] IN h \in Memory /\ Sound(h)
<1>1. held[w] \in Memory /\ Sound(held[w])
  BY DEF JobInv, Typed
<1>2. QED
  BY <1>1 DEF Memory, Sound

LEMMA ResultSound ==
    ASSUME JobInv, NEW w \in Workers, NEW out \in Results, NEW pc \in Places,
           pc = "settle" => kind \in Outbox /\ out \in {"ready", "done", "dead"},
           pc \in {"release", "noop", "plan"} => kind = "proposal",
           pc \in {"beat", "write"} => out \in {"done", "dead", "cancelled"},
           kind = "registry" /\ out = "dead" => held[w].att >= MaxAttempts
    PROVE  LET h == [held[w] EXCEPT !.out = out, !.pc = pc] IN h \in Memory /\ Sound(h)
<1>1. held[w] \in Memory /\ Sound(held[w])
  BY DEF JobInv, Typed
<1>2. QED
  BY <1>1 DEF Memory, Sound

LEMMA LeaveKeeps ==
    ASSUME JobInv, UNCHANGED <<kind, job, fresh, claims, retries>>, faults' \in Nat,
           NEW w \in Workers, Leave(w)
    PROVE  JobInv'
  BY IdleSound, Quiet DEF Leave

LEMMA GoKeeps ==
    ASSUME JobInv, UNCHANGED <<kind, job, fresh, claims, retries, faults>>,
           NEW w \in Workers, NEW pc \in Places \ {"settle", "beat", "write"},
           pc \in {"release", "noop", "plan"} => kind = "proposal", Go(w, pc)
    PROVE  JobInv'
<1> DEFINE h == [held[w] EXCEPT !.pc = pc]
<1>1. h \in Memory /\ Sound(h)
  BY GoSound
<1>2. held' = [held EXCEPT ![w] = h] /\ faults' \in Nat
  BY DEF Go, JobInv, Typed
<1> HIDE DEF h
<1>3. QED
  BY <1>1, <1>2, Quiet

-----------------------------------------------------------------------------
LEMMA ClaimKeeps ==
    ASSUME JobInv, NEW w \in Workers, Claim(w) PROVE JobInv'
<1> DEFINE h == [Idle EXCEPT !.pc = "work", !.token = claims + 1, !.att = job.att + 1]
<1>1. job.state = "ready" /\ job.att < MaxAttempts /\ ~job.cancel
  <2>1. job.state = "ready" /\ (kind = "discovery" \/ job.att < MaxAttempts)
    BY DEF Claim, Claimable, ClaimsDiscovery, ClaimsProposal, ClaimsRegistry, ClaimsNotification
  <2>2. ~job.cancel
    BY <2>1 DEF JobInv, RowSound, Typed, Row
  <2>3. QED
    BY <2>1, <2>2 DEF JobInv, RowSound
<1>2. /\ job.att \in 0..MaxAttempts /\ MaxAttempts \in Nat /\ claims \in Nat
      /\ job.att + 1 \in 0..MaxAttempts /\ claims + 1 \in Nat /\ job.ver + 1 \in Nat
  BY <1>1, JobAssumption DEF JobInv, Typed, Row, JobAssumption
<1>3. job' \in Row /\ job'.state = "leased" /\ job'.token = claims + 1
      /\ job'.att = job.att + 1 /\ ~job'.cancel
  BY <1>1, <1>2 DEF Claim, JobInv, Typed, Row, States
<1>4. h \in Memory /\ h.token = claims + 1 /\ h.att = job.att + 1 /\ h.out = "none" /\ h.pc = "work"
  <2>1. PICK t \in Nat : t = claims + 1
    BY <1>2
  <2>2. PICK a \in Nat : a = job.att + 1
    BY <1>2
  <2>3. h = [Idle EXCEPT !.pc = "work", !.token = t, !.att = a]
    BY <2>1, <2>2
  <2>4. Idle \in Memory /\ Idle.out = "none"
    BY IdleSound DEF Idle
  <2> HIDE DEF h
  <2>5. QED
    BY <2>1, <2>2, <2>3, <2>4 DEF Memory, Places
<1> HIDE DEF h
<1>5. held' = [held EXCEPT ![w] = h] /\ claims' = claims + 1 /\ fresh' = TRUE
      /\ UNCHANGED <<kind, retries, faults>>
  BY DEF Claim, h
<1>6. Typed'
  BY <1>2, <1>3, <1>4, <1>5 DEF JobInv, Typed
<1>7. RowSound'
  BY <1>2, <1>3, <1>5 DEF RowSound, GivenUpAtBudget
<1>8. ASSUME NEW v \in Workers PROVE Sound(held[v])'
  <2>1. CASE v = w
    BY <2>1, <1>2, <1>3, <1>4, <1>5 DEF JobInv, Typed, Sound
  <2>2. CASE v # w
    <3>1. held'[v] = held[v] /\ held[v] \in Memory /\ Sound(held[v])
      BY <2>2, <1>5 DEF JobInv, Typed
    <3>2. held[v].token \in Nat /\ held[v].token <= claims
      BY <3>1 DEF Memory, Sound
    <3>3. QED
      BY <3>1, <3>2, <1>2, <1>3, <1>5 DEF Sound
  <2>3. QED
    BY <2>1, <2>2
<1>9. QED
  BY <1>6, <1>7, <1>8 DEF JobInv

LEMMA ReclaimKeeps ==
    ASSUME JobInv, NEW w \in Workers, Reclaim(w) PROVE JobInv'
<1>1. /\ Reclaimed \in States \ {"leased"}
      /\ kind = "discovery" /\ Reclaimed = "ready" => job.att < MaxAttempts
      /\ job.cancel => Reclaimed = "cancelled"
      /\ kind \in {"proposal", "registry"} /\ Reclaimed = "dead" => job.att = MaxAttempts
  <2>1. job.att \in 0..MaxAttempts /\ MaxAttempts \in Nat /\ (job.cancel => kind = "discovery")
    BY JobAssumption DEF JobInv, Typed, RowSound, Row, JobAssumption
  <2>2. CASE kind = "discovery"
    BY <2>1, <2>2 DEF Reclaimed, ReclaimedDiscovery, States, Settled
  <2>3. CASE kind = "proposal"
    BY <2>1, <2>3 DEF Reclaimed, ReclaimedProposal, States, Settled
  <2>4. CASE kind = "registry"
    BY <2>1, <2>4 DEF Reclaimed, ReclaimedRegistry, States, Settled
  <2>5. CASE kind = "notification"
    BY <2>1, <2>5 DEF Reclaimed, ReclaimedNotification, States, Settled
  <2>6. QED
    BY <2>2, <2>3, <2>4, <2>5 DEF JobInv, Typed, Kinds
<1>2. Release(Reclaimed) /\ UNCHANGED <<kind, claims, held, retries, faults>>
  BY DEF Reclaim
<1>3. held' = [held EXCEPT ![w] = held[w]] /\ held[w] \in Memory /\ Sound(held[w])
  BY <1>2 DEF JobInv, Typed
<1>4. QED
  BY <1>1, <1>2, <1>3, Released

(* The attempts and the cancellation of a leased job, as a worker that     *)
(* holds it may rely on them.                                              *)
LEMMA HolderKnows ==
    ASSUME JobInv, NEW w \in Workers, Holds(w)
    PROVE  /\ job.att = held[w].att /\ job.att <= MaxAttempts /\ job.att \in Nat
           /\ job.cancel => kind = "discovery"
  BY JobAssumption DEF JobInv, Typed, RowSound, Row, Sound, Holds, JobAssumption

LEMMA FinalizeDiscoveryKeeps ==
    ASSUME JobInv, NEW w \in Workers, FinalizeDiscovery(w) PROVE JobInv'
<1>0. faults' \in Nat /\ kind = "discovery" /\ held[w].pc = "write"
      /\ UNCHANGED <<kind, claims, retries, faults>>
  BY DEF FinalizeDiscovery, Step, JobInv, Typed
<1>1. CASE UNCHANGED <<job, fresh>> /\ Leave(w)
  BY <1>0, <1>1, LeaveKeeps DEF FinalizeDiscovery
<1>2. CASE UNCHANGED <<job, fresh>> /\ held' = [held EXCEPT ![w].pc = "beat", ![w].tries = 1]
  <2> DEFINE h == [held[w] EXCEPT !.pc = "beat", !.tries = 1]
  <2>1. h \in Memory /\ Sound(h)
    BY <1>0 DEF JobInv, Typed, Memory, Places, Sound
  <2>2. held' = [held EXCEPT ![w] = h]
    BY <1>2
  <2> HIDE DEF h
  <2>3. QED
    BY <1>0, <1>2, <2>1, <2>2, Quiet DEF FinalizeDiscovery
<1>3. CASE HoldsLive(w) /\ Release(FinalizedDiscovery(w)) /\ Leave(w)
  <2>1. FinalizedDiscovery(w) \in {"done", "dead", "cancelled"}
    BY <1>0 DEF JobInv, Sound, FinalizedDiscovery
  <2>2. job.cancel => FinalizedDiscovery(w) = "cancelled"
    BY DEF FinalizedDiscovery
  <2>3. FinalizedDiscovery(w) \in States \ {"leased"}
    BY <2>1 DEF States, Settled
  <2>4. QED
    BY <1>0, <1>3, <2>1, <2>2, <2>3, IdleSound, Released DEF Leave
<1>4. QED
  BY <1>1, <1>2, <1>3 DEF FinalizeDiscovery

LEMMA ProposalKeeps ==
    ASSUME JobInv, NEW w \in Workers, FinalizeProposal(w) \/ ReleaseProposal(w) \/ NoOpProposal(w)
    PROVE  JobInv'
<1>0. faults' \in Nat /\ UNCHANGED <<kind, claims, retries, faults>>
  BY DEF FinalizeProposal, ReleaseProposal, NoOpProposal, JobInv, Typed
<1>1. CASE UNCHANGED <<job, fresh>> /\ Leave(w)
  BY <1>0, <1>1, LeaveKeeps
<1>2. CASE Holds(w) /\ kind = "proposal" /\ Release("done") /\ Go(w, "plan")
  <2> DEFINE h == [held[w] EXCEPT !.pc = "plan"]
  <2>1. h \in Memory /\ Sound(h)
    BY <1>2, GoSound DEF Places
  <2>2. held' = [held EXCEPT ![w] = h]
    BY <1>2 DEF Go
  <2> HIDE DEF h
  <2>3. ~job.cancel /\ "done" \in States \ {"leased"}
    BY <1>2, HolderKnows DEF States, Settled, JobInv, Typed, Row
  <2>4. QED
    BY <1>0, <1>2, <2>1, <2>2, <2>3, Released
<1>3. ASSUME Holds(w), kind # "discovery", Leave(w),
             NEW to \in {"dead", "ready", "noop"}, Release(to), to = "dead" => job.att >= MaxAttempts
      PROVE  JobInv'
  <2>1. ~job.cancel /\ to \in States \ {"leased"} /\ (to = "dead" => job.att = MaxAttempts)
    BY <1>3, HolderKnows, JobAssumption DEF States, Settled, JobAssumption
  <2>2. QED
    BY <1>0, <1>3, <2>1, IdleSound, Released DEF Leave
<1>4. CASE FinalizeProposal(w)
  BY <1>1, <1>2, <1>4 DEF FinalizeProposal, HoldsLive
<1>5. CASE ReleaseProposal(w) \/ NoOpProposal(w)
  <2>1. kind # "discovery"
    BY <1>5 DEF ReleaseProposal, NoOpProposal, Step, JobInv, Sound
  <2>2. QED
    BY <1>1, <1>3, <1>5, <2>1 DEF ReleaseProposal, NoOpProposal
<1>6. QED
  BY <1>4, <1>5

(* The registry's and the notifier's final write.                          *)
LEMMA SettleKeeps ==
    ASSUME JobInv, NEW w \in Workers, Settle(w) PROVE JobInv'
<1>1. /\ held[w].out \in {"ready", "done", "dead"} /\ kind \in Outbox
      /\ kind = "registry" /\ held[w].out = "dead" => held[w].att >= MaxAttempts
      /\ UNCHANGED <<kind, claims, retries, faults>> /\ Leave(w) /\ faults' \in Nat
  BY DEF Settle, Step, JobInv, Typed, Sound
<1>2. CASE Holds(w) /\ Release(held[w].out)
  <2>1. ~job.cancel /\ (held[w].att >= MaxAttempts => job.att = MaxAttempts)
    BY <1>1, <1>2, HolderKnows, JobAssumption DEF Outbox, JobAssumption
  <2>2. held[w].out \in States \ {"leased"} /\ kind \notin {"discovery", "proposal"}
    BY <1>1 DEF States, Settled, Outbox
  <2>3. QED
    BY <1>1, <1>2, <2>1, <2>2, IdleSound, Released DEF Leave
<1>3. CASE UNCHANGED <<job, fresh>>
  BY <1>1, <1>3, LeaveKeeps
<1>4. QED
  BY <1>2, <1>3 DEF Settle, FinalizesRegistry, FinalizesNotification, HoldsLive

LEMMA WorkKeeps ==
    ASSUME JobInv, NEW w \in Workers, Work(w) PROVE JobInv'
<1>1. ASSUME NEW out \in Results, NEW pc \in Places, Result(w, out, pc),
             pc = "settle" => kind \in Outbox /\ out \in {"ready", "done", "dead"},
             pc \in {"release", "noop", "plan"} => kind = "proposal",
             pc \in {"beat", "write"} => out \in {"done", "dead", "cancelled"},
             kind = "registry" /\ out = "dead" => held[w].att >= MaxAttempts
      PROVE  JobInv'
  <2> DEFINE h == [held[w] EXCEPT !.out = out, !.pc = pc]
  <2>1. h \in Memory /\ Sound(h)
    BY <1>1, ResultSound
  <2>2. held' = [held EXCEPT ![w] = h]
    BY <1>1 DEF Result
  <2> HIDE DEF h
  <2>3. UNCHANGED <<kind, job, fresh, claims, retries>> /\ faults' \in Nat
    BY DEF Work, JobInv, Typed
  <2>4. QED
    BY <2>1, <2>2, <2>3, Quiet
<1>2. CASE Discovered(w)
  BY <1>1, <1>2 DEF Discovered, Results, Places
<1>3. CASE Proposed(w)
  BY <1>1, <1>3 DEF Proposed, Results, Places
<1>4. CASE Reconciled(w)
  <2>1. CASE Result(w, "done", "settle")
    BY <1>1, <1>4, <2>1 DEF Reconciled, Results, Places, Outbox
  <2>2. CASE Result(w, IF GivesUp(w) THEN "dead" ELSE "ready", "settle")
    <3>1. CASE GivesUp(w)
      BY <1>1, <1>4, <2>2, <3>1 DEF Reconciled, Results, Places, Outbox, GivesUp
    <3>2. CASE ~GivesUp(w)
      BY <1>1, <1>4, <2>2, <3>2 DEF Reconciled, Results, Places, Outbox
    <3>3. QED
      BY <3>1, <3>2
  <2>3. QED
    BY <1>4, <2>1, <2>2 DEF Reconciled
<1>5. CASE Delivered(w)
  BY <1>1, <1>5 DEF Delivered, Results, Places, Outbox
<1>6. QED
  BY <1>2, <1>3, <1>4, <1>5 DEF Work

(* What the lease monitor tells the worker.                                *)
LEMMA MonitorKeeps ==
    ASSUME JobInv, NEW w \in Workers, Refused(w) \/ SeeCancel(w) \/ FinalHeartbeat(w)
    PROVE  JobInv'
<1>0. UNCHANGED <<kind, job, fresh, claims, retries>> /\ faults' \in Nat
  BY DEF Refused, SeeCancel, FinalHeartbeat, JobInv, Typed
<1>1. held[w] \in Memory /\ Sound(held[w])
  BY DEF JobInv, Typed
<1>2. CASE Leave(w)
  BY <1>0, <1>2, LeaveKeeps
<1>3. CASE held' = [held EXCEPT ![w].lost = TRUE]
  <2> DEFINE h == [held[w] EXCEPT !.lost = TRUE]
  <2>1. h \in Memory /\ Sound(h)
    BY <1>1 DEF Memory, Sound
  <2>2. held' = [held EXCEPT ![w] = h]
    BY <1>3
  <2> HIDE DEF h
  <2>3. QED
    BY <1>0, <2>1, <2>2, Quiet
<1>4. CASE SeeCancel(w)
  <2> DEFINE h == [held[w] EXCEPT !.pc = "beat", !.out = "cancelled"]
  <2>1. h \in Memory /\ Sound(h)
    BY <1>1 DEF Memory, Sound, Places, Results
  <2>2. held' = [held EXCEPT ![w] = h]
    BY <1>4 DEF SeeCancel
  <2> HIDE DEF h
  <2>3. QED
    BY <1>0, <2>1, <2>2, Quiet
<1>5. CASE Step(w, "beat") /\ ~Leave(w) /\ FinalHeartbeat(w)
  <2> DEFINE out == IF job.cancel THEN "cancelled" ELSE held[w].out
             h == [held[w] EXCEPT !.pc = "write", !.ver = job.ver, !.out = out]
  <2>1. held[w].pc = "beat" /\ out \in {"done", "dead", "cancelled"} /\ job.ver \in Nat
        /\ (out = "dead" => held[w].out = "dead")
    BY <1>1, <1>5 DEF Step, Sound, JobInv, Typed, Row
  <2>2. held' = [held EXCEPT ![w] = h]
    BY <1>5 DEF FinalHeartbeat
  <2> HIDE DEF out
  <2>3. h \in Memory
    BY <1>1, <2>1 DEF Memory, Places, Results
  <2>4. Sound(h)
    BY <1>1, <2>1 DEF Memory, Sound
  <2> HIDE DEF h
  <2>5. QED
    BY <1>0, <2>2, <2>3, <2>4, Quiet
<1>6. QED
  BY <1>2, <1>3, <1>4, <1>5 DEF Refused, FinalHeartbeat

(* The row changes without its lease: only what RowSound and the holder's  *)
(* attempt depend on has to be looked at.                                  *)
LEMMA EditKeeps ==
    ASSUME JobInv, UNCHANGED <<kind, claims, held>>, fresh' \in BOOLEAN,
           retries' \in Nat, faults' \in Nat,
           job' \in Row, RowSound', job'.state = "leased" => job'.att = job.att /\ job'.token = job.token /\ job.state = "leased"
    PROVE  JobInv'
<1>1. Typed'
  BY DEF JobInv, Typed
<1>2. ASSUME NEW v \in Workers PROVE Sound(held[v])'
  BY DEF JobInv, Sound
<1>3. QED
  BY <1>1, <1>2 DEF JobInv
LEMMA OthersKeep ==
    ASSUME JobInv, Expire \/ Suspend \/ CancelRun \/ RejectCandidate \/ RetryDead
    PROVE  JobInv'
<1>1. CASE Expire \/ Suspend
  <2>1. UNCHANGED <<kind, job, claims, held, retries>> /\ fresh' \in BOOLEAN /\ faults' \in Nat
    <3>1. RunOut /\ (UNCHANGED faults \/ Fault) /\ faults \in Nat
      BY <1>1 DEF Expire, Suspend, JobInv, Typed
    <3>2. UNCHANGED <<kind, job, claims, held, retries>> /\ fresh' \in BOOLEAN
      BY <3>1 DEF RunOut
    <3>3. faults' \in Nat
      BY <3>1 DEF Fault
    <3>4. QED
      BY <3>2, <3>3
  <2>2. job' \in Row /\ retries' \in Nat /\ RowSound'
    BY <2>1 DEF JobInv, Typed, RowSound, GivenUpAtBudget
  <2>3. QED
    BY <2>1, <2>2, EditKeeps
<1>2. CASE CancelRun
  <2>1. job' \in Row /\ UNCHANGED <<kind, fresh, claims, held, retries, faults>>
        /\ job'.att = job.att /\ job'.token = job.token /\ kind = "discovery"
        /\ job'.state = (IF job.state = "ready" THEN "cancelled" ELSE job.state)
        /\ job.state \in {"ready", "leased"}
    <3>1. PICK v \in Nat : v = job.ver + 1
      BY NextVersion
    <3>2. job' = [job EXCEPT !.cancel = TRUE, !.ver = v, !.state = IF @ = "ready" THEN "cancelled" ELSE @]
      BY <1>2, <3>1 DEF CancelRun
    <3>3. QED
      BY <1>2, <3>2, NextVersion DEF CancelRun, Row, States, Settled
  <2>2. RowSound'
    BY <2>1 DEF JobInv, RowSound, GivenUpAtBudget
  <2>3. QED
    BY <2>1, <2>2, EditKeeps DEF JobInv, Typed
<1>3. CASE RejectCandidate
  <2>1. job' \in Row /\ UNCHANGED <<kind, fresh, claims, held, retries, faults>>
        /\ job'.state = "cancelled" /\ job'.token = job.token /\ job'.cancel = job.cancel
        /\ kind = "proposal"
    <3>1. PICK v \in Nat : v = job.ver + 1
      BY NextVersion
    <3>2. job' = [job EXCEPT !.state = "cancelled", !.ver = v]
      BY <1>3, <3>1 DEF RejectCandidate
    <3>3. QED
      BY <1>3, <3>2, NextVersion DEF RejectCandidate, Row, States, Settled
  <2>2. RowSound'
    BY <2>1 DEF JobInv, RowSound, GivenUpAtBudget
  <2>3. QED
    BY <2>1, <2>2, EditKeeps DEF JobInv, Typed
<1>4. CASE RetryDead
  <2>1. /\ job' \in Row /\ UNCHANGED <<kind, fresh, claims, held, faults>>
        /\ job'.state = "ready" /\ job'.token = job.token /\ job'.cancel = job.cancel
        /\ kind \in Outbox /\ retries' \in Nat
    <3>1. PICK v \in Nat : v = job.ver + 1
      BY NextVersion
    <3>2. PICK a \in 0..MaxAttempts : a = 0
      BY NextVersion
    <3>3. job' = [job EXCEPT !.state = "ready", !.att = a, !.ver = v]
      BY <1>4, <3>1, <3>2 DEF RetryDead
    <3>4. retries' \in Nat
      BY <1>4 DEF RetryDead, JobInv, Typed
    <3>5. job' \in Row
      BY <3>3, NextVersion DEF Row, States
    <3>6. QED
      BY <1>4, <3>3, <3>4, <3>5, NextVersion DEF RetryDead, Row
  <2>2. ~job.cancel /\ kind # "discovery"
    BY <2>1 DEF JobInv, RowSound, Outbox
  <2>3. RowSound'
    BY <2>1, <2>2 DEF JobInv, RowSound, GivenUpAtBudget
  <2>4. QED
    BY <2>1, <2>3, EditKeeps DEF JobInv, Typed
<1>5. QED
  BY <1>1, <1>2, <1>3, <1>4

LEMMA PlanKeeps ==
    ASSUME JobInv, NEW w \in Workers, EnqueuePlan(w) \/ ReconcileQueued(w) \/ Crash(w)
    PROVE  JobInv'
<1>1. CASE EnqueuePlan(w)
  <2>1. job' \in Row /\ UNCHANGED <<kind, fresh, claims, retries, faults>>
        /\ job'.state = job.state /\ job'.token = job.token
        /\ job'.cancel = job.cancel /\ job'.att = job.att
    BY <1>1 DEF EnqueuePlan, JobInv, Typed, Row
  <2>2. RowSound'
    BY <2>1 DEF JobInv, RowSound, GivenUpAtBudget
  <2>3. held' = [held EXCEPT ![w] = Idle]
    BY <1>1 DEF EnqueuePlan, Leave
  <2>4. Typed'
    BY <2>1, <2>3, IdleSound DEF JobInv, Typed
  <2>5. ASSUME NEW v \in Workers PROVE Sound(held[v])'
    <3>1. Sound(held'[v]) /\ held'[v] \in Memory
      BY <2>3, IdleSound DEF JobInv, Typed
    <3>2. QED
      BY <2>1, <3>1 DEF Sound
  <2>6. QED
    BY <2>2, <2>4, <2>5 DEF JobInv
<1>2. CASE ReconcileQueued(w)
  BY <1>2, GoKeeps DEF ReconcileQueued, Places
<1>3. CASE Crash(w)
  <2>1. faults' \in Nat /\ Leave(w) /\ UNCHANGED <<kind, job, fresh, claims, retries>>
    BY <1>3 DEF Crash, Fault, JobInv, Typed
  <2>2. QED
    BY <2>1, LeaveKeeps
<1>4. QED
  BY <1>1, <1>2, <1>3

-----------------------------------------------------------------------------
LEMMA JobInit == Init => JobInv
<1> SUFFICES ASSUME Init PROVE JobInv
  OBVIOUS
<1>1. NewJob \in Row /\ Idle \in Memory
  BY JobAssumption DEF NewJob, Idle, Row, States, Memory, Places, Results, JobAssumption
<1>2. Typed
  BY <1>1 DEF Init, Typed
<1>3. RowSound
  BY JobAssumption DEF Init, NewJob, RowSound, GivenUpAtBudget, JobAssumption
<1>4. ASSUME NEW w \in Workers PROVE Sound(held[w])
  <2>1. held[w] = Idle /\ claims = 0 /\ job.state = "ready"
    BY DEF Init, NewJob
  <2>2. QED
    BY <2>1 DEF Idle, Sound
<1>5. QED
  BY <1>2, <1>3, <1>4 DEF JobInv

LEMMA JobNext == JobInv /\ [Next]_vars => JobInv'
<1> SUFFICES ASSUME JobInv, [Next]_vars PROVE JobInv'
  OBVIOUS
<1>1. CASE UNCHANGED vars
  BY <1>1 DEF vars, JobInv, Typed, RowSound, GivenUpAtBudget, Sound
<1>2. ASSUME NEW w \in Workers, Poll(w) PROVE JobInv'
  BY <1>2, ReclaimKeeps, ClaimKeeps, PlanKeeps DEF Poll
<1>3. ASSUME NEW w \in Workers, WorkerStep(w) PROVE JobInv'
  BY <1>3, MonitorKeeps, WorkKeeps, FinalizeDiscoveryKeeps, ProposalKeeps, SettleKeeps, PlanKeeps
     DEF WorkerStep
<1>4. ASSUME NEW w \in Workers, Crash(w) PROVE JobInv'
  BY <1>4, PlanKeeps
<1>5. QED
  BY <1>1, <1>2, <1>3, <1>4, OthersKeep DEF Next

(* In every reachable state the row, its lease and what the workers        *)
(* remember of it fit together (scannerrelease_repository.go,              *)
(* scanner_registry_job_repository.go, scanner_notification_repository.go). *)
THEOREM JobInvariant == Spec => []JobInv
  BY JobInit, JobNext, PTL DEF Spec

(* The attempts of a job never pass its budget, in any of the four queues  *)
(* (ClaimNextDiscoveryRun and its three siblings).                         *)
THEOREM TypeHolds == Spec => []TypeOK
<1>1. JobInv => TypeOK
  BY DEF JobInv, Typed, Row, TypeOK
<1>2. QED
  BY <1>1, JobInvariant, PTL

(* A discovery that was asked to stop ends cancelled if it ends            *)
(* (FinalizeDiscoveryRun, ReclaimStaleDiscoveryRuns).                      *)
THEOREM CancelHolds == Spec => []CancelHonoured
<1>1. JobInv => CancelHonoured
  BY DEF JobInv, RowSound, CancelHonoured, Settled
<1>2. QED
  BY <1>1, JobInvariant, PTL

(* A proposal or a registry job is given up only in its last attempt       *)
(* (ReleaseCandidateProposal, runOne, the reclamations).                   *)
THEOREM BudgetHolds == Spec => []GivenUpAtBudget
<1>1. JobInv => GivenUpAtBudget
  BY DEF JobInv, RowSound
<1>2. QED
  BY <1>1, JobInvariant, PTL

HolderStep ==
  job.state = "leased" /\ fresh /\ job'.state # "leased"
    => \/ kind = "proposal" /\ job'.state = "cancelled"
       \/ \E w \in Workers : held[w].token = job.token /\ held'[w] # held[w]

(* A final write is made from the place its worker then leaves.            *)
LEMMA WriterMoves ==
    ASSUME JobInv, NEW w \in Workers, WorkerStep(w), job.state = "leased", job'.state # "leased"
    PROVE  held[w].token = job.token /\ held'[w] # held[w]
<1>1. held \in [Workers -> Memory] /\ job \in Row
  BY DEF JobInv, Typed
<1>2. CASE UNCHANGED job
  BY <1>2
<1>3. CASE FinalizeDiscovery(w)
  BY <1>1, <1>3 DEF FinalizeDiscovery, HoldsLive, Holds, Leave, Step, Idle, Memory
<1>4. CASE FinalizeProposal(w)
  BY <1>1, <1>4 DEF FinalizeProposal, HoldsLive, Holds, Go, Step, Memory
<1>5. CASE ReleaseProposal(w) \/ NoOpProposal(w)
  BY <1>1, <1>5 DEF ReleaseProposal, NoOpProposal, Holds, Leave, Step, Idle, Memory
<1>6. CASE Settle(w)
  BY <1>1, <1>6 DEF Settle, FinalizesRegistry, FinalizesNotification, HoldsLive, Holds, Leave,
     Step, Idle, Memory
<1>7. CASE EnqueuePlan(w)
  BY <1>1, <1>7 DEF EnqueuePlan, Row
<1>8. QED
  BY <1>2, <1>3, <1>4, <1>5, <1>6, <1>7
     DEF WorkerStep, Refused, SeeCancel, Work, FinalHeartbeat

LEMMA MovedByHolder == JobInv /\ [Next]_vars => [HolderStep]_vars
<1> SUFFICES ASSUME JobInv, Next, job.state = "leased", fresh, job'.state # "leased"
             PROVE  \/ kind = "proposal" /\ job'.state = "cancelled"
                    \/ \E w \in Workers : held[w].token = job.token /\ held'[w] # held[w]
  BY DEF HolderStep
<1>1. CASE Expire \/ Suspend \/ CancelRun \/ RejectCandidate \/ RetryDead
  <2>1. job \in Row
    BY DEF JobInv, Typed
  <2>2. QED
    BY <1>1, <2>1 DEF Expire, Suspend, RunOut, CancelRun, RejectCandidate, RetryDead, Row
<1>2. ASSUME NEW w \in Workers, Poll(w) \/ Crash(w) PROVE FALSE
  BY <1>2 DEF Poll, Reclaim, Stale, Claim, Claimable, ClaimsDiscovery, ClaimsProposal,
     ClaimsRegistry, ClaimsNotification, ReconcileQueued, Crash
<1>3. ASSUME NEW w \in Workers, WorkerStep(w)
      PROVE  held[w].token = job.token /\ held'[w] # held[w]
  BY <1>3, WriterMoves
<1>4. QED
  BY <1>1, <1>2, <1>3 DEF Next

(* Under a live lease nobody but its holder and an operator moves the job  *)
(* (the four final writes).                                                *)
THEOREM SettledByHolderHolds == Spec => SettledByHolder
<1>1. JobInv /\ [Next]_vars => [HolderStep]_vars
  BY MovedByHolder
<1>2. SettledByHolder <=> [][HolderStep]_vars
  BY PTL DEF SettledByHolder, HolderStep
<1>3. QED
  BY <1>1, <1>2, JobInvariant, PTL DEF Spec
=============================================================================
