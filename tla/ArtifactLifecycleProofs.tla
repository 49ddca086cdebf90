---------------------- MODULE ArtifactLifecycleProofs ----------------------
(***************************************************************************)
(* Proofs about ArtifactLifecycle, for every number of processes, every    *)
(* set of policies and operations, every cap and horizon, in three parts:  *)
(* type correctness; what the optimistic append protects; and what the     *)
(* stream says about what happened, with the refinement of the machine.    *)
(***************************************************************************)
EXTENDS ArtifactLifecycle, FiniteSetTheorems, SequenceTheorems, WellFoundedInduction, TLAPS

-----------------------------------------------------------------------------
(* The plans: each use case derives events of the stream's alphabet and a  *)
(* status, whatever it read.                                               *)

Plans == [batch : Seq(Events), to : Statuses]

LEMMA EventFacts ==
    /\ \A t \in {"ArtifactIngested", "ArtifactQuarantined", "ScanIndeterminate",
                 "ArtifactBecameVulnerable", "ProvenanceVerified",
                 "ProvenanceRejected", "ArtifactCorrupted"} : Plain(t) \in Events
    /\ \A f \in Findings : ScanCompleted(f) \in Events
    /\ \A r \in {"Pass", "Fail"} : PolicyEvaluated(r) \in Events
    /\ \A r \in ReleaseReasons : ArtifactReleased(r) \in Events
    /\ \A r \in Reasons : ArtifactRejected(r) \in Events
    /\ \A st \in {"Quarantined", "Released", "Rejected"} : ArtifactReEvaluated(st) \in Events
  BY DEF Events

LEMMA PlanType ==
    ASSUME NEW batch \in Seq(Events), NEW to \in Statuses
    PROVE  Plan(batch, to) \in Plans
  BY DEF Plan, Plans

LEMMA NoPlanType ==
    ASSUME NEW row \in Statuses
    PROVE  NoPlan(row) \in Plans
  BY DEF NoPlan, Plan, Plans

(* The scan batch common to both verdicts. *)
LEMMA ScanBatchType ==
    ASSUME NEW ev, NEW found \in Findings, NEW r \in {"Pass", "Fail"}
    PROVE  <<ScanCompleted(found)>> \o BecameVulnerable(ev, found) \o <<PolicyEvaluated(r)>>
               \in Seq(Events)
<1>1. BecameVulnerable(ev, found) \in Seq(Events)
  BY EventFacts DEF BecameVulnerable
<1>2. <<ScanCompleted(found)>> \in Seq(Events) /\ <<PolicyEvaluated(r)>> \in Seq(Events)
  BY EventFacts
<1> QED BY <1>1, <1>2

LEMMA ScanPlanType ==
    ASSUME NEW row \in Statuses, NEW ev, NEW anch, NEW found \in Findings, NEW pol, NEW now
    PROVE  ScanPlan(row, ev, anch, found, pol, now) \in Plans
<1>1. RejectVerdictPlan(row, ev, found) \in Plans
  <2> DEFINE scan == <<ScanCompleted(found)>> \o BecameVulnerable(ev, found)
                        \o <<PolicyEvaluated("Fail")>>
  <2>1. scan \in Seq(Events) BY ScanBatchType
  <2>2. ArtifactRejected("Scanner") \in Events BY EventFacts DEF Reasons
  <2>3. Append(scan, ArtifactRejected("Scanner")) \in Seq(Events) BY <2>1, <2>2
  <2> HIDE DEF scan
  <2>4. Plan(Append(scan, ArtifactRejected("Scanner")), "Rejected") \in Plans
    BY <2>3, PlanType DEF Statuses
  <2>5. Plan(scan, row) \in Plans BY <2>1, PlanType
  <2> QED BY <2>4, <2>5 DEF RejectVerdictPlan, scan
<1>2. NonRejectingVerdictPlan(row, ev, anch, found, pol, now) \in Plans
  <2> DEFINE r == IF EvaluateScanResult(found, pol) = "Clean" THEN "Pass" ELSE "Fail"
             scan == <<ScanCompleted(found)>> \o BecameVulnerable(ev, found)
                        \o <<PolicyEvaluated(r)>>
  <2>1. scan \in Seq(Events)
    <3>1. r \in {"Pass", "Fail"} OBVIOUS
    <3> HIDE DEF r
    <3> QED BY <3>1, ScanBatchType
  <2>2. ArtifactReleased("Timer") \in Events BY EventFacts DEF ReleaseReasons
  <2>3. Append(scan, ArtifactReleased("Timer")) \in Seq(Events) BY <2>1, <2>2
  <2> HIDE DEF scan
  <2>4. Plan(Append(scan, ArtifactReleased("Timer")), "Released") \in Plans
    BY <2>3, PlanType DEF Statuses
  <2>5. Plan(scan, row) \in Plans BY <2>1, PlanType
  <2> QED BY <2>4, <2>5 DEF NonRejectingVerdictPlan, scan
<1> QED BY <1>1, <1>2 DEF ScanPlan

(* The plans that only look at the row and the evidence. *)
LEMMA ShortPlanTypes ==
    ASSUME NEW row \in Statuses, NEW ev, NEW pol, NEW outcome, NEW readable
    PROVE  /\ SweepPlan(row, ev, pol) \in Plans
           /\ IndeterminatePlan(row) \in Plans
           /\ WaivePlan(row, ev) \in Plans
           /\ BlockPlan(row) \in Plans
           /\ VerifyPlan(row, ev, outcome, pol) \in Plans
           /\ TombstonePlan(row) \in Plans
           /\ TightenPlan(row, ev, pol, readable) \in Plans
           /\ RetroBlockPlan(row) \in Plans
           /\ CascadePlan(row, ev) \in Plans
<1>1. /\ ArtifactReleased("Timer") \in Events /\ ArtifactReleased("Curator") \in Events
      /\ Plain("ScanIndeterminate") \in Events /\ Plain("ProvenanceVerified") \in Events
      /\ Plain("ProvenanceRejected") \in Events /\ Plain("ArtifactCorrupted") \in Events
      /\ ArtifactReEvaluated("Rejected") \in Events
      /\ \A r \in Reasons : ArtifactRejected(r) \in Events
  BY EventFacts DEF ReleaseReasons
<1>2. /\ <<ArtifactReleased("Timer")>> \in Seq(Events)
      /\ <<ArtifactReleased("Curator")>> \in Seq(Events)
      /\ <<Plain("ScanIndeterminate")>> \in Seq(Events)
      /\ <<Plain("ProvenanceVerified")>> \in Seq(Events)
      /\ <<ArtifactRejected("Curator")>> \in Seq(Events)
      /\ <<ArtifactRejected("CurationRetroactive")>> \in Seq(Events)
      /\ <<Plain("ProvenanceRejected"), ArtifactRejected("Provenance")>> \in Seq(Events)
      /\ <<Plain("ArtifactCorrupted"), ArtifactRejected("Corruption")>> \in Seq(Events)
      /\ <<ArtifactReEvaluated("Rejected"), ArtifactRejected("ScanPolicyRetroactive")>>
            \in Seq(Events)
  BY <1>1 DEF Reasons
<1>3. {"Released", "Rejected", "ScanIndeterminate"} \subseteq Statuses BY DEF Statuses
<1>4. NoPlan(row) \in Plans BY NoPlanType
<1>5. SweepPlan(row, ev, pol) \in Plans
  <2>1. Plan(<<ArtifactReleased("Timer")>>, "Released") \in Plans BY <1>2, <1>3, PlanType
  <2> QED BY <1>4, <2>1 DEF SweepPlan, PlanIf
<1>6. IndeterminatePlan(row) \in Plans
  <2>1. Plan(<<Plain("ScanIndeterminate")>>, "ScanIndeterminate") \in Plans
    BY <1>2, <1>3, PlanType
  <2> QED BY <1>4, <2>1 DEF IndeterminatePlan, PlanIf
<1>7. WaivePlan(row, ev) \in Plans
  <2>1. Plan(<<ArtifactReleased("Curator")>>, "Released") \in Plans BY <1>2, <1>3, PlanType
  <2> QED BY <1>4, <2>1 DEF WaivePlan, PlanIf
<1>8. BlockPlan(row) \in Plans
  <2>1. Plan(<<ArtifactRejected("Curator")>>, "Rejected") \in Plans BY <1>2, <1>3, PlanType
  <2> QED BY <1>4, <2>1 DEF BlockPlan, PlanIf
<1>9. VerifyPlan(row, ev, outcome, pol) \in Plans
  <2>1. Plan(<<Plain("ProvenanceVerified")>>, row) \in Plans BY <1>2, PlanType
  <2>2. Plan(<<Plain("ProvenanceRejected"), ArtifactRejected("Provenance")>>, "Rejected") \in Plans
    BY <1>2, <1>3, PlanType
  <2> QED BY <1>4, <2>1, <2>2 DEF VerifyPlan
<1>10. TombstonePlan(row) \in Plans
  <2>1. Plan(<<Plain("ArtifactCorrupted"), ArtifactRejected("Corruption")>>, "Rejected") \in Plans
    BY <1>2, <1>3, PlanType
  <2> QED BY <1>4, <2>1 DEF TombstonePlan, PlanIf
<1>11. TightenPlan(row, ev, pol, readable) \in Plans
  <2>1. Plan(<<ArtifactReEvaluated("Rejected"), ArtifactRejected("ScanPolicyRetroactive")>>,
             "Rejected") \in Plans
    BY <1>2, <1>3, PlanType
  <2> QED BY <1>4, <2>1 DEF TightenPlan, PlanIf
<1>12. RetroBlockPlan(row) \in Plans
  <2>1. Plan(<<ArtifactRejected("CurationRetroactive")>>, "Rejected") \in Plans
    BY <1>2, <1>3, PlanType
  <2> QED BY <1>4, <2>1 DEF RetroBlockPlan, PlanIf
<1>13. CascadePlan(row, ev) \in Plans
  <2>1. Plan(<<Plain("ProvenanceVerified")>>, row) \in Plans BY <1>2, PlanType
  <2> QED BY <1>4, <2>1 DEF CascadePlan, PlanIf
<1> QED BY <1>5, <1>6, <1>7, <1>8, <1>9, <1>10, <1>11, <1>12, <1>13

LEMMA OutcomeType ==
    ASSUME NEW ev, NEW anch, NEW pol, NEW now, NEW readable
    PROVE  RejectedOutcome(ev, anch, pol, now, readable) \in {"Quarantined", "Released", "Rejected"}
  BY DEF RejectedOutcome, DecideRejectedTransition

LEMMA ReEvaluationBatchType ==
    ASSUME NEW announced \in {"Quarantined", "Released", "Rejected"}, NEW to
    PROVE  <<ArtifactReEvaluated(announced), ReEvaluationCompanion(to)>> \in Seq(Events)
<1>1. ReEvaluationCompanion(to) \in Events
  BY EventFacts DEF ReEvaluationCompanion, ReleaseReasons
<1> QED BY <1>1, EventFacts

LEMMA ReevaluatePlanType ==
    ASSUME NEW row \in Statuses, NEW ev, NEW anch, NEW pol, NEW now, NEW readable, NEW blocked
    PROVE  ReevaluatePlan(row, ev, anch, pol, now, readable, blocked) \in Plans
<1> DEFINE to == RejectedOutcome(ev, anch, pol, now, readable)
<1>1. to \in {"Quarantined", "Released", "Rejected"} /\ to \in Statuses
  BY OutcomeType DEF Statuses
<1> HIDE DEF to
<1>2. <<ArtifactReEvaluated(to), ReEvaluationCompanion(to)>> \in Seq(Events)
  BY <1>1, ReEvaluationBatchType
<1>3. PlanIf(MayReEvaluate(row, ev, to, pol, blocked),
             <<ArtifactReEvaluated(to), ReEvaluationCompanion(to)>>, to, row) \in Plans
  BY <1>1, <1>2, PlanType, NoPlanType DEF PlanIf
<1> QED BY <1>3 DEF ReevaluatePlan, to

-----------------------------------------------------------------------------
(* Type correctness.  The audit event of a loosen pass is minted from the  *)
(* status decided one step earlier, so the type invariant needs to know    *)
(* which statuses that decision can be.                                    *)

DerivedOutcomes ==
    \A p \in Procs : task[p].pc = "derived" => task[p].to \in {"Quarantined", "Released"}

TypeInv == TypeOK /\ DerivedOutcomes

LEMMA IdleType == Idle \in Tasks /\ Idle.pc = "idle"
<1>1. SomePolicy \in Policies BY PoliciesAssumption DEF SomePolicy
<1>2. << >> \in Seq(Events) OBVIOUS
<1>3. 0 \in 0..Horizon /\ 0 \in Nat BY HorizonAssumption
<1>4. "None" \in Statuses BY DEF Statuses
<1> QED BY <1>1, <1>2, <1>3, <1>4 DEF Idle, Tasks

LEMMA SeenVersionType ==
    ASSUME stream \in Seq(Events)
    PROVE  SeenVersion \in Nat /\ SeenVersion <= Len(stream)
  BY CapAssumption DEF SeenVersion

(* Replacing one process's task by a well-typed one. *)
LEMMA TaskUpdate ==
    ASSUME TypeInv, NEW p \in Procs, NEW t \in Tasks,
           t.pc = "derived" => t.to \in {"Quarantined", "Released"},
           task' = [task EXCEPT ![p] = t]
    PROVE  task' \in [Procs -> Tasks] /\ DerivedOutcomes'
  BY DEF TypeInv, TypeOK, DerivedOutcomes

(* A step that leaves the artifact and the environment alone. *)
LEMMA TaskStepType ==
    ASSUME TypeInv, NEW p \in Procs, NEW t \in Tasks,
           t.pc = "derived" => t.to \in {"Quarantined", "Released"},
           task' = [task EXCEPT ![p] = t],
           UNCHANGED <<stream, status, env>>
    PROVE  TypeInv'
<1>1. task' \in [Procs -> Tasks] /\ DerivedOutcomes' BY TaskUpdate
<1> QED BY <1>1 DEF TypeInv, TypeOK, env

LEMMA DecideType ==
    ASSUME TypeInv, NEW p \in Procs, NEW t \in Tasks, NEW plan \in Plans,
           Decide(p, t, plan), UNCHANGED <<stream, status, env>>
    PROVE  TypeInv'
<1> DEFINE u == IF plan.batch = << >> THEN Idle
                ELSE [t EXCEPT !.pc = "decided", !.batch = plan.batch, !.to = plan.to]
<1>1. u \in Tasks
  BY IdleType DEF Tasks, Plans
<1>2. u.pc # "derived"
  BY IdleType DEF Tasks
<1>3. task' = [task EXCEPT ![p] = u]
  BY DEF Decide
<1> HIDE DEF u
<1> QED BY <1>1, <1>2, <1>3, TaskStepType

LEMMA TypeInit == Init => TypeInv
<1> SUFFICES ASSUME Init PROVE TypeInv OBVIOUS
<1>1. stream \in Seq(Events) /\ status \in Statuses
  <2>1. /\ <<Plain("ArtifactIngested"), Plain("ArtifactQuarantined")>> \in Seq(Events)
        /\ <<Plain("ArtifactIngested")>> \in Seq(Events)
    <3>1. Plain("ArtifactIngested") \in Events /\ Plain("ArtifactQuarantined") \in Events
      BY EventFacts
    <3> QED BY <3>1
  <2> QED BY <2>1 DEF Init, Statuses
<1>2. task \in [Procs -> Tasks] /\ DerivedOutcomes
  BY IdleType DEF Init, DerivedOutcomes
<1>3. clock \in 0..Horizon
  BY HorizonAssumption DEF Init
<1>4. anchored \in BOOLEAN /\ curationBlock \in BOOLEAN /\ blobOk \in BOOLEAN
      /\ policy \in Policies
  BY DEF Init
<1> QED BY <1>1, <1>2, <1>3, <1>4 DEF TypeInv, TypeOK

LEMMA LoadRowType ==
    ASSUME TypeInv, NEW p \in Procs
    PROVE  LoadRow(p) \in Tasks
<1>1. task[p] \in Tasks /\ status \in Statuses BY DEF TypeInv, TypeOK
<1>2. 0 \in 0..Horizon BY HorizonAssumption
<1> QED BY <1>1, <1>2 DEF LoadRow, Tasks

LEMMA PairedType ==
    ASSUME TypeInv, NEW p \in Procs
    PROVE  Paired(p) \in Tasks
<1>1. task[p] \in Tasks BY DEF TypeInv, TypeOK
<1>2. SeenVersion \in Nat BY SeenVersionType DEF TypeInv, TypeOK
<1> QED BY <1>1, <1>2 DEF Paired, Tasks

(* Every step keeps the types: the surroundings first, then one step per   *)
(* operation.                                                              *)
LEMMA TypeStep == TypeInv /\ [Next]_vars => TypeInv'
<1> SUFFICES ASSUME TypeInv, [Next]_vars PROVE TypeInv'
    OBVIOUS
<1> USE DEF env
<1>1. CASE Tick
  BY <1>1, HorizonAssumption DEF Tick, TypeInv, TypeOK, DerivedOutcomes
<1>2. CASE SetPolicy
  BY <1>2 DEF SetPolicy, TypeInv, TypeOK, DerivedOutcomes
<1>3. CASE SetCuration
  BY <1>3 DEF SetCuration, TypeInv, TypeOK, DerivedOutcomes
<1>4. CASE BitRot
  BY <1>4 DEF BitRot, TypeInv, TypeOK, DerivedOutcomes
<1>5. ASSUME NEW p \in Procs, SelectExpired(p) PROVE TypeInv'
  <2>1. [Idle EXCEPT !.pc = "picked", !.op = "sweep"] \in Tasks
    BY IdleType DEF Tasks, AllOps, LoadOps
  <2> QED BY <1>5, <2>1, IdleType, TaskStepType DEF SelectExpired, Idle
<1>6. ASSUME NEW p \in Procs, NEW op \in LoadOps \cap Ops, ReadStream(p, op) PROVE TypeInv'
  <2> DEFINE t == [Idle EXCEPT !.pc = "read", !.op = op, !.ver = SeenVersion,
                               !.now = IF op = "scan" THEN clock ELSE 0]
  <2>1. SeenVersion \in Nat BY SeenVersionType DEF TypeInv, TypeOK
  <2>2. (IF op = "scan" THEN clock ELSE 0) \in 0..Horizon
    BY HorizonAssumption DEF TypeInv, TypeOK
  <2>3. t \in Tasks BY <2>1, <2>2, IdleType DEF Tasks, AllOps
  <2>4. t.pc # "derived" BY IdleType DEF Tasks
  <2>5. task' = [task EXCEPT ![p] = t] /\ UNCHANGED <<stream, status, env>>
    BY <1>6 DEF ReadStream
  <2> HIDE DEF t
  <2> QED BY <2>3, <2>4, <2>5, TaskStepType
<1>7. ASSUME NEW p \in Procs, NEW found \in Findings, DecideScan(p, found) PROVE TypeInv'
  <2> DEFINE t == LoadRow(p)
             plan == IF OverCap(t.ver) THEN NoPlan(t.row)
                        ELSE ScanPlan(t.row, EvidenceAt(t.ver), anchored, found, policy, task[p].now)
  <2>1. t \in Tasks /\ t.row \in Statuses BY LoadRowType DEF Tasks
  <2>2. Decide(p, t, plan) /\ UNCHANGED <<stream, status, env>>
    BY <1>7 DEF DecideScan
  <2> HIDE DEF t
  <2>3. plan \in Plans BY <2>1, NoPlanType, ScanPlanType
  <2> HIDE DEF plan
  <2> QED BY <2>1, <2>2, <2>3, DecideType
<1>8. ASSUME NEW p \in Procs, DecideSweep(p) PROVE TypeInv'
  <2> DEFINE t == LoadRow(p)
             plan == IF OverCap(t.ver) THEN NoPlan(t.row)
                        ELSE SweepPlan(t.row, EvidenceAt(t.ver), policy)
  <2>1. t \in Tasks /\ t.row \in Statuses BY LoadRowType DEF Tasks
  <2>2. Decide(p, t, plan) /\ UNCHANGED <<stream, status, env>>
    BY <1>8 DEF DecideSweep
  <2> HIDE DEF t
  <2>3. plan \in Plans BY <2>1, NoPlanType, ShortPlanTypes
  <2> HIDE DEF plan
  <2> QED BY <2>1, <2>2, <2>3, DecideType
<1>9. ASSUME NEW p \in Procs, DecideIndeterminate(p) PROVE TypeInv'
  <2> DEFINE t == LoadRow(p)
             plan == IndeterminatePlan(t.row)
  <2>1. t \in Tasks /\ t.row \in Statuses BY LoadRowType DEF Tasks
  <2>2. Decide(p, t, plan) /\ UNCHANGED <<stream, status, env>>
    BY <1>9 DEF DecideIndeterminate
  <2> HIDE DEF t
  <2>3. plan \in Plans BY <2>1, NoPlanType, ShortPlanTypes
  <2> HIDE DEF plan
  <2> QED BY <2>1, <2>2, <2>3, DecideType
<1>10. ASSUME NEW p \in Procs, DecideWaive(p) PROVE TypeInv'
  <2> DEFINE t == LoadRow(p)
             plan == IF OverCap(t.ver) /\ t.row = "Rejected" THEN NoPlan(t.row)
                        ELSE WaivePlan(t.row, EvidenceAt(t.ver))
  <2>1. t \in Tasks /\ t.row \in Statuses BY LoadRowType DEF Tasks
  <2>2. Decide(p, t, plan) /\ UNCHANGED <<stream, status, env>>
    BY <1>10 DEF DecideWaive
  <2> HIDE DEF t
  <2>3. plan \in Plans BY <2>1, NoPlanType, ShortPlanTypes
  <2> HIDE DEF plan
  <2> QED BY <2>1, <2>2, <2>3, DecideType
<1>11. ASSUME NEW p \in Procs, DecideBlock(p) PROVE TypeInv'
  <2> DEFINE t == LoadRow(p)
             plan == BlockPlan(t.row)
  <2>1. t \in Tasks /\ t.row \in Statuses BY LoadRowType DEF Tasks
  <2>2. Decide(p, t, plan) /\ UNCHANGED <<stream, status, env>>
    BY <1>11 DEF DecideBlock
  <2> HIDE DEF t
  <2>3. plan \in Plans BY <2>1, NoPlanType, ShortPlanTypes
  <2> HIDE DEF plan
  <2> QED BY <2>1, <2>2, <2>3, DecideType
<1>12. ASSUME NEW p \in Procs, NEW readable \in BOOLEAN, DecideReevaluate(p, readable) PROVE TypeInv'
  <2> DEFINE t == LoadRow(p)
             plan == IF OverCap(t.ver) THEN NoPlan(t.row)
                        ELSE ReevaluatePlan(t.row, EvidenceAt(t.ver), anchored, policy, clock,
                                            readable, curationBlock)
  <2>1. t \in Tasks /\ t.row \in Statuses BY LoadRowType DEF Tasks
  <2>2. Decide(p, t, plan) /\ UNCHANGED <<stream, status, env>>
    BY <1>12 DEF DecideReevaluate
  <2> HIDE DEF t
  <2>3. plan \in Plans BY <2>1, NoPlanType, ReevaluatePlanType
  <2> HIDE DEF plan
  <2> QED BY <2>1, <2>2, <2>3, DecideType
<1>13. ASSUME NEW p \in Procs, NEW outcome, DecideVerify(p, outcome) PROVE TypeInv'
  <2> DEFINE t == LoadRow(p)
             plan == IF OverCap(t.ver) /\ policy.provenance = "Required" THEN NoPlan(t.row)
                        ELSE VerifyPlan(t.row, EvidenceAt(t.ver), outcome, policy)
  <2>1. t \in Tasks /\ t.row \in Statuses BY LoadRowType DEF Tasks
  <2>2. Decide(p, t, plan) /\ UNCHANGED <<stream, status, env>>
    BY <1>13 DEF DecideVerify
  <2> HIDE DEF t
  <2>3. plan \in Plans BY <2>1, NoPlanType, ShortPlanTypes
  <2> HIDE DEF plan
  <2> QED BY <2>1, <2>2, <2>3, DecideType
<1>14. ASSUME NEW p \in Procs, DecideScrub(p) PROVE TypeInv'
  <2> DEFINE t == [Idle EXCEPT !.op = "scrub", !.row = status]
             plan == TombstonePlan(t.row)
  <2>1. t \in Tasks /\ t.row \in Statuses
    BY IdleType DEF Tasks, AllOps, TypeInv, TypeOK
  <2>2. Decide(p, t, plan) /\ UNCHANGED <<stream, status, env>>
    BY <1>14 DEF DecideScrub
  <2> HIDE DEF t
  <2>3. plan \in Plans BY <2>1, NoPlanType, ShortPlanTypes
  <2> HIDE DEF plan
  <2> QED BY <2>1, <2>2, <2>3, DecideType
<1>15. ASSUME NEW p \in Procs, NEW readable \in BOOLEAN, PairTighten(p, readable) PROVE TypeInv'
  <2> DEFINE t == Paired(p)
             plan == IF OverCap(t.ver) THEN NoPlan(t.row)
                        ELSE TightenPlan(t.row, EvidenceAt(t.ver), t.pol, readable)
  <2>1. t \in Tasks /\ t.row \in Statuses BY PairedType DEF Tasks
  <2>2. Decide(p, t, plan) /\ UNCHANGED <<stream, status, env>>
    BY <1>15 DEF PairTighten
  <2> HIDE DEF t
  <2>3. plan \in Plans BY <2>1, NoPlanType, ShortPlanTypes
  <2> HIDE DEF plan
  <2> QED BY <2>1, <2>2, <2>3, DecideType
<1>16. ASSUME NEW p \in Procs, PairRetroCuration(p) PROVE TypeInv'
  <2> DEFINE t == Paired(p)
             plan == RetroBlockPlan(t.row)
  <2>1. t \in Tasks /\ t.row \in Statuses BY PairedType DEF Tasks
  <2>2. Decide(p, t, plan) /\ UNCHANGED <<stream, status, env>>
    BY <1>16 DEF PairRetroCuration
  <2> HIDE DEF t
  <2>3. plan \in Plans BY <2>1, NoPlanType, ShortPlanTypes
  <2> HIDE DEF plan
  <2> QED BY <2>1, <2>2, <2>3, DecideType
<1>17. ASSUME NEW p \in Procs, PairCascade(p) PROVE TypeInv'
  <2> DEFINE t == Paired(p)
             plan == IF OverCap(t.ver) THEN NoPlan(t.row)
                        ELSE CascadePlan(t.row, EvidenceAt(t.ver))
  <2>1. t \in Tasks /\ t.row \in Statuses BY PairedType DEF Tasks
  <2>2. Decide(p, t, plan) /\ UNCHANGED <<stream, status, env>>
    BY <1>17 DEF PairCascade
  <2> HIDE DEF t
  <2>3. plan \in Plans BY <2>1, NoPlanType, ShortPlanTypes
  <2> HIDE DEF plan
  <2> QED BY <2>1, <2>2, <2>3, DecideType
<1>18. ASSUME NEW p \in Procs, NEW op \in PassOps \cap Ops, ListPage(p, op) PROVE TypeInv'
  <2> DEFINE t == [Idle EXCEPT !.pc = "picked", !.op = op, !.row = status,
                               !.pol = policy, !.now = clock]
  <2>1. t \in Tasks BY IdleType DEF Tasks, AllOps, TypeInv, TypeOK
  <2>2. t.pc # "derived" BY IdleType DEF Tasks
  <2>3. task' = [task EXCEPT ![p] = t] /\ UNCHANGED <<stream, status, env>>
    BY <1>18 DEF ListPage
  <2> HIDE DEF t
  <2> QED BY <2>1, <2>2, <2>3, TaskStepType
<1>19. ASSUME NEW p \in Procs, NEW readable \in BOOLEAN, PairLoosen(p, readable) PROVE TypeInv'
  <2> DEFINE t == Paired(p)
             ev == EvidenceAt(t.ver)
             to == RejectedOutcome(ev, anchored, t.pol, t.now, readable)
             may == ~OverCap(t.ver) /\ MayReEvaluate(t.row, ev, to, t.pol, curationBlock)
             u == IF may THEN [t EXCEPT !.pc = "derived", !.to = to] ELSE Idle
  <2>1. t \in Tasks BY PairedType
  <2>2. task' = [task EXCEPT ![p] = u] /\ UNCHANGED <<stream, status, env>>
    BY <1>19 DEF PairLoosen
  <2> HIDE DEF t
  <2>3. to \in Statuses /\ (may => to \in {"Quarantined", "Released"})
    BY OutcomeType DEF MayReEvaluate, Statuses
  <2> HIDE DEF to, may
  <2>4. u \in Tasks /\ (u.pc = "derived" => u.to \in {"Quarantined", "Released"})
    BY <2>1, <2>3, IdleType DEF Tasks
  <2> HIDE DEF u
  <2> QED BY <2>2, <2>4, TaskStepType
<1>20. ASSUME NEW p \in Procs, ReEvaluateRejected(p) PROVE TypeInv'
  <2> DEFINE t == task[p]
             to == ReEvaluateAt(t.pol, clock)
             plan == Plan(<<ArtifactReEvaluated(t.to), ReEvaluationCompanion(to)>>, to)
  <2>1. t \in Tasks /\ t.to \in {"Quarantined", "Released", "Rejected"}
    BY <1>20 DEF ReEvaluateRejected, TypeInv, TypeOK, DerivedOutcomes
  <2>2. Decide(p, t, plan) /\ UNCHANGED <<stream, status, env>>
    BY <1>20 DEF ReEvaluateRejected
  <2>3. to \in Statuses BY DEF ReEvaluateAt, Statuses
  <2> HIDE DEF t, to
  <2>4. <<ArtifactReEvaluated(t.to), ReEvaluationCompanion(to)>> \in Seq(Events)
    BY <2>1, ReEvaluationBatchType
  <2>5. plan \in Plans BY <2>3, <2>4, PlanType
  <2> HIDE DEF plan
  <2> QED BY <2>1, <2>2, <2>5, DecideType
<1>21. ASSUME NEW p \in Procs, Commit(p) PROVE TypeInv'
  <2>1. task[p] \in Tasks BY DEF TypeInv, TypeOK
  <2>2. stream' \in Seq(Events)
    BY <1>21, <2>1 DEF Commit, TypeInv, TypeOK, Tasks
  <2>3. status' \in Statuses
    BY <1>21, <2>1 DEF Commit, WrittenStatus, TypeInv, TypeOK, Tasks
  <2>4. task' \in [Procs -> Tasks] /\ DerivedOutcomes'
    BY <1>21, IdleType, TaskUpdate DEF Commit
  <2> QED BY <1>21, <2>2, <2>3, <2>4 DEF Commit, TypeInv, TypeOK
<1>22. ASSUME NEW p \in Procs, Conflict(p) PROVE TypeInv'
  <2> DEFINE u == IF task[p].op = "cascade"
                  THEN [task[p] EXCEPT !.pc = "picked", !.op = "cascadeRetry", !.ver = 0,
                                       !.batch = << >>, !.to = "None"]
                  ELSE Idle
  <2>1. task[p] \in Tasks BY DEF TypeInv, TypeOK
  <2>2. << >> \in Seq(Events) /\ "None" \in Statuses /\ "cascadeRetry" \in AllOps
    BY DEF Statuses, AllOps, PassOps
  <2>3. u \in Tasks /\ u.pc # "derived" BY <2>1, <2>2, IdleType DEF Tasks
  <2>4. task' = [task EXCEPT ![p] = u] /\ UNCHANGED <<stream, status, env>>
    BY <1>22 DEF Conflict
  <2> HIDE DEF u
  <2> QED BY <2>3, <2>4, TaskStepType
<1>23. CASE UNCHANGED vars
  BY <1>23 DEF vars, TypeInv, TypeOK, DerivedOutcomes
<1> QED
  BY <1>1, <1>2, <1>3, <1>4, <1>5, <1>6, <1>7, <1>8, <1>9, <1>10, <1>11, <1>12, <1>13, <1>14, <1>15, <1>16, <1>17, <1>18, <1>19, <1>20, <1>21, <1>22, <1>23
  DEF Next, Step

(* The stream stays a sequence of the events the application writes, the   *)
(* row a QuarantineStatus, and every call's locals well typed.             *)
THEOREM TypeCorrect == Spec => []TypeOK
<1>1. TypeInv => TypeOK BY DEF TypeInv
<1> QED BY <1>1, TypeInit, TypeStep, PTL DEF Spec

-----------------------------------------------------------------------------
(***************************************************************************)
(* The optimistic append protects what was read before it.  For every      *)
(* number of processes: a decision taken by ArtifactAtVersion::load whose  *)
(* version still holds was taken on the current row and on the whole       *)
(* stream, so its events are admissible when they land.                    *)
(***************************************************************************)

(* The events the entity admits on a status with given evidence, and the   *)
(* ones it admits on any.                                                  *)
Admissible(st, ev) == {e \in Events : Admits(st, ev, e)}
Condemnations == {Plain("ArtifactCorrupted"), ArtifactRejected("Corruption")}

-----------------------------------------------------------------------------
(* What the table admits, event by event. *)

LEMMA RecordsAdmitted ==
    ASSUME NEW st, NEW ev, NEW found \in Findings, NEW r \in {"Pass", "Fail"}
    PROVE  /\ ScanCompleted(found) \in Admissible(st, ev)
           /\ PolicyEvaluated(r) \in Admissible(st, ev)
           /\ Plain("ArtifactBecameVulnerable") \in Admissible(st, ev)
           /\ Plain("ProvenanceVerified") \in Admissible(st, ev)
           /\ Plain("ProvenanceRejected") \in Admissible(st, ev)
           /\ ArtifactRejected("Provenance") \in Admissible(st, ev)
           /\ Condemnations \subseteq Admissible(st, ev)
           /\ \A to \in {"Quarantined", "Released", "Rejected"} :
                 ArtifactReEvaluated(to) \in Admissible(st, ev)
<1>1. /\ ScanCompleted(found) \in Events /\ PolicyEvaluated(r) \in Events
      /\ Plain("ArtifactBecameVulnerable") \in Events
      /\ Plain("ProvenanceVerified") \in Events /\ Plain("ProvenanceRejected") \in Events
      /\ ArtifactRejected("Provenance") \in Events
      /\ Plain("ArtifactCorrupted") \in Events /\ ArtifactRejected("Corruption") \in Events
      /\ \A to \in {"Quarantined", "Released", "Rejected"} : ArtifactReEvaluated(to) \in Events
  BY EventFacts DEF Reasons
<1> USE DEF Admits, ScanCompleted, PolicyEvaluated, Plain, ArtifactRejected,
            ArtifactReleased, ArtifactReEvaluated
<1>2. Admits(st, ev, ScanCompleted(found)) OBVIOUS
<1>3. Admits(st, ev, PolicyEvaluated(r)) OBVIOUS
<1>4. \A ty \in {"ArtifactBecameVulnerable", "ProvenanceVerified", "ProvenanceRejected",
                 "ArtifactCorrupted"} : Admits(st, ev, Plain(ty)) OBVIOUS
<1>5. \A by \in {"Provenance", "Corruption"} : Admits(st, ev, ArtifactRejected(by)) OBVIOUS
<1>6. \A to : Admits(st, ev, ArtifactReEvaluated(to)) OBVIOUS
<1> QED
  BY <1>1, <1>2, <1>3, <1>4, <1>5, <1>6 DEF Admissible, Condemnations

LEMMA TransitionsAdmitted ==
    ASSUME NEW st, NEW ev
    PROVE  /\ CanRejectFromScan(st, ev.origin) => ArtifactRejected("Scanner") \in Admissible(st, ev)
           /\ st \in AllowedFrom.Release \ {"Rejected"}
                 => ArtifactReleased("Timer") \in Admissible(st, ev)
           /\ CanWaive(st, ev.reason) => ArtifactReleased("Curator") \in Admissible(st, ev)
           /\ st \in AllowedFrom.FailScanIndeterminate
                 => Plain("ScanIndeterminate") \in Admissible(st, ev)
           /\ st \in AllowedFrom.BlockByCurator
                 => ArtifactRejected("Curator") \in Admissible(st, ev)
           /\ st \in AllowedFrom.ReEvaluate /\ IsScanClearable(ev.reason)
                 => \A to : ReEvaluationCompanion(to) \in Admissible(st, ev)
<1>1. /\ ArtifactRejected("Scanner") \in Events /\ ArtifactReleased("Timer") \in Events
      /\ ArtifactReleased("Curator") \in Events /\ Plain("ScanIndeterminate") \in Events
      /\ ArtifactRejected("Curator") \in Events /\ Plain("ArtifactQuarantined") \in Events
      /\ ArtifactReleased("PolicyReEvaluation") \in Events
  BY EventFacts DEF Reasons, ReleaseReasons
<1> USE DEF Admits, Plain, ScanCompleted, PolicyEvaluated, ArtifactRejected, ArtifactReleased
<1>2. CanRejectFromScan(st, ev.origin) => Admits(st, ev, ArtifactRejected("Scanner")) OBVIOUS
<1>3. st \in AllowedFrom.Release \ {"Rejected"} => Admits(st, ev, ArtifactReleased("Timer"))
  OBVIOUS
<1>4. CanWaive(st, ev.reason) => Admits(st, ev, ArtifactReleased("Curator")) OBVIOUS
<1>5. st \in AllowedFrom.FailScanIndeterminate => Admits(st, ev, Plain("ScanIndeterminate"))
  OBVIOUS
<1>6. st \in AllowedFrom.BlockByCurator => Admits(st, ev, ArtifactRejected("Curator")) OBVIOUS
<1>7. st \in AllowedFrom.ReEvaluate /\ IsScanClearable(ev.reason)
        => /\ Admits(st, ev, Plain("ArtifactQuarantined"))
           /\ Admits(st, ev, ArtifactReleased("PolicyReEvaluation"))
  OBVIOUS
<1> QED
  BY <1>1, <1>2, <1>3, <1>4, <1>5, <1>6, <1>7 DEF Admissible, ReEvaluationCompanion

-----------------------------------------------------------------------------
(* Every plan of a load operation is admissible on the row and evidence it *)
(* was derived from.                                                       *)

LEMMA ScanBatchAdmissible ==
    ASSUME NEW st, NEW ev, NEW found \in Findings, NEW r \in {"Pass", "Fail"}
    PROVE  <<ScanCompleted(found)>> \o BecameVulnerable(ev, found) \o <<PolicyEvaluated(r)>>
               \in Seq(Admissible(st, ev))
<1>1. /\ ScanCompleted(found) \in Admissible(st, ev)
      /\ PolicyEvaluated(r) \in Admissible(st, ev)
      /\ Plain("ArtifactBecameVulnerable") \in Admissible(st, ev)
  BY RecordsAdmitted
<1>2. BecameVulnerable(ev, found) \in Seq(Admissible(st, ev))
  BY <1>1 DEF BecameVulnerable
<1>3. /\ <<ScanCompleted(found)>> \in Seq(Admissible(st, ev))
      /\ <<PolicyEvaluated(r)>> \in Seq(Admissible(st, ev))
  BY <1>1
<1> QED BY <1>2, <1>3

LEMMA ScanPlanAdmissible ==
    ASSUME NEW row, NEW ev, NEW anch, NEW found \in Findings, NEW pol, NEW now
    PROVE  ScanPlan(row, ev, anch, found, pol, now).batch \in Seq(Admissible(row, ev))
<1>1. RejectVerdictPlan(row, ev, found).batch \in Seq(Admissible(row, ev))
  <2> DEFINE scan == <<ScanCompleted(found)>> \o BecameVulnerable(ev, found)
                        \o <<PolicyEvaluated("Fail")>>
  <2>1. scan \in Seq(Admissible(row, ev)) BY ScanBatchAdmissible
  <2>2. CanRejectFromScan(row, ev.origin)
          => Append(scan, ArtifactRejected("Scanner")) \in Seq(Admissible(row, ev))
    BY <2>1, TransitionsAdmitted
  <2> HIDE DEF scan
  <2> QED BY <2>1, <2>2 DEF RejectVerdictPlan, Plan, scan
<1>2. NonRejectingVerdictPlan(row, ev, anch, found, pol, now).batch \in Seq(Admissible(row, ev))
  <2> DEFINE r == IF EvaluateScanResult(found, pol) = "Clean" THEN "Pass" ELSE "Fail"
             scan == <<ScanCompleted(found)>> \o BecameVulnerable(ev, found)
                        \o <<PolicyEvaluated(r)>>
             releases == /\ row = "Quarantined" /\ anch /\ DeadlinePassed(pol, now)
                         /\ CanReleaseByTimer(row, LatestScanStanding(scan), ev.verified, pol)
  <2>1. scan \in Seq(Admissible(row, ev))
    <3>1. r \in {"Pass", "Fail"} OBVIOUS
    <3> HIDE DEF r
    <3> QED BY <3>1, ScanBatchAdmissible
  <2>2. releases => Append(scan, ArtifactReleased("Timer")) \in Seq(Admissible(row, ev))
    BY <2>1, TransitionsAdmitted DEF CanReleaseByTimer
  <2>3. NonRejectingVerdictPlan(row, ev, anch, found, pol, now)
          = IF releases THEN Plan(Append(scan, ArtifactReleased("Timer")), "Released")
            ELSE Plan(scan, row)
    BY DEF NonRejectingVerdictPlan
  <2> HIDE DEF scan, releases
  <2> QED BY <2>1, <2>2, <2>3 DEF Plan
<1> QED BY <1>1, <1>2 DEF ScanPlan

LEMMA ShortPlansAdmissible ==
    ASSUME NEW row, NEW ev, NEW pol, NEW outcome
    PROVE  /\ SweepPlan(row, ev, pol).batch \in Seq(Admissible(row, ev))
           /\ IndeterminatePlan(row).batch \in Seq(Admissible(row, ev))
           /\ WaivePlan(row, ev).batch \in Seq(Admissible(row, ev))
           /\ BlockPlan(row).batch \in Seq(Admissible(row, ev))
           /\ VerifyPlan(row, ev, outcome, pol).batch \in Seq(Admissible(row, ev))
           /\ NoPlan(row).batch \in Seq(Admissible(row, ev))
<1> USE DEF PlanIf, Plan, NoPlan
<1>1. << >> \in Seq(Admissible(row, ev)) OBVIOUS
<1>2. SweepPlan(row, ev, pol).batch \in Seq(Admissible(row, ev))
  BY <1>1, TransitionsAdmitted DEF SweepPlan, CanReleaseByTimer
<1>3. IndeterminatePlan(row).batch \in Seq(Admissible(row, ev))
  BY <1>1, TransitionsAdmitted DEF IndeterminatePlan
<1>4. WaivePlan(row, ev).batch \in Seq(Admissible(row, ev))
  BY <1>1, TransitionsAdmitted DEF WaivePlan
<1>5. BlockPlan(row).batch \in Seq(Admissible(row, ev))
  BY <1>1, TransitionsAdmitted DEF BlockPlan
<1>6. VerifyPlan(row, ev, outcome, pol).batch \in Seq(Admissible(row, ev))
  <2>1. /\ Plain("ProvenanceVerified") \in Admissible(row, ev)
        /\ Plain("ProvenanceRejected") \in Admissible(row, ev)
        /\ ArtifactRejected("Provenance") \in Admissible(row, ev)
    BY RecordsAdmitted DEF Findings
  <2> QED BY <1>1, <2>1 DEF VerifyPlan
<1> QED BY <1>1, <1>2, <1>3, <1>4, <1>5, <1>6

LEMMA ReevaluatePlanAdmissible ==
    ASSUME NEW row, NEW ev, NEW anch, NEW pol, NEW now, NEW readable, NEW blocked
    PROVE  ReevaluatePlan(row, ev, anch, pol, now, readable, blocked).batch
               \in Seq(Admissible(row, ev))
<1> DEFINE to == RejectedOutcome(ev, anch, pol, now, readable)
<1>1. to \in {"Quarantined", "Released", "Rejected"} BY OutcomeType
<1>2. ArtifactReEvaluated(to) \in Admissible(row, ev) BY <1>1, RecordsAdmitted DEF Findings
<1>3. MayReEvaluate(row, ev, to, pol, blocked)
        => ReEvaluationCompanion(to) \in Admissible(row, ev)
  BY TransitionsAdmitted DEF MayReEvaluate
<1>4. ReevaluatePlan(row, ev, anch, pol, now, readable, blocked)
        = PlanIf(MayReEvaluate(row, ev, to, pol, blocked),
                 <<ArtifactReEvaluated(to), ReEvaluationCompanion(to)>>, to, row)
  BY DEF ReevaluatePlan
<1> HIDE DEF to
<1>5. MayReEvaluate(row, ev, to, pol, blocked)
        => <<ArtifactReEvaluated(to), ReEvaluationCompanion(to)>> \in Seq(Admissible(row, ev))
  BY <1>2, <1>3
<1>6. << >> \in Seq(Admissible(row, ev)) OBVIOUS
<1> QED BY <1>4, <1>5, <1>6 DEF PlanIf, Plan, NoPlan

LEMMA TombstoneCondemns ==
    ASSUME NEW row
    PROVE  TombstonePlan(row).batch \in Seq(Condemnations)
<1>1. Plain("ArtifactCorrupted") \in Condemnations /\ ArtifactRejected("Corruption") \in Condemnations
  BY DEF Condemnations
<1>2. /\ << >> \in Seq(Condemnations)
      /\ <<Plain("ArtifactCorrupted"), ArtifactRejected("Corruption")>> \in Seq(Condemnations)
  BY <1>1
<1> QED BY <1>2 DEF TombstonePlan, PlanIf, Plan, NoPlan

-----------------------------------------------------------------------------
(* The inductive invariant, call by call.  No version is ahead of the      *)
(* stream and no commit is empty, so a commit of anyone else leaves every  *)
(* other decided version behind; and until then nothing the decision read  *)
(* has changed.                                                            *)

CallOK(t, s, st) ==
    /\ t.ver <= Len(s)
    /\ t.pc = "decided" => t.batch # << >>
    /\ t.pc = "decided" /\ t.op \in LoadOps /\ t.ver = Len(s)
         => t.row = st /\ t.batch \in Seq(Admissible(st, Evidence(s)))
    /\ t.pc = "decided" /\ t.op = "scrub" => t.batch \in Seq(Condemnations)
    /\ t.pc = "derived" => t.op = "loosen"

CallsOK == \A p \in Procs : CallOK(task[p], stream, status)

ReadInv == TypeInv /\ CallsOK

LEMMA IdleOK ==
    ASSUME NEW s, NEW st, Len(s) \in Nat
    PROVE  CallOK(Idle, s, st)
  BY DEF CallOK, Idle

(* A step that only replaces one call's locals. *)
LEMMA CallStep ==
    ASSUME ReadInv, NEW p \in Procs, NEW u, CallOK(u, stream, status),
           task' = [task EXCEPT ![p] = u], stream' = stream, status' = status
    PROVE  CallsOK'
<1>1. task \in [Procs -> Tasks] BY DEF ReadInv, TypeInv, TypeOK
<1>2. \A q \in Procs : task'[q] = u \/ task'[q] = task[q] BY <1>1
<1>3. \A q \in Procs : CallOK(task'[q], stream, status) BY <1>2 DEF ReadInv, CallsOK
<1> QED BY <1>3 DEF CallsOK

LEMMA DecideOK ==
    ASSUME ReadInv, NEW p \in Procs, NEW t \in Tasks, NEW plan \in Plans,
           t.ver <= Len(stream),
           t.op \in LoadOps /\ t.ver = Len(stream)
              => t.row = status /\ plan.batch \in Seq(Admissible(status, Evidence(stream))),
           t.op = "scrub" => plan.batch \in Seq(Condemnations),
           Decide(p, t, plan), UNCHANGED <<stream, status, env>>
    PROVE  CallsOK'
<1> DEFINE u == IF plan.batch = << >> THEN Idle
                ELSE [t EXCEPT !.pc = "decided", !.batch = plan.batch, !.to = plan.to]
<1>1. task' = [task EXCEPT ![p] = u] BY DEF Decide
<1>2. CallOK(u, stream, status)
  <2>1. CASE plan.batch = << >>
    BY <2>1, IdleOK DEF ReadInv, TypeInv, TypeOK
  <2>2. CASE plan.batch # << >>
    BY <2>2 DEF CallOK, Tasks, Plans
  <2> QED BY <2>1, <2>2
<1> HIDE DEF u
<1> QED BY <1>1, <1>2, CallStep DEF env

(* A load's second half decides on the current row; when its version is    *)
(* still the stream's, it decided on the whole stream.                     *)
LEMMA LoadRowFacts ==
    ASSUME ReadInv, NEW p \in Procs, task[p].op \in LoadOps
    PROVE  /\ LoadRow(p) \in Tasks
           /\ LoadRow(p).row = status /\ status \in Statuses
           /\ LoadRow(p).ver <= Len(stream)
           /\ LoadRow(p).ver = Len(stream) => EvidenceAt(LoadRow(p).ver) = Evidence(stream)
           /\ LoadRow(p).op = task[p].op /\ LoadRow(p).op # "scrub"
<1>1. task[p] \in Tasks /\ status \in Statuses /\ stream \in Seq(Events)
  BY DEF ReadInv, TypeInv, TypeOK
<1>2. LoadRow(p) \in Tasks BY LoadRowType DEF ReadInv
<1>3. /\ LoadRow(p).row = status /\ LoadRow(p).ver = task[p].ver
      /\ LoadRow(p).op = task[p].op
  BY <1>1 DEF LoadRow, Tasks
<1>4. task[p].ver <= Len(stream) BY DEF ReadInv, CallsOK, CallOK
<1>5. SubSeq(stream, 1, Len(stream)) = stream BY <1>1
<1> QED BY <1>1, <1>2, <1>3, <1>4, <1>5 DEF EvidenceAt, LoadOps

LEMMA PairedFacts ==
    ASSUME ReadInv, NEW p \in Procs
    PROVE  /\ Paired(p) \in Tasks
           /\ Paired(p).ver <= Len(stream)
           /\ Paired(p).op = task[p].op
           /\ Paired(p).row \in Statuses
<1>1. task[p] \in Tasks BY DEF ReadInv, TypeInv, TypeOK
<1>2. Paired(p) \in Tasks BY PairedType DEF ReadInv
<1>3. SeenVersion <= Len(stream) BY SeenVersionType DEF ReadInv, TypeInv, TypeOK
<1> QED BY <1>1, <1>2, <1>3 DEF Paired, Tasks

(* A commit makes the stream strictly longer than every other version. *)
LEMMA CommitOK ==
    ASSUME ReadInv, NEW p \in Procs, Commit(p)
    PROVE  CallsOK'
<1>1. /\ task \in [Procs -> Tasks] /\ stream \in Seq(Events)
      /\ task[p] \in Tasks /\ task[p].batch \in Seq(Events)
  BY DEF ReadInv, TypeInv, TypeOK, Tasks
<1>2. task[p].batch # << >> BY DEF Commit, ReadInv, CallsOK, CallOK
<1>3. stream' = stream \o task[p].batch /\ task' = [task EXCEPT ![p] = Idle]
  BY DEF Commit
<1>4. Len(stream') \in Nat /\ Len(stream') > Len(stream)
  BY <1>1, <1>2, <1>3
<1>5. CallOK(Idle, stream', status') BY <1>4, IdleOK
<1>6. ASSUME NEW q \in Procs, q # p PROVE CallOK(task[q], stream', status')
  <2>1. CallOK(task[q], stream, status) /\ task[q] \in Tasks
    BY <1>1 DEF ReadInv, CallsOK
  <2>2. task[q].ver \in Nat /\ Len(stream) \in Nat BY <1>1, <2>1 DEF Tasks
  <2>3. task[q].ver < Len(stream') BY <1>4, <2>1, <2>2 DEF CallOK
  <2> QED BY <1>4, <2>1, <2>2, <2>3 DEF CallOK
<1>7. \A q \in Procs : task'[q] = IF q = p THEN Idle ELSE task[q] BY <1>1, <1>3
<1> QED BY <1>5, <1>6, <1>7 DEF CallsOK

(* Every step keeps every call in order. *)
LEMMA ReadStep == ReadInv /\ [Next]_vars => CallsOK'
<1> SUFFICES ASSUME ReadInv, [Next]_vars PROVE CallsOK'
    OBVIOUS
<1>1. CASE Tick \/ SetPolicy \/ SetCuration \/ BitRot \/ UNCHANGED vars
  BY <1>1 DEF Tick, SetPolicy, SetCuration, BitRot, vars, ReadInv, CallsOK
<1>2. ASSUME NEW p \in Procs, SelectExpired(p) PROVE CallsOK'
  <2>1. CallOK([Idle EXCEPT !.pc = "picked", !.op = "sweep"], stream, status)
    BY DEF CallOK, Idle, ReadInv, TypeInv, TypeOK
  <2> QED BY <1>2, <2>1, CallStep DEF SelectExpired
<1>3. ASSUME NEW p \in Procs, NEW op \in LoadOps \cap Ops, ReadStream(p, op) PROVE CallsOK'
  <2> DEFINE t == [Idle EXCEPT !.pc = "read", !.op = op, !.ver = SeenVersion,
                               !.now = IF op = "scan" THEN clock ELSE 0]
  <2>1. SeenVersion <= Len(stream) BY SeenVersionType DEF ReadInv, TypeInv, TypeOK
  <2>2. CallOK(t, stream, status) BY <2>1 DEF CallOK, Idle
  <2>3. task' = [task EXCEPT ![p] = t] /\ UNCHANGED <<stream, status>>
    BY <1>3 DEF ReadStream
  <2> HIDE DEF t
  <2> QED BY <2>2, <2>3, CallStep
<1>4. ASSUME NEW p \in Procs, NEW found \in Findings, DecideScan(p, found) PROVE CallsOK'
  <2> DEFINE t == LoadRow(p)
             plan == IF OverCap(t.ver) THEN NoPlan(t.row)
                        ELSE ScanPlan(t.row, EvidenceAt(t.ver), anchored, found, policy, task[p].now)
  <2>1. task[p].op \in LoadOps BY <1>4 DEF DecideScan, LoadOps
  <2>2. /\ t \in Tasks /\ t.row = status /\ t.row \in Statuses /\ t.ver <= Len(stream)
        /\ t.ver = Len(stream) => EvidenceAt(t.ver) = Evidence(stream)
        /\ t.op # "scrub"
    BY <2>1, LoadRowFacts
  <2>3. Decide(p, t, plan) /\ UNCHANGED <<stream, status, env>>
    BY <1>4 DEF DecideScan
  <2> HIDE DEF t
  <2>4. plan \in Plans BY <2>2, NoPlanType, ScanPlanType
  <2>5. plan.batch \in Seq(Admissible(t.row, EvidenceAt(t.ver)))
    BY ScanPlanAdmissible, ShortPlansAdmissible
  <2> HIDE DEF plan
  <2> QED BY <2>2, <2>3, <2>4, <2>5, DecideOK
<1>5. ASSUME NEW p \in Procs, DecideSweep(p) PROVE CallsOK'
  <2> DEFINE t == LoadRow(p)
             plan == IF OverCap(t.ver) THEN NoPlan(t.row)
                        ELSE SweepPlan(t.row, EvidenceAt(t.ver), policy)
  <2>1. task[p].op \in LoadOps BY <1>5 DEF DecideSweep, LoadOps
  <2>2. /\ t \in Tasks /\ t.row = status /\ t.row \in Statuses /\ t.ver <= Len(stream)
        /\ t.ver = Len(stream) => EvidenceAt(t.ver) = Evidence(stream)
        /\ t.op # "scrub"
    BY <2>1, LoadRowFacts
  <2>3. Decide(p, t, plan) /\ UNCHANGED <<stream, status, env>>
    BY <1>5 DEF DecideSweep
  <2> HIDE DEF t
  <2>4. plan \in Plans BY <2>2, NoPlanType, ShortPlanTypes
  <2>5. plan.batch \in Seq(Admissible(t.row, EvidenceAt(t.ver)))
    BY ShortPlansAdmissible
  <2> HIDE DEF plan
  <2> QED BY <2>2, <2>3, <2>4, <2>5, DecideOK
<1>6. ASSUME NEW p \in Procs, DecideIndeterminate(p) PROVE CallsOK'
  <2> DEFINE t == LoadRow(p)
             plan == IndeterminatePlan(t.row)
  <2>1. task[p].op \in LoadOps BY <1>6 DEF DecideIndeterminate, LoadOps
  <2>2. /\ t \in Tasks /\ t.row = status /\ t.row \in Statuses /\ t.ver <= Len(stream)
        /\ t.ver = Len(stream) => EvidenceAt(t.ver) = Evidence(stream)
        /\ t.op # "scrub"
    BY <2>1, LoadRowFacts
  <2>3. Decide(p, t, plan) /\ UNCHANGED <<stream, status, env>>
    BY <1>6 DEF DecideIndeterminate
  <2> HIDE DEF t
  <2>4. plan \in Plans BY <2>2, NoPlanType, ShortPlanTypes
  <2>5. plan.batch \in Seq(Admissible(t.row, EvidenceAt(t.ver)))
    BY ShortPlansAdmissible
  <2> HIDE DEF plan
  <2> QED BY <2>2, <2>3, <2>4, <2>5, DecideOK
<1>7. ASSUME NEW p \in Procs, DecideWaive(p) PROVE CallsOK'
  <2> DEFINE t == LoadRow(p)
             plan == IF OverCap(t.ver) /\ t.row = "Rejected" THEN NoPlan(t.row)
                        ELSE WaivePlan(t.row, EvidenceAt(t.ver))
  <2>1. task[p].op \in LoadOps BY <1>7 DEF DecideWaive, LoadOps
  <2>2. /\ t \in Tasks /\ t.row = status /\ t.row \in Statuses /\ t.ver <= Len(stream)
        /\ t.ver = Len(stream) => EvidenceAt(t.ver) = Evidence(stream)
        /\ t.op # "scrub"
    BY <2>1, LoadRowFacts
  <2>3. Decide(p, t, plan) /\ UNCHANGED <<stream, status, env>>
    BY <1>7 DEF DecideWaive
  <2> HIDE DEF t
  <2>4. plan \in Plans BY <2>2, NoPlanType, ShortPlanTypes
  <2>5. plan.batch \in Seq(Admissible(t.row, EvidenceAt(t.ver)))
    BY ShortPlansAdmissible
  <2> HIDE DEF plan
  <2> QED BY <2>2, <2>3, <2>4, <2>5, DecideOK
<1>8. ASSUME NEW p \in Procs, DecideBlock(p) PROVE CallsOK'
  <2> DEFINE t == LoadRow(p)
             plan == BlockPlan(t.row)
  <2>1. task[p].op \in LoadOps BY <1>8 DEF DecideBlock, LoadOps
  <2>2. /\ t \in Tasks /\ t.row = status /\ t.row \in Statuses /\ t.ver <= Len(stream)
        /\ t.ver = Len(stream) => EvidenceAt(t.ver) = Evidence(stream)
        /\ t.op # "scrub"
    BY <2>1, LoadRowFacts
  <2>3. Decide(p, t, plan) /\ UNCHANGED <<stream, status, env>>
    BY <1>8 DEF DecideBlock
  <2> HIDE DEF t
  <2>4. plan \in Plans BY <2>2, NoPlanType, ShortPlanTypes
  <2>5. plan.batch \in Seq(Admissible(t.row, EvidenceAt(t.ver)))
    BY ShortPlansAdmissible
  <2> HIDE DEF plan
  <2> QED BY <2>2, <2>3, <2>4, <2>5, DecideOK
<1>9. ASSUME NEW p \in Procs, NEW readable \in BOOLEAN, DecideReevaluate(p, readable) PROVE CallsOK'
  <2> DEFINE t == LoadRow(p)
             plan == IF OverCap(t.ver) THEN NoPlan(t.row)
                        ELSE ReevaluatePlan(t.row, EvidenceAt(t.ver), anchored, policy, clock,
                                            readable, curationBlock)
  <2>1. task[p].op \in LoadOps BY <1>9 DEF DecideReevaluate, LoadOps
  <2>2. /\ t \in Tasks /\ t.row = status /\ t.row \in Statuses /\ t.ver <= Len(stream)
        /\ t.ver = Len(stream) => EvidenceAt(t.ver) = Evidence(stream)
        /\ t.op # "scrub"
    BY <2>1, LoadRowFacts
  <2>3. Decide(p, t, plan) /\ UNCHANGED <<stream, status, env>>
    BY <1>9 DEF DecideReevaluate
  <2> HIDE DEF t
  <2>4. plan \in Plans BY <2>2, NoPlanType, ReevaluatePlanType
  <2>5. plan.batch \in Seq(Admissible(t.row, EvidenceAt(t.ver)))
    BY ReevaluatePlanAdmissible, ShortPlansAdmissible
  <2> HIDE DEF plan
  <2> QED BY <2>2, <2>3, <2>4, <2>5, DecideOK
<1>10. ASSUME NEW p \in Procs, NEW outcome, DecideVerify(p, outcome) PROVE CallsOK'
  <2> DEFINE t == LoadRow(p)
             plan == IF OverCap(t.ver) /\ policy.provenance = "Required" THEN NoPlan(t.row)
                        ELSE VerifyPlan(t.row, EvidenceAt(t.ver), outcome, policy)
  <2>1. task[p].op \in LoadOps BY <1>10 DEF DecideVerify, LoadOps
  <2>2. /\ t \in Tasks /\ t.row = status /\ t.row \in Statuses /\ t.ver <= Len(stream)
        /\ t.ver = Len(stream) => EvidenceAt(t.ver) = Evidence(stream)
        /\ t.op # "scrub"
    BY <2>1, LoadRowFacts
  <2>3. Decide(p, t, plan) /\ UNCHANGED <<stream, status, env>>
    BY <1>10 DEF DecideVerify
  <2> HIDE DEF t
  <2>4. plan \in Plans BY <2>2, NoPlanType, ShortPlanTypes
  <2>5. plan.batch \in Seq(Admissible(t.row, EvidenceAt(t.ver)))
    BY ShortPlansAdmissible
  <2> HIDE DEF plan
  <2> QED BY <2>2, <2>3, <2>4, <2>5, DecideOK
<1>11. ASSUME NEW p \in Procs, NEW readable \in BOOLEAN, PairTighten(p, readable) PROVE CallsOK'
  <2> DEFINE t == Paired(p)
             plan == IF OverCap(t.ver) THEN NoPlan(t.row)
                        ELSE TightenPlan(t.row, EvidenceAt(t.ver), t.pol, readable)
  <2>1. /\ t \in Tasks /\ t.row \in Statuses /\ t.ver <= Len(stream)
        /\ t.op \notin LoadOps \cup {"scrub"}
    BY <1>11, PairedFacts DEF PairTighten, LoadOps
  <2>2. Decide(p, t, plan) /\ UNCHANGED <<stream, status, env>>
    BY <1>11 DEF PairTighten
  <2> HIDE DEF t
  <2>3. plan \in Plans BY <2>1, NoPlanType, ShortPlanTypes
  <2> HIDE DEF plan
  <2> QED BY <2>1, <2>2, <2>3, DecideOK
<1>12. ASSUME NEW p \in Procs, PairRetroCuration(p) PROVE CallsOK'
  <2> DEFINE t == Paired(p)
             plan == RetroBlockPlan(t.row)
  <2>1. /\ t \in Tasks /\ t.row \in Statuses /\ t.ver <= Len(stream)
        /\ t.op \notin LoadOps \cup {"scrub"}
    BY <1>12, PairedFacts DEF PairRetroCuration, LoadOps
  <2>2. Decide(p, t, plan) /\ UNCHANGED <<stream, status, env>>
    BY <1>12 DEF PairRetroCuration
  <2> HIDE DEF t
  <2>3. plan \in Plans BY <2>1, NoPlanType, ShortPlanTypes
  <2> HIDE DEF plan
  <2> QED BY <2>1, <2>2, <2>3, DecideOK
<1>13. ASSUME NEW p \in Procs, PairCascade(p) PROVE CallsOK'
  <2> DEFINE t == Paired(p)
             plan == IF OverCap(t.ver) THEN NoPlan(t.row)
                        ELSE CascadePlan(t.row, EvidenceAt(t.ver))
  <2>1. /\ t \in Tasks /\ t.row \in Statuses /\ t.ver <= Len(stream)
        /\ t.op \notin LoadOps \cup {"scrub"}
    BY <1>13, PairedFacts DEF PairCascade, LoadOps
  <2>2. Decide(p, t, plan) /\ UNCHANGED <<stream, status, env>>
    BY <1>13 DEF PairCascade
  <2> HIDE DEF t
  <2>3. plan \in Plans BY <2>1, NoPlanType, ShortPlanTypes
  <2> HIDE DEF plan
  <2> QED BY <2>1, <2>2, <2>3, DecideOK
<1>14. ASSUME NEW p \in Procs, DecideScrub(p) PROVE CallsOK'
  <2> DEFINE t == [Idle EXCEPT !.op = "scrub", !.row = status]
             plan == TombstonePlan(t.row)
  <2>1. /\ t \in Tasks /\ t.row \in Statuses
        /\ t.ver <= Len(stream) /\ t.op \notin LoadOps
    <3>1. status \in Statuses /\ stream \in Seq(Events) BY DEF ReadInv, TypeInv, TypeOK
    <3>2. t \in Tasks /\ t.row \in Statuses BY <3>1, IdleType DEF Tasks, AllOps
    <3>3. t.ver = 0 /\ t.op = "scrub" BY DEF Idle
    <3> QED BY <3>1, <3>2, <3>3 DEF LoadOps
  <2>2. Decide(p, t, plan) /\ UNCHANGED <<stream, status, env>>
    BY <1>14 DEF DecideScrub
  <2> HIDE DEF t
  <2>3. plan \in Plans /\ plan.batch \in Seq(Condemnations)
    BY <2>1, ShortPlanTypes, TombstoneCondemns
  <2> HIDE DEF plan
  <2> QED BY <2>1, <2>2, <2>3, DecideOK
<1>15. ASSUME NEW p \in Procs, NEW op \in PassOps \cap Ops, ListPage(p, op) PROVE CallsOK'
  <2> DEFINE t == [Idle EXCEPT !.pc = "picked", !.op = op, !.row = status,
                               !.pol = policy, !.now = clock]
  <2>1. CallOK(t, stream, status) BY DEF CallOK, Idle, ReadInv, TypeInv, TypeOK
  <2>2. task' = [task EXCEPT ![p] = t] /\ UNCHANGED <<stream, status>>
    BY <1>15 DEF ListPage
  <2> HIDE DEF t
  <2> QED BY <2>1, <2>2, CallStep
<1>16. ASSUME NEW p \in Procs, NEW readable \in BOOLEAN, PairLoosen(p, readable) PROVE CallsOK'
  <2> DEFINE t == Paired(p)
             ev == EvidenceAt(t.ver)
             to == RejectedOutcome(ev, anchored, t.pol, t.now, readable)
             may == ~OverCap(t.ver) /\ MayReEvaluate(t.row, ev, to, t.pol, curationBlock)
             u == IF may THEN [t EXCEPT !.pc = "derived", !.to = to] ELSE Idle
  <2>1. t \in Tasks /\ t.ver <= Len(stream) /\ t.op = "loosen"
    BY <1>16, PairedFacts DEF PairLoosen
  <2>2. task' = [task EXCEPT ![p] = u] /\ UNCHANGED <<stream, status>>
    BY <1>16 DEF PairLoosen
  <2> HIDE DEF t, to, may
  <2>3. CallOK(Idle, stream, status) BY IdleOK DEF ReadInv, TypeInv, TypeOK
  <2>4. CallOK([t EXCEPT !.pc = "derived", !.to = to], stream, status)
    BY <2>1 DEF CallOK, Tasks
  <2>5. CallOK(u, stream, status) BY <2>3, <2>4
  <2> HIDE DEF u
  <2> QED BY <2>2, <2>5, CallStep
<1>17. ASSUME NEW p \in Procs, ReEvaluateRejected(p) PROVE CallsOK'
  <2> DEFINE t == task[p]
             to == ReEvaluateAt(t.pol, clock)
             plan == Plan(<<ArtifactReEvaluated(t.to), ReEvaluationCompanion(to)>>, to)
  <2>1. t \in Tasks /\ t.to \in {"Quarantined", "Released", "Rejected"}
    BY <1>17 DEF ReEvaluateRejected, ReadInv, TypeInv, TypeOK, DerivedOutcomes
  <2>2. t.ver <= Len(stream) /\ t.op \notin LoadOps \cup {"scrub"}
    BY <1>17 DEF ReEvaluateRejected, ReadInv, CallsOK, CallOK, LoadOps
  <2>3. Decide(p, t, plan) /\ UNCHANGED <<stream, status, env>>
    BY <1>17 DEF ReEvaluateRejected
  <2>4. to \in Statuses BY DEF ReEvaluateAt, Statuses
  <2> HIDE DEF t, to
  <2>5. <<ArtifactReEvaluated(t.to), ReEvaluationCompanion(to)>> \in Seq(Events)
    BY <2>1, ReEvaluationBatchType
  <2>6. plan \in Plans BY <2>4, <2>5, PlanType
  <2> HIDE DEF plan
  <2> QED BY <2>1, <2>2, <2>3, <2>6, DecideOK
<1>18. ASSUME NEW p \in Procs, Commit(p) PROVE CallsOK'
  BY <1>18, CommitOK
<1>19. ASSUME NEW p \in Procs, Conflict(p) PROVE CallsOK'
  <2> DEFINE retry == [task[p] EXCEPT !.pc = "picked", !.op = "cascadeRetry", !.ver = 0,
                                      !.batch = << >>, !.to = "None"]
             u == IF task[p].op = "cascade" THEN retry ELSE Idle
  <2>1. task[p] \in Tasks /\ stream \in Seq(Events) BY DEF ReadInv, TypeInv, TypeOK
  <2>2. CallOK(Idle, stream, status) BY <2>1, IdleOK
  <2>3. CallOK(retry, stream, status) BY <2>1 DEF CallOK, Tasks
  <2>4. CallOK(u, stream, status) BY <2>2, <2>3
  <2>5. task' = [task EXCEPT ![p] = u] /\ UNCHANGED <<stream, status>>
    BY <1>19 DEF Conflict
  <2> HIDE DEF u
  <2> QED BY <2>4, <2>5, CallStep
<1> QED
  BY <1>1, <1>2, <1>3, <1>4, <1>5, <1>6, <1>7, <1>8, <1>9, <1>10, <1>11, <1>12, <1>13, <1>14, <1>15, <1>16, <1>17, <1>18, <1>19
  DEF Next, Step

LEMMA ReadInit == Init => ReadInv
<1> SUFFICES ASSUME Init PROVE ReadInv OBVIOUS
<1>1. TypeInv BY TypeInit
<1>2. \A p \in Procs : task[p] = Idle BY DEF Init
<1>3. CallOK(Idle, stream, status) BY <1>1, IdleOK DEF TypeInv, TypeOK
<1> QED BY <1>1, <1>2, <1>3 DEF ReadInv, CallsOK

LEMMA ReadInductive == ReadInv /\ [Next]_vars => ReadInv'
  BY TypeStep, ReadStep DEF ReadInv

(* ArtifactAtVersion::load keeps its contract with any number of           *)
(* concurrent callers: a decision whose version still holds was taken on   *)
(* the row as it is now.                                                   *)
THEOREM LoadContract == Spec => []LoadedRowIsCurrent
<1>1. ReadInv => LoadedRowIsCurrent
  <2> SUFFICES ASSUME ReadInv, NEW p \in Procs, task[p].pc = "decided",
                      task[p].op \in LoadOps, VersionHolds(task[p])
               PROVE  task[p].row = status
      BY DEF LoadedRowIsCurrent
  <2>1. task[p].ver = Len(stream) BY DEF VersionHolds, LoadOps
  <2> QED BY <2>1 DEF ReadInv, CallsOK, CallOK
<1> QED BY <1>1, ReadInit, ReadInductive, PTL DEF Spec

-----------------------------------------------------------------------------
(* Without a bulk pass every commit is a load's or the scrub's. *)

UnpagedOps == LoadOps \cup {"scrub"}

NoPassRunning ==
    \A p \in Procs : /\ task[p].op \in UnpagedOps \cup {"none"}
                     /\ task[p].pc = "decided" => task[p].op # "none"
                     /\ task[p].pc # "derived"

LEMMA NoPassInit == Init => NoPassRunning
  BY DEF Init, NoPassRunning, Idle

(* Decide keeps the operation of the call it was made for. *)
LEMMA NoPassDecide ==
    ASSUME TypeOK, NoPassRunning, NEW p \in Procs, NEW t \in Tasks, NEW plan,
           t.op \in UnpagedOps, Decide(p, t, plan)
    PROVE  NoPassRunning'
<1> DEFINE u == IF plan.batch = << >> THEN Idle
                ELSE [t EXCEPT !.pc = "decided", !.batch = plan.batch, !.to = plan.to]
<1>1. task' = [task EXCEPT ![p] = u] BY DEF Decide
<1>2. /\ u.op \in UnpagedOps \cup {"none"} /\ u.pc # "derived"
      /\ u.pc = "decided" => u.op # "none"
  BY DEF Idle, Tasks, UnpagedOps, LoadOps
<1> HIDE DEF u
<1> QED BY <1>1, <1>2 DEF NoPassRunning, TypeOK

LEMMA NoPassStep ==
    ASSUME Ops \subseteq UnpagedOps
    PROVE  TypeInv /\ NoPassRunning /\ [Next]_vars => NoPassRunning'
<1> SUFFICES ASSUME TypeInv, NoPassRunning, [Next]_vars PROVE NoPassRunning'
    OBVIOUS
<1>1. TypeOK /\ task \in [Procs -> Tasks] BY DEF TypeInv, TypeOK
<1>2. CASE Tick \/ SetPolicy \/ SetCuration \/ BitRot \/ UNCHANGED vars
  BY <1>2 DEF Tick, SetPolicy, SetCuration, BitRot, vars, NoPassRunning
<1>3. ASSUME NEW p \in Procs, SelectExpired(p) PROVE NoPassRunning'
  BY <1>1, <1>3 DEF SelectExpired, NoPassRunning, Idle, UnpagedOps, LoadOps
<1>4. ASSUME NEW p \in Procs, NEW op \in LoadOps \cap Ops, ReadStream(p, op) PROVE NoPassRunning'
  BY <1>1, <1>4 DEF ReadStream, NoPassRunning, Idle, UnpagedOps
<1>5. ASSUME NEW p \in Procs, task[p].op \in LoadOps, NEW plan, Decide(p, LoadRow(p), plan)
      PROVE  NoPassRunning'
  <2>1. LoadRow(p) \in Tasks BY LoadRowType
  <2>2. LoadRow(p).op = task[p].op BY <1>1 DEF LoadRow, Tasks
  <2> QED BY <1>1, <1>5, <2>1, <2>2, NoPassDecide DEF UnpagedOps
<1>6. ASSUME NEW p \in Procs, NEW found \in Findings, DecideScan(p, found) PROVE NoPassRunning'
  BY <1>5, <1>6 DEF DecideScan, LoadOps
<1>7. ASSUME NEW p \in Procs, DecideSweep(p) PROVE NoPassRunning'
  BY <1>5, <1>7 DEF DecideSweep, LoadOps
<1>8. ASSUME NEW p \in Procs, DecideIndeterminate(p) PROVE NoPassRunning'
  BY <1>5, <1>8 DEF DecideIndeterminate, LoadOps
<1>9. ASSUME NEW p \in Procs, DecideWaive(p) PROVE NoPassRunning'
  BY <1>5, <1>9 DEF DecideWaive, LoadOps
<1>10. ASSUME NEW p \in Procs, DecideBlock(p) PROVE NoPassRunning'
  BY <1>5, <1>10 DEF DecideBlock, LoadOps
<1>11. ASSUME NEW p \in Procs, NEW readable \in BOOLEAN, DecideReevaluate(p, readable)
       PROVE  NoPassRunning'
  BY <1>5, <1>11 DEF DecideReevaluate, LoadOps
<1>12. ASSUME NEW p \in Procs, NEW outcome, DecideVerify(p, outcome) PROVE NoPassRunning'
  BY <1>5, <1>12 DEF DecideVerify, LoadOps
<1>13. ASSUME NEW p \in Procs, DecideScrub(p) PROVE NoPassRunning'
  <2> DEFINE t == [Idle EXCEPT !.op = "scrub", !.row = status]
  <2>1. t \in Tasks /\ t.op \in UnpagedOps
    BY IdleType DEF Tasks, AllOps, UnpagedOps, TypeInv, TypeOK
  <2>2. Decide(p, t, TombstonePlan(t.row)) BY <1>13 DEF DecideScrub
  <2> HIDE DEF t
  <2> QED BY <1>1, <2>1, <2>2, NoPassDecide
<1>14. ASSUME NEW op \in PassOps \cap Ops PROVE FALSE
  BY <1>14 DEF UnpagedOps, LoadOps, PassOps
<1>15. ASSUME NEW p \in Procs, NEW readable,
              \/ PairTighten(p, readable) \/ PairRetroCuration(p) \/ PairCascade(p)
              \/ PairLoosen(p, readable) \/ ReEvaluateRejected(p)
       PROVE  FALSE
  BY <1>15 DEF PairTighten, PairRetroCuration, PairCascade, PairLoosen, ReEvaluateRejected,
               NoPassRunning, UnpagedOps, LoadOps
<1>16. ASSUME NEW p \in Procs, Commit(p) PROVE NoPassRunning'
  BY <1>1, <1>16 DEF Commit, NoPassRunning, Idle
<1>17. ASSUME NEW p \in Procs, Conflict(p) PROVE NoPassRunning'
  <2>1. task[p].op # "cascade" BY DEF NoPassRunning, UnpagedOps, LoadOps
  <2>2. task' = [task EXCEPT ![p] = Idle] BY <1>17, <2>1 DEF Conflict
  <2> QED BY <1>1, <2>2 DEF NoPassRunning, Idle
<1> QED
  BY <1>2, <1>3, <1>4, <1>6, <1>7, <1>8, <1>9, <1>10, <1>11, <1>12, <1>13, <1>14, <1>15,
     <1>16, <1>17
  DEF Next, Step

(* Only a commit appends. *)
LEMMA OnlyCommitAppends ==
    ASSUME [Next]_vars, \A p \in Procs : ~Commit(p)
    PROVE  stream' = stream
<1>1. CASE Tick \/ SetPolicy \/ SetCuration \/ BitRot \/ UNCHANGED vars
  BY <1>1 DEF Tick, SetPolicy, SetCuration, BitRot, vars
<1>2. ASSUME NEW p \in Procs, Step(p) PROVE stream' = stream
  BY <1>2 DEF Step, SelectExpired, ReadStream, DecideScan, DecideSweep, DecideIndeterminate,
              DecideWaive, DecideBlock, DecideReevaluate, DecideVerify, DecideScrub, ListPage,
              PairTighten, PairRetroCuration, PairCascade, PairLoosen, ReEvaluateRejected,
              Conflict
<1> QED BY <1>1, <1>2 DEF Next

(* The batch a commit appends was derived from the state it lands on. *)
LEMMA CommitAdmissible ==
    ASSUME ReadInv, NoPassRunning, NEW p \in Procs, Commit(p),
           NEW i \in (Len(stream) + 1)..Len(stream')
    PROVE  Admits(status, Evidence(stream), stream'[i])
<1> DEFINE batch == task[p].batch
           A == Admissible(status, Evidence(stream))
<1>1. stream \in Seq(Events) /\ batch \in Seq(Events) /\ task[p].pc = "decided"
  BY DEF ReadInv, TypeInv, TypeOK, Tasks, Commit
<1>2. batch \in Seq(A)
  <2>1. CASE task[p].op \in LoadOps
    <3>1. task[p].ver = Len(stream) BY <2>1 DEF Commit, VersionHolds, LoadOps
    <3> QED BY <1>1, <2>1, <3>1 DEF ReadInv, CallsOK, CallOK
  <2>2. CASE task[p].op = "scrub"
    <3>1. batch \in Seq(Condemnations) BY <1>1, <2>2 DEF ReadInv, CallsOK, CallOK
    <3>2. Condemnations \subseteq A BY RecordsAdmitted DEF Findings
    <3> HIDE DEF batch, A
    <3> QED BY <3>1, <3>2
  <2> QED BY <1>1, <2>1, <2>2 DEF NoPassRunning, UnpagedOps
<1>3. stream' = stream \o batch BY DEF Commit
<1> HIDE DEF batch, A
<1>4. i - Len(stream) \in 1..Len(batch) /\ stream'[i] = batch[i - Len(stream)]
  BY <1>1, <1>3
<1>5. stream'[i] \in A BY <1>2, <1>4
<1> QED BY <1>5 DEF A, Admissible

(* With any number of concurrent scans, sweeps, waives, re-evaluations,    *)
(* blocks, verifications and scrubs, every event was admissible on the     *)
(* status and evidence it was appended to: the optimistic append loses no  *)
(* update.  The bulk passes are excluded: their rows are older than their  *)
(* versions (ArtifactAtVersion::pair).                                     *)
THEOREM LoadedCommitsFollowTable ==
    ASSUME Ops \subseteq UnpagedOps
    PROVE  Spec => CommitsFollowTable
<1> DEFINE Follows == \A i \in (Len(stream) + 1)..Len(stream') :
                          Admits(status, Evidence(stream), stream'[i])
<1>1. ReadInv /\ NoPassRunning /\ [Next]_vars => [Follows]_vars
  <2> SUFFICES ASSUME ReadInv, NoPassRunning, [Next]_vars PROVE Follows
      OBVIOUS
  <2>1. CASE \E p \in Procs : Commit(p)
    BY <2>1, CommitAdmissible
  <2>2. CASE \A p \in Procs : ~Commit(p)
    <3>1. stream' = stream BY <2>2, OnlyCommitAppends
    <3>2. Len(stream) \in Nat BY DEF ReadInv, TypeInv, TypeOK
    <3> QED BY <3>1, <3>2
  <2> QED BY <2>1, <2>2
<1>2. ReadInv /\ NoPassRunning /\ [Next]_vars => NoPassRunning'
  BY NoPassStep DEF ReadInv
<1> QED
  BY <1>1, <1>2, ReadInit, ReadInductive, NoPassInit, PTL DEF Spec, CommitsFollowTable

-----------------------------------------------------------------------------
(***************************************************************************)
(* What the stream says is what happened, for any number of processes.     *)
(*                                                                         *)
(* The argument has two halves.  What the reverse scans of ArtifactStream  *)
(* read off a stream and a batch appended to it follows from what they     *)
(* read off the two.  And a call whose version holds carries the very plan *)
(* its use case derives from the whole stream (PlansHold), so a property   *)
(* of the stream is one question per plan.                                 *)
(***************************************************************************)

-----------------------------------------------------------------------------
(* Reading a stream backwards: there is a latest event of every kind. *)

LEMMA NaturalsWellFounded == IsWellFoundedOn({ss \in Nat \X Nat : ss[1] < ss[2]}, Nat)
BY NatLessThanWellFounded DEF OpToRel

LEMMA LeastOfNaturals ==
    ASSUME NEW S \in SUBSET Nat, S # {}
    PROVE  \E m \in S : \A k \in S : m <= k
<1>1. PICK x \in S : \A y \in S : ~(<<y, x>> \in {ss \in Nat \X Nat : ss[1] < ss[2]})
  BY NaturalsWellFounded, WFMin, Zenon
<1>2. \A y \in S : ~(y < x)
  <2> TAKE y \in S
  <2>1. <<y, x>> \in Nat \X Nat /\ <<y, x>>[1] = y /\ <<y, x>>[2] = x
    OBVIOUS
  <2> QED BY <1>1, <2>1
<1> QED BY <1>2

(* A set of positions has a last one, or there is none. *)
LEMMA LastPosition ==
    ASSUME NEW n \in Nat, NEW S \in SUBSET (1..n)
    PROVE  \E i \in 0..n : (i > 0 => i \in S) /\ (\A j \in S : j <= i)
<1>1. CASE S = {} BY <1>1
<1>2. CASE S # {}
  <2> DEFINE D == {k \in Nat : \E j \in S : k = n - j}
  <2>1. D \in SUBSET Nat /\ D # {}
    <3>1. PICK j \in S : TRUE BY <1>2
    <3>2. n - j \in D BY <3>1
    <3> QED BY <3>2
  <2> HIDE DEF D
  <2>2. PICK m \in D : \A k \in D : m <= k BY <2>1, LeastOfNaturals
  <2>3. PICK i \in S : m = n - i BY DEF D
  <2>4. ASSUME NEW j \in S PROVE j <= i
    <3>1. n - j \in D BY DEF D
    <3> QED BY <2>2, <2>3, <3>1
  <2> QED BY <2>3, <2>4
<1> QED BY <1>1, <1>2

LEMMA LatestFacts ==
    ASSUME NEW s \in Seq(Events), NEW type
    PROVE  /\ Latest(s, type) \in 0..Len(s)
           /\ Latest(s, type) > 0 => s[Latest(s, type)].type = type
           /\ \A j \in 1..Len(s) : s[j].type = type => j <= Latest(s, type)
<1> DEFINE S == {j \in 1..Len(s) : s[j].type = type}
<1>1. \E i \in 0..Len(s) : (i > 0 => i \in S) /\ (\A j \in S : j <= i)
  <2>1. S \in SUBSET (1..Len(s)) /\ Len(s) \in Nat OBVIOUS
  <2> HIDE DEF S
  <2> QED BY <2>1, LastPosition
<1>2. \E i \in 0..Len(s) : /\ i > 0 => s[i].type = type
                           /\ \A j \in 1..Len(s) : s[j].type = type => j <= i
  BY <1>1
<1> QED BY <1>2 DEF Latest

(* The latest event is the one position that is of the type and after all  *)
(* the others.                                                             *)
LEMMA LatestIs ==
    ASSUME NEW s \in Seq(Events), NEW type, NEW i \in 0..Len(s),
           i > 0 => s[i].type = type,
           \A j \in 1..Len(s) : s[j].type = type => j <= i
    PROVE  Latest(s, type) = i
<1> DEFINE l == Latest(s, type)
<1>1. /\ l \in 0..Len(s)
      /\ l > 0 => s[l].type = type
      /\ \A j \in 1..Len(s) : s[j].type = type => j <= l
  BY LatestFacts
<1> HIDE DEF l
<1>2. l <= i /\ i <= l BY <1>1
<1> QED BY <1>1, <1>2 DEF l

(* A stream and a batch, event by event. *)
LEMMA Appended ==
    ASSUME NEW s \in Seq(Events), NEW b \in Seq(Events)
    PROVE  /\ s \o b \in Seq(Events)
           /\ Len(s \o b) = Len(s) + Len(b)
           /\ Len(s) \in Nat /\ Len(b) \in Nat
           /\ \A i \in 1..Len(s) : (s \o b)[i] = s[i]
           /\ \A k \in 1..Len(b) : (s \o b)[Len(s) + k] = b[k]
           /\ \A j \in 1..Len(s \o b) : j \notin 1..Len(s) => j - Len(s) \in 1..Len(b)
  OBVIOUS

LEMMA LatestAppended ==
    ASSUME NEW s \in Seq(Events), NEW b \in Seq(Events), NEW type
    PROVE  Latest(s \o b, type) = IF Latest(b, type) = 0 THEN Latest(s, type)
                                  ELSE Len(s) + Latest(b, type)
<1> DEFINE sb == s \o b
           ls == Latest(s, type)
           lb == Latest(b, type)
           i == IF lb = 0 THEN ls ELSE Len(s) + lb
<1>1. /\ ls \in 0..Len(s)
      /\ ls > 0 => s[ls].type = type
      /\ \A j \in 1..Len(s) : s[j].type = type => j <= ls
  BY LatestFacts
<1>2. /\ lb \in 0..Len(b)
      /\ lb > 0 => b[lb].type = type
      /\ \A j \in 1..Len(b) : b[j].type = type => j <= lb
  BY LatestFacts
<1>3. /\ sb \in Seq(Events) /\ Len(sb) = Len(s) + Len(b)
      /\ Len(s) \in Nat /\ Len(b) \in Nat
      /\ \A j \in 1..Len(s) : sb[j] = s[j]
      /\ \A k \in 1..Len(b) : sb[Len(s) + k] = b[k]
      /\ \A j \in 1..Len(sb) : j \notin 1..Len(s) => j - Len(s) \in 1..Len(b)
  BY Appended
<1> HIDE DEF sb, ls, lb
<1>4. i \in 0..Len(sb) BY <1>1, <1>2, <1>3
<1>5. i > 0 => sb[i].type = type
  <2>1. CASE lb = 0 BY <1>1, <1>3, <2>1
  <2>2. CASE lb # 0 BY <1>2, <1>3, <2>2
  <2> QED BY <2>1, <2>2
<1>6. ASSUME NEW j \in 1..Len(sb), sb[j].type = type PROVE j <= i
  <2>1. CASE j \in 1..Len(s)
    BY <1>1, <1>2, <1>3, <1>6, <2>1
  <2>2. CASE j \notin 1..Len(s)
    <3> DEFINE k == j - Len(s)
    <3>1. k \in 1..Len(b) /\ j = Len(s) + k BY <1>3, <2>2
    <3> HIDE DEF k
    <3>2. b[k].type = type BY <1>3, <1>6, <3>1
    <3>3. k <= lb BY <1>2, <3>1, <3>2
    <3> QED BY <1>2, <1>3, <3>1, <3>3
  <2> QED BY <2>1, <2>2
<1> HIDE DEF i
<1>7. Latest(sb, type) = i BY <1>3, <1>4, <1>5, <1>6, LatestIs
<1> QED BY <1>7 DEF sb, i, ls, lb

LEMMA LatestArgAppended ==
    ASSUME NEW s \in Seq(Events), NEW b \in Seq(Events), NEW type, NEW default
    PROVE  LatestArg(s \o b, type, default)
              = IF Latest(b, type) = 0 THEN LatestArg(s, type, default)
                ELSE b[Latest(b, type)].arg
<1> DEFINE sb == s \o b
           ls == Latest(s, type)
           lb == Latest(b, type)
<1>1. ls \in 0..Len(s) /\ lb \in 0..Len(b) BY LatestFacts
<1>2. Latest(sb, type) = IF lb = 0 THEN ls ELSE Len(s) + lb BY LatestAppended
<1>3. /\ Len(s) \in Nat /\ Len(b) \in Nat
      /\ \A j \in 1..Len(s) : sb[j] = s[j]
      /\ \A k \in 1..Len(b) : sb[Len(s) + k] = b[k]
  BY Appended
<1> HIDE DEF sb, ls, lb
<1>4. LatestArg(sb, type, default) = IF lb = 0 THEN (IF ls = 0 THEN default ELSE s[ls].arg)
                                     ELSE b[lb].arg
  BY <1>1, <1>2, <1>3 DEF LatestArg
<1> QED BY <1>4 DEF sb, ls, lb, LatestArg

LEMMA ClearanceAppended ==
    ASSUME NEW s \in Seq(Events), NEW b \in Seq(Events)
    PROVE  ProvenanceVerifiedOn(s \o b) <=> ProvenanceVerifiedOn(s) \/ ProvenanceVerifiedOn(b)
<1> DEFINE sb == s \o b
<1>1. /\ Len(sb) = Len(s) + Len(b) /\ Len(s) \in Nat /\ Len(b) \in Nat
      /\ \A j \in 1..Len(s) : sb[j] = s[j]
      /\ \A k \in 1..Len(b) : sb[Len(s) + k] = b[k]
      /\ \A j \in 1..Len(sb) : j \notin 1..Len(s) => j - Len(s) \in 1..Len(b)
  BY Appended
<1> HIDE DEF sb
<1>2. ASSUME NEW j \in 1..Len(sb), sb[j].type = "ProvenanceVerified"
      PROVE  ProvenanceVerifiedOn(s) \/ ProvenanceVerifiedOn(b)
  <2>1. CASE j \in 1..Len(s) BY <1>1, <1>2, <2>1 DEF ProvenanceVerifiedOn
  <2>2. CASE j \notin 1..Len(s)
    <3> DEFINE k == j - Len(s)
    <3>1. k \in 1..Len(b) /\ j = Len(s) + k BY <1>1, <2>2
    <3> HIDE DEF k
    <3> QED BY <1>1, <1>2, <3>1 DEF ProvenanceVerifiedOn
  <2> QED BY <2>1, <2>2
<1>3. ASSUME NEW j \in 1..Len(s), s[j].type = "ProvenanceVerified"
      PROVE  ProvenanceVerifiedOn(sb)
  BY <1>1, <1>3 DEF ProvenanceVerifiedOn
<1>4. ASSUME NEW k \in 1..Len(b), b[k].type = "ProvenanceVerified"
      PROVE  ProvenanceVerifiedOn(sb)
  <2>1. Len(s) + k \in 1..Len(sb) BY <1>1
  <2> QED BY <1>1, <1>4, <2>1 DEF ProvenanceVerifiedOn
<1>5. ProvenanceVerifiedOn(sb) <=> ProvenanceVerifiedOn(s) \/ ProvenanceVerifiedOn(b)
  BY <1>2, <1>3, <1>4 DEF ProvenanceVerifiedOn
<1> QED BY <1>5 DEF sb

-----------------------------------------------------------------------------
(* The projected status: a batch is silent on it, or its last event settles *)
(* it.                                                                      *)

Silent(b) == \A k \in 1..Len(b) : b[k].type \notin StatusEvents

Settles(b, to) ==
    /\ Len(b) > 0
    /\ b[Len(b)].type \in StatusEvents
    /\ EstablishedBy(b[Len(b)].type) = to

LEMMA LatestStatusFacts ==
    ASSUME NEW s \in Seq(Events)
    PROVE  /\ LatestStatusEvent(s) \in 0..Len(s)
           /\ LatestStatusEvent(s) > 0 => s[LatestStatusEvent(s)].type \in StatusEvents
           /\ \A j \in 1..Len(s) : s[j].type \in StatusEvents => j <= LatestStatusEvent(s)
<1> DEFINE S == {j \in 1..Len(s) : s[j].type \in StatusEvents}
<1>1. \E i \in 0..Len(s) : (i > 0 => i \in S) /\ (\A j \in S : j <= i)
  <2>1. S \in SUBSET (1..Len(s)) /\ Len(s) \in Nat OBVIOUS
  <2> HIDE DEF S
  <2> QED BY <2>1, LastPosition
<1>2. \E i \in 0..Len(s) : /\ i > 0 => s[i].type \in StatusEvents
                           /\ \A j \in 1..Len(s) : s[j].type \in StatusEvents => j <= i
  BY <1>1
<1> QED BY <1>2 DEF LatestStatusEvent

LEMMA LatestStatusIs ==
    ASSUME NEW s \in Seq(Events), NEW i \in 0..Len(s),
           i > 0 => s[i].type \in StatusEvents,
           \A j \in 1..Len(s) : s[j].type \in StatusEvents => j <= i
    PROVE  LatestStatusEvent(s) = i
<1> DEFINE l == LatestStatusEvent(s)
<1>1. /\ l \in 0..Len(s)
      /\ l > 0 => s[l].type \in StatusEvents
      /\ \A j \in 1..Len(s) : s[j].type \in StatusEvents => j <= l
  BY LatestStatusFacts
<1> HIDE DEF l
<1>2. l <= i /\ i <= l BY <1>1
<1> QED BY <1>1, <1>2 DEF l

LEMMA SilentProjects ==
    ASSUME NEW s \in Seq(Events), NEW b \in Seq(Events), Silent(b)
    PROVE  ProjectedStatus(s \o b) = ProjectedStatus(s)
<1> DEFINE sb == s \o b
           i == LatestStatusEvent(s)
<1>1. /\ i \in 0..Len(s)
      /\ i > 0 => s[i].type \in StatusEvents
      /\ \A j \in 1..Len(s) : s[j].type \in StatusEvents => j <= i
  BY LatestStatusFacts
<1>2. /\ sb \in Seq(Events) /\ Len(sb) = Len(s) + Len(b)
      /\ Len(s) \in Nat /\ Len(b) \in Nat
      /\ \A j \in 1..Len(s) : sb[j] = s[j]
      /\ \A k \in 1..Len(b) : sb[Len(s) + k] = b[k]
      /\ \A j \in 1..Len(sb) : j \notin 1..Len(s) => j - Len(s) \in 1..Len(b)
  BY Appended
<1> HIDE DEF sb, i
<1>3. ASSUME NEW j \in 1..Len(sb), sb[j].type \in StatusEvents PROVE j <= i
  <2>1. CASE j \in 1..Len(s) BY <1>1, <1>2, <1>3, <2>1
  <2>2. CASE j \notin 1..Len(s)
    <3> DEFINE k == j - Len(s)
    <3>1. k \in 1..Len(b) /\ j = Len(s) + k BY <1>2, <2>2
    <3> HIDE DEF k
    <3> QED BY <1>2, <1>3, <3>1 DEF Silent
  <2> QED BY <2>1, <2>2
<1>4. i \in 0..Len(sb) /\ (i > 0 => sb[i] = s[i]) BY <1>1, <1>2
<1>5. LatestStatusEvent(sb) = i BY <1>1, <1>2, <1>3, <1>4, LatestStatusIs
<1> QED BY <1>4, <1>5, <1>1 DEF ProjectedStatus, sb, i

LEMMA SettledProjects ==
    ASSUME NEW s \in Seq(Events), NEW b \in Seq(Events), NEW to, Settles(b, to)
    PROVE  ProjectedStatus(s \o b) = to
<1> DEFINE sb == s \o b
<1>1. /\ sb \in Seq(Events) /\ Len(sb) = Len(s) + Len(b)
      /\ Len(s) \in Nat /\ Len(b) \in Nat
      /\ \A k \in 1..Len(b) : sb[Len(s) + k] = b[k]
  BY Appended
<1> HIDE DEF sb
<1>2. Len(sb) > 0 /\ sb[Len(sb)] = b[Len(b)] BY <1>1 DEF Settles
<1>3. LatestStatusEvent(sb) = Len(sb)
  <2>1. Len(sb) \in 0..Len(sb) BY <1>1
  <2>2. sb[Len(sb)].type \in StatusEvents BY <1>2 DEF Settles
  <2>3. \A j \in 1..Len(sb) : j <= Len(sb) BY <1>1
  <2> QED BY <1>1, <2>1, <2>2, <2>3, LatestStatusIs
<1>4. ProjectedStatus(sb) = to BY <1>2, <1>3 DEF ProjectedStatus, Settles
<1> QED BY <1>4 DEF sb

-----------------------------------------------------------------------------
(* The standing of the latest scan, batch by batch. *)

(* The batch of a scan: its findings, perhaps the alarm, its verdict. *)
ScanBatch(ev, found, r) ==
    <<ScanCompleted(found)>> \o BecameVulnerable(ev, found) \o <<PolicyEvaluated(r)>>

LEMMA ScanBatchIs ==
    ASSUME NEW ev, NEW found \in Findings, NEW r \in {"Pass", "Fail"}
    PROVE  LET b == ScanBatch(ev, found, r) IN
           /\ b \in Seq(Events)
           /\ Len(b) = 2 \/ (Len(b) = 3 /\ b[2] = Plain("ArtifactBecameVulnerable"))
           /\ b[1] = ScanCompleted(found) /\ b[Len(b)] = PolicyEvaluated(r)
<1> DEFINE x == <<ScanCompleted(found)>>
           y == BecameVulnerable(ev, found)
           z == <<PolicyEvaluated(r)>>
           b == ScanBatch(ev, found, r)
<1>1. x \in Seq(Events) /\ z \in Seq(Events) /\ y \in Seq(Events)
  BY EventFacts DEF BecameVulnerable
<1>2. /\ Len(x) = 1 /\ x[1] = ScanCompleted(found)
      /\ Len(z) = 1 /\ z[1] = PolicyEvaluated(r)
      /\ Len(y) = 0 \/ (Len(y) = 1 /\ y[1] = Plain("ArtifactBecameVulnerable"))
  BY DEF BecameVulnerable
<1>3. b = (x \o y) \o z BY DEF ScanBatch
<1> HIDE DEF x, y, z, b
<1>4. /\ x \o y \in Seq(Events) /\ Len(x \o y) = 1 + Len(y)
      /\ (x \o y)[1] = ScanCompleted(found)
      /\ Len(y) = 1 => (x \o y)[2] = Plain("ArtifactBecameVulnerable")
  <2>1. /\ x \o y \in Seq(Events) /\ Len(x \o y) = Len(x) + Len(y)
        /\ \A i \in 1..Len(x) : (x \o y)[i] = x[i]
        /\ \A k \in 1..Len(y) : (x \o y)[Len(x) + k] = y[k]
    BY <1>1, Appended
  <2>2. (x \o y)[1] = x[1] BY <1>2, <2>1
  <2>3. Len(y) = 1 => (x \o y)[2] = y[1]
    <3>1. Len(y) = 1 => (x \o y)[Len(x) + 1] = y[1] BY <2>1
    <3>2. Len(x) + 1 = 2 BY <1>2
    <3> QED BY <3>1, <3>2
  <2>4. Len(y) # 0 => Len(y) = 1 /\ y[1] = Plain("ArtifactBecameVulnerable") BY <1>2
  <2> QED BY <1>2, <2>1, <2>2, <2>3, <2>4
<1> DEFINE w == x \o y
<1> HIDE DEF w
<1>5. /\ b \in Seq(Events) /\ Len(b) = 2 + Len(y)
      /\ b[1] = w[1] /\ (Len(y) = 1 => b[2] = w[2])
      /\ b[Len(b)] = z[1]
  BY <1>1, <1>2, <1>3, <1>4 DEF w
<1>6. b[1] = ScanCompleted(found) /\ b[Len(b)] = PolicyEvaluated(r)
  BY <1>2, <1>4, <1>5 DEF w
<1>7. Len(b) = 2 \/ (Len(b) = 3 /\ b[2] = Plain("ArtifactBecameVulnerable"))
  BY <1>2, <1>4, <1>5 DEF w
<1> QED BY <1>5, <1>6, <1>7 DEF b

(* The types of its events. *)
LEMMA ScanBatchTypes ==
    ASSUME NEW ev, NEW found \in Findings, NEW r \in {"Pass", "Fail"}
    PROVE  LET b == ScanBatch(ev, found, r) IN
           /\ b \in Seq(Events) /\ Len(b) \in {2, 3}
           /\ \A k \in 1..Len(b) :
                 /\ b[k].type = "ScanCompleted" <=> k = 1
                 /\ b[k].type = "PolicyEvaluated" <=> k = Len(b)
                 /\ b[k].type \in {"ScanCompleted", "ArtifactBecameVulnerable", "PolicyEvaluated"}
           /\ b[1].arg = found /\ b[Len(b)].arg = r
<1> DEFINE b == ScanBatch(ev, found, r)
<1>1. /\ b \in Seq(Events)
      /\ Len(b) = 2 \/ (Len(b) = 3 /\ b[2] = Plain("ArtifactBecameVulnerable"))
      /\ b[1] = ScanCompleted(found) /\ b[Len(b)] = PolicyEvaluated(r)
  BY ScanBatchIs
<1> HIDE DEF b
<1>2. /\ b[1].type = "ScanCompleted" /\ b[1].arg = found
      /\ b[Len(b)].type = "PolicyEvaluated" /\ b[Len(b)].arg = r
      /\ Len(b) = 3 => b[2].type = "ArtifactBecameVulnerable"
  <2>1. b[1].type = "ScanCompleted" /\ b[1].arg = found BY <1>1 DEF ScanCompleted
  <2>2. b[Len(b)].type = "PolicyEvaluated" /\ b[Len(b)].arg = r BY <1>1 DEF PolicyEvaluated
  <2>3. Len(b) = 3 => b[2] = Plain("ArtifactBecameVulnerable") BY <1>1
  <2>4. Plain("ArtifactBecameVulnerable").type = "ArtifactBecameVulnerable" BY DEF Plain
  <2> QED BY <2>1, <2>2, <2>3, <2>4
<1>3. \A k \in 1..Len(b) : k = 1 \/ k = Len(b) \/ (k = 2 /\ Len(b) = 3) BY <1>1
<1>4. \A k \in 1..Len(b) :
         /\ b[k].type = "ScanCompleted" <=> k = 1
         /\ b[k].type = "PolicyEvaluated" <=> k = Len(b)
         /\ b[k].type \in {"ScanCompleted", "ArtifactBecameVulnerable", "PolicyEvaluated"}
  BY <1>1, <1>2, <1>3
<1> QED BY <1>1, <1>2, <1>4 DEF b

(* A scan's verdict stands on its own, whatever the stream before it. *)
LEMMA ScanStands ==
    ASSUME NEW s \in Seq(Events), NEW ev, NEW found \in Findings, NEW r \in {"Pass", "Fail"}
    PROVE  LatestScanStanding(s \o ScanBatch(ev, found, r))
              = IF r = "Pass" THEN "Clears" ELSE "Holds"
<1> DEFINE b == ScanBatch(ev, found, r)
           sb == s \o b
           n == Len(s) + 1
           m == Len(s) + Len(b)
<1>1. /\ b \in Seq(Events) /\ Len(b) \in {2, 3}
      /\ \A k \in 1..Len(b) :
            /\ b[k].type = "ScanCompleted" <=> k = 1
            /\ b[k].type = "PolicyEvaluated" <=> k = Len(b)
            /\ b[k].type \in {"ScanCompleted", "ArtifactBecameVulnerable", "PolicyEvaluated"}
      /\ b[1].arg = found /\ b[Len(b)].arg = r
  BY ScanBatchTypes
<1> HIDE DEF b
<1>2. /\ sb \in Seq(Events) /\ Len(sb) = m /\ Len(s) \in Nat
      /\ \A k \in 1..Len(b) : sb[Len(s) + k] = b[k]
      /\ \A j \in 1..Len(sb) : j \notin 1..Len(s) => j - Len(s) \in 1..Len(b)
  BY <1>1, Appended
<1>3. Latest(b, "ScanCompleted") = 1
  BY <1>1, LatestIs
<1>4. Latest(b, "ArtifactRejected") = 0
  <2>1. \A k \in 1..Len(b) : b[k].type # "ArtifactRejected" BY <1>1
  <2> QED BY <1>1, <2>1, LatestIs
<1>5. Latest(sb, "ScanCompleted") = n
  BY <1>1, <1>3, LatestAppended
<1>6. Latest(sb, "ArtifactRejected") \in 0..Len(s)
  BY <1>1, <1>4, LatestAppended, LatestFacts
<1> HIDE DEF sb
<1>7. VerdictsAfter(sb, n) = {m}
  <2>1. m \in 1..Len(sb) /\ m > n /\ sb[m].type = "PolicyEvaluated" /\ sb[m].arg = r
    BY <1>1, <1>2
  <2>2. ASSUME NEW j \in 1..Len(sb), sb[j].type = "PolicyEvaluated", j > n PROVE j = m
    <3> DEFINE k == j - Len(s)
    <3>1. k \in 1..Len(b) /\ j = Len(s) + k BY <1>2, <2>2
    <3> HIDE DEF k
    <3>2. k = Len(b) BY <1>1, <1>2, <2>2, <3>1
    <3> QED BY <3>1, <3>2
  <2> QED BY <2>1, <2>2 DEF VerdictsAfter, Positions
<1>8. sb[m].arg = r BY <1>1, <1>2
<1> HIDE DEF m, n
<1>9. m <= m
  BY <1>1, <1>2 DEF m
<1>10. VerdictOf(sb, n) = r
  <2>1. (CHOOSE i \in VerdictsAfter(sb, n) : \A j \in VerdictsAfter(sb, n) : i <= j) = m
    BY <1>7, <1>9
  <2> QED BY <1>8, <2>1 DEF VerdictOf
<1>11. n # 0 /\ ~(Latest(sb, "ArtifactRejected") > n) BY <1>2, <1>6 DEF n
<1>12. LatestScanStanding(sb) = IF r = "Pass" THEN "Clears" ELSE "Holds"
  BY <1>5, <1>7, <1>10, <1>11 DEF LatestScanStanding
<1> QED BY <1>12 DEF sb, b

-----------------------------------------------------------------------------
(* The plans in flight.  A use case that ran on a row, on the evidence ev  *)
(* and under a policy derived this plan.                                   *)

Derives(op, row, plan, ev, pol) ==
    \/ /\ op = "scan"
       /\ \E found \in Findings, anch \in BOOLEAN, now \in 0..Horizon :
             plan = ScanPlan(row, ev, anch, found, pol, now)
    \/ op = "sweep" /\ plan = SweepPlan(row, ev, pol)
    \/ op = "indeterminate" /\ plan = IndeterminatePlan(row)
    \/ op = "waive" /\ plan = WaivePlan(row, ev)
    \/ op = "block" /\ plan = BlockPlan(row)
    \/ /\ op = "reevaluate"
       /\ \E anch \in BOOLEAN, now \in 0..Horizon, readable \in BOOLEAN, blocked \in BOOLEAN :
             plan = ReevaluatePlan(row, ev, anch, pol, now, readable, blocked)
    \/ /\ op = "verify"
       /\ \E outcome \in {"Verified", "Rejected", "NoAttestation", "Indeterminate"} :
             plan = VerifyPlan(row, ev, outcome, pol)
    \/ op = "scrub" /\ plan = TombstonePlan(row)
    \/ op = "tighten" /\ \E readable \in BOOLEAN : plan = TightenPlan(row, ev, pol, readable)
    \/ op = "retroCuration" /\ plan = RetroBlockPlan(row)
    \/ op \in {"cascade", "cascadeRetry"} /\ plan = CascadePlan(row, ev)
    \/ /\ op = "loosen"
       /\ \E announced \in {"Quarantined", "Released"}, blocked \in BOOLEAN :
             /\ MayReEvaluate(row, ev, announced, pol, blocked)
             /\ plan.to \in {"Quarantined", "Released"}
             /\ plan.batch = <<ArtifactReEvaluated(announced), ReEvaluationCompanion(plan.to)>>

(* The inductive invariant: a call whose version holds carries a plan its  *)
(* use case derives from the whole stream, under a policy that was in      *)
(* force.                                                                  *)
PlanHolds(t, s, forced) ==
    /\ t.ver <= Cap + 1
    /\ t.pc = "decided" /\ (t.op = "scrub" \/ t.ver = Len(s))
         => /\ t.batch # << >>
            /\ \E pol \in forced : Derives(t.op, t.row, Plan(t.batch, t.to), Evidence(s), pol)
    /\ t.pc = "derived"
         => /\ t.op = "loosen"
            /\ t.ver = Len(s) => \E blocked \in BOOLEAN :
                                    MayReEvaluate(t.row, Evidence(s), t.to, t.pol, blocked)
    /\ t.op \in PassOps => t.pol \in forced

PlansHold == \A p \in Procs : PlanHolds(task[p], stream, InForce)

PlanInv == ReadInv /\ PlansHold

LEMMA ForcedPolicies ==
    ASSUME TypeOK, [Next]_vars
    PROVE  InForce' = InForce /\ policy \in InForce /\ InForce \subseteq Policies
<1>1. "policy" \notin Changes => policy' = policy
  <2>1. CASE Tick \/ SetPolicy \/ SetCuration \/ BitRot \/ UNCHANGED vars
    BY <2>1 DEF Tick, SetPolicy, SetCuration, BitRot, vars
  <2>2. ASSUME NEW p \in Procs, Step(p) PROVE policy' = policy
    BY <2>2 DEF Step, SelectExpired, ReadStream, DecideScan, DecideSweep, DecideIndeterminate,
                DecideWaive, DecideBlock, DecideReevaluate, DecideVerify, DecideScrub, ListPage,
                PairTighten, PairRetroCuration, PairCascade, PairLoosen, ReEvaluateRejected,
                Commit, Conflict, env
  <2> QED BY <2>1, <2>2 DEF Next
<1> QED BY <1>1 DEF InForce, TypeOK

LEMMA IdleHolds ==
    ASSUME NEW s, NEW forced
    PROVE  PlanHolds(Idle, s, forced)
  BY CapAssumption DEF PlanHolds, Idle, PassOps

(* A step that only replaces one call's locals. *)
LEMMA PlanStep ==
    ASSUME PlanInv, [Next]_vars, NEW p \in Procs, NEW u, PlanHolds(u, stream, InForce),
           task' = [task EXCEPT ![p] = u], stream' = stream
    PROVE  PlansHold'
<1>1. TypeOK /\ task \in [Procs -> Tasks] BY DEF PlanInv, ReadInv, TypeInv, TypeOK
<1>2. \A q \in Procs : task'[q] = u \/ task'[q] = task[q] BY <1>1
<1>3. \A q \in Procs : PlanHolds(task'[q], stream, InForce) BY <1>2 DEF PlanInv, PlansHold
<1>4. InForce' = InForce BY <1>1, ForcedPolicies
<1> QED BY <1>3, <1>4 DEF PlansHold

LEMMA DecideHolds ==
    ASSUME PlanInv, [Next]_vars, NEW p \in Procs, NEW t \in Tasks, NEW plan \in Plans,
           t.ver <= Cap + 1, t.op \in PassOps => t.pol \in InForce,
           Decide(p, t, plan), UNCHANGED <<stream, status, env>>,
           plan.batch # << >> /\ (t.op = "scrub" \/ t.ver = Len(stream))
              => \E pol \in InForce : Derives(t.op, t.row, plan, Evidence(stream), pol)
    PROVE  PlansHold'
<1> DEFINE d == [t EXCEPT !.pc = "decided", !.batch = plan.batch, !.to = plan.to]
           u == IF plan.batch = << >> THEN Idle ELSE d
<1>1. task' = [task EXCEPT ![p] = u] BY DEF Decide
<1>2. /\ d.ver = t.ver /\ d.pc = "decided" /\ d.op = t.op /\ d.row = t.row /\ d.pol = t.pol
      /\ Plan(d.batch, d.to) = plan /\ d.batch = plan.batch
  BY DEF Tasks, Plans, Plan
<1> HIDE DEF d
<1>3. plan.batch # << >> => PlanHolds(d, stream, InForce) BY <1>2 DEF PlanHolds
<1>4. PlanHolds(u, stream, InForce) BY <1>3, IdleHolds
<1> HIDE DEF u
<1> QED BY <1>1, <1>4, PlanStep

LEMMA EvidenceWhole ==
    ASSUME stream \in Seq(Events)
    PROVE  EvidenceAt(Len(stream)) = Evidence(stream)
<1>1. SubSeq(stream, 1, Len(stream)) = stream OBVIOUS
<1> QED BY <1>1 DEF EvidenceAt

LEMMA SeenWithinCap ==
    ASSUME stream \in Seq(Events)
    PROVE  SeenVersion <= Cap + 1
  BY CapAssumption DEF SeenVersion

(* The second half of a load, and the pairing of a page's row. *)
LEMMA LoadHolds ==
    ASSUME PlanInv, [Next]_vars, NEW p \in Procs, task[p].op \in LoadOps, NEW plan \in Plans,
           Decide(p, LoadRow(p), plan), UNCHANGED <<stream, status, env>>,
           plan.batch # << >>
              => Derives(task[p].op, LoadRow(p).row, plan, EvidenceAt(LoadRow(p).ver), policy)
    PROVE  PlansHold'
<1> DEFINE t == LoadRow(p)
<1>1. TypeOK /\ stream \in Seq(Events) /\ task[p] \in Tasks
  BY DEF PlanInv, ReadInv, TypeInv, TypeOK
<1>2. t \in Tasks /\ t.op = task[p].op /\ t.op # "scrub" /\ t.op \notin PassOps
  BY LoadRowFacts DEF PlanInv, LoadOps, PassOps
<1>3. t.ver = task[p].ver BY <1>1 DEF LoadRow, Tasks
<1>4. t.ver <= Cap + 1 BY <1>3 DEF PlanInv, PlansHold, PlanHolds
<1>5. policy \in InForce BY <1>1, ForcedPolicies
<1>6. t.ver = Len(stream) => EvidenceAt(t.ver) = Evidence(stream) BY <1>1, EvidenceWhole
<1> HIDE DEF t
<1>7. plan.batch # << >> /\ (t.op = "scrub" \/ t.ver = Len(stream))
        => \E pol \in InForce : Derives(t.op, t.row, plan, Evidence(stream), pol)
  BY <1>2, <1>5, <1>6 DEF t
<1> QED BY <1>2, <1>4, <1>7, DecideHolds DEF t

LEMMA PairHolds ==
    ASSUME PlanInv, [Next]_vars, NEW p \in Procs, task[p].pc = "picked", task[p].op \in PassOps,
           NEW plan \in Plans, Decide(p, Paired(p), plan), UNCHANGED <<stream, status, env>>,
           plan.batch # << >>
              => Derives(task[p].op, Paired(p).row, plan, EvidenceAt(Paired(p).ver), Paired(p).pol)
    PROVE  PlansHold'
<1> DEFINE t == Paired(p)
<1>1. TypeOK /\ stream \in Seq(Events) /\ task[p] \in Tasks
  BY DEF PlanInv, ReadInv, TypeInv, TypeOK
<1>2. t \in Tasks BY PairedFacts DEF PlanInv
<1>3. t.ver = SeenVersion /\ t.pol = task[p].pol /\ t.op = task[p].op
  BY <1>1 DEF Paired, Tasks
<1>4. t.ver <= Cap + 1 BY <1>1, <1>3, SeenWithinCap
<1>5. t.pol \in InForce /\ t.op # "scrub"
  BY <1>3 DEF PlanInv, PlansHold, PlanHolds, PassOps
<1>6. t.ver = Len(stream) => EvidenceAt(t.ver) = Evidence(stream) BY <1>1, EvidenceWhole
<1> HIDE DEF t
<1>7. plan.batch # << >> /\ (t.op = "scrub" \/ t.ver = Len(stream))
        => \E pol \in InForce : Derives(t.op, t.row, plan, Evidence(stream), pol)
  BY <1>3, <1>5, <1>6 DEF t
<1> QED BY <1>2, <1>4, <1>5, <1>7, DecideHolds DEF t

(* A commit leaves every other version behind; the scrub's plan looks at   *)
(* no evidence.                                                            *)
LEMMA CommitHolds ==
    ASSUME PlanInv, [Next]_vars, NEW p \in Procs, Commit(p)
    PROVE  PlansHold'
<1>1. /\ TypeOK /\ task \in [Procs -> Tasks] /\ stream \in Seq(Events)
      /\ task[p] \in Tasks /\ task[p].batch \in Seq(Events)
  BY DEF PlanInv, ReadInv, TypeInv, TypeOK, Tasks
<1>2. task[p].batch # << >> BY DEF Commit, PlanInv, ReadInv, CallsOK, CallOK
<1>3. stream' = stream \o task[p].batch /\ task' = [task EXCEPT ![p] = Idle]
  BY DEF Commit
<1>4. Len(stream') \in Nat /\ Len(stream) \in Nat /\ Len(stream') > Len(stream)
  BY <1>1, <1>2, <1>3
<1>5. InForce' = InForce BY <1>1, ForcedPolicies
<1>6. PlanHolds(Idle, stream', InForce) BY IdleHolds
<1>7. ASSUME NEW q \in Procs, q # p PROVE PlanHolds(task[q], stream', InForce)
  <2>1. PlanHolds(task[q], stream, InForce) /\ task[q] \in Tasks /\ task[q].ver <= Len(stream)
    BY <1>1 DEF PlanInv, PlansHold, ReadInv, CallsOK, CallOK
  <2>2. task[q].ver # Len(stream') BY <1>4, <2>1 DEF Tasks
  <2>3. task[q].pc = "decided" /\ task[q].op = "scrub"
          => /\ task[q].batch # << >>
             /\ \E pol \in InForce : Derives(task[q].op, task[q].row,
                   Plan(task[q].batch, task[q].to), Evidence(stream'), pol)
    BY <2>1 DEF PlanHolds, Derives
  <2> QED BY <2>1, <2>2, <2>3 DEF PlanHolds
<1>8. \A q \in Procs : task'[q] = IF q = p THEN Idle ELSE task[q] BY <1>1, <1>3
<1>9. \A q \in Procs : PlanHolds(task'[q], stream', InForce) BY <1>6, <1>7, <1>8
<1> QED BY <1>5, <1>9 DEF PlansHold

LEMMA LoadedPlansHold ==
    ASSUME PlanInv, [Next]_vars, NEW p \in Procs,
           \/ \E found \in Findings : DecideScan(p, found)
           \/ DecideSweep(p) \/ DecideIndeterminate(p) \/ DecideWaive(p) \/ DecideBlock(p)
           \/ \E readable \in BOOLEAN : DecideReevaluate(p, readable)
           \/ \E outcome \in {"Verified", "Rejected", "NoAttestation", "Indeterminate"} :
                 DecideVerify(p, outcome)
    PROVE  PlansHold'
<1> DEFINE t == LoadRow(p)
           ev == EvidenceAt(t.ver)
<1>1. TypeInv /\ TypeOK /\ task[p] \in Tasks BY DEF PlanInv, ReadInv, TypeInv, TypeOK
<1>2. t \in Tasks /\ t.row \in Statuses BY <1>1, LoadRowType DEF Tasks
<1>3. NoPlan(t.row) \in Plans /\ NoPlan(t.row).batch = << >>
  BY <1>2, NoPlanType DEF NoPlan, Plan
<1>4. anchored \in BOOLEAN /\ curationBlock \in BOOLEAN /\ clock \in 0..Horizon
      /\ task[p].now \in 0..Horizon
  BY <1>1 DEF TypeOK, Tasks
<1>5. ASSUME NEW found \in Findings, DecideScan(p, found) PROVE PlansHold'
  <2> DEFINE plan == IF OverCap(t.ver) THEN NoPlan(t.row)
                     ELSE ScanPlan(t.row, ev, anchored, found, policy, task[p].now)
  <2>1. /\ Decide(p, LoadRow(p), plan) /\ UNCHANGED <<stream, status, env>>
        /\ task[p].op = "scan" /\ task[p].op \in LoadOps
    BY <1>5 DEF DecideScan, LoadOps
  <2> HIDE DEF t, ev
  <2>2. plan \in Plans BY <1>2, <1>3, ScanPlanType
  <2>3. plan.batch # << >> => plan = ScanPlan(t.row, ev, anchored, found, policy, task[p].now)
    BY <1>3
  <2> HIDE DEF plan
  <2>4. plan.batch # << >> => Derives(task[p].op, t.row, plan, ev, policy)
    BY <1>4, <2>1, <2>3 DEF Derives
  <2> QED BY <2>1, <2>2, <2>4, LoadHolds DEF t, ev
<1>6. CASE DecideSweep(p)
  <2> DEFINE plan == IF OverCap(t.ver) THEN NoPlan(t.row) ELSE SweepPlan(t.row, ev, policy)
  <2>1. /\ Decide(p, LoadRow(p), plan) /\ UNCHANGED <<stream, status, env>>
        /\ task[p].op = "sweep" /\ task[p].op \in LoadOps
    BY <1>6 DEF DecideSweep, LoadOps
  <2> HIDE DEF t, ev
  <2>2. plan \in Plans BY <1>2, <1>3, ShortPlanTypes
  <2>3. plan.batch # << >> => plan = SweepPlan(t.row, ev, policy) BY <1>3
  <2> HIDE DEF plan
  <2>4. plan.batch # << >> => Derives(task[p].op, t.row, plan, ev, policy)
    BY <2>1, <2>3 DEF Derives
  <2> QED BY <2>1, <2>2, <2>4, LoadHolds DEF t, ev
<1>7. CASE DecideIndeterminate(p)
  <2>1. /\ Decide(p, LoadRow(p), IndeterminatePlan(t.row)) /\ UNCHANGED <<stream, status, env>>
        /\ task[p].op = "indeterminate" /\ task[p].op \in LoadOps
    BY <1>7 DEF DecideIndeterminate, LoadOps
  <2> HIDE DEF t, ev
  <2>2. IndeterminatePlan(t.row) \in Plans BY <1>2, ShortPlanTypes
  <2>3. Derives(task[p].op, t.row, IndeterminatePlan(t.row), ev, policy)
    BY <2>1 DEF Derives
  <2> QED BY <2>1, <2>2, <2>3, LoadHolds DEF t, ev
<1>8. CASE DecideWaive(p)
  <2> DEFINE plan == IF OverCap(t.ver) /\ t.row = "Rejected" THEN NoPlan(t.row)
                     ELSE WaivePlan(t.row, ev)
  <2>1. /\ Decide(p, LoadRow(p), plan) /\ UNCHANGED <<stream, status, env>>
        /\ task[p].op = "waive" /\ task[p].op \in LoadOps
    BY <1>8 DEF DecideWaive, LoadOps
  <2> HIDE DEF t, ev
  <2>2. plan \in Plans BY <1>2, <1>3, ShortPlanTypes
  <2>3. plan.batch # << >> => plan = WaivePlan(t.row, ev) BY <1>3
  <2> HIDE DEF plan
  <2>4. plan.batch # << >> => Derives(task[p].op, t.row, plan, ev, policy)
    BY <2>1, <2>3 DEF Derives
  <2> QED BY <2>1, <2>2, <2>4, LoadHolds DEF t, ev
<1>9. CASE DecideBlock(p)
  <2>1. /\ Decide(p, LoadRow(p), BlockPlan(t.row)) /\ UNCHANGED <<stream, status, env>>
        /\ task[p].op = "block" /\ task[p].op \in LoadOps
    BY <1>9 DEF DecideBlock, LoadOps
  <2> HIDE DEF t, ev
  <2>2. BlockPlan(t.row) \in Plans BY <1>2, ShortPlanTypes
  <2>3. Derives(task[p].op, t.row, BlockPlan(t.row), ev, policy)
    BY <2>1 DEF Derives
  <2> QED BY <2>1, <2>2, <2>3, LoadHolds DEF t, ev
<1>10. ASSUME NEW readable \in BOOLEAN, DecideReevaluate(p, readable) PROVE PlansHold'
  <2> DEFINE made == ReevaluatePlan(t.row, ev, anchored, policy, clock, readable, curationBlock)
             plan == IF OverCap(t.ver) THEN NoPlan(t.row) ELSE made
  <2>1. /\ Decide(p, LoadRow(p), plan) /\ UNCHANGED <<stream, status, env>>
        /\ task[p].op = "reevaluate" /\ task[p].op \in LoadOps
    BY <1>10 DEF DecideReevaluate, LoadOps
  <2> HIDE DEF t, ev
  <2>2. plan \in Plans BY <1>2, <1>3, ReevaluatePlanType
  <2>3. plan.batch # << >> => plan = made BY <1>3
  <2> HIDE DEF plan
  <2>4. plan.batch # << >> => Derives(task[p].op, t.row, plan, ev, policy)
    BY <1>4, <2>1, <2>3 DEF Derives
  <2> QED BY <2>1, <2>2, <2>4, LoadHolds DEF t, ev
<1>11. ASSUME NEW outcome \in {"Verified", "Rejected", "NoAttestation", "Indeterminate"},
              DecideVerify(p, outcome)
       PROVE  PlansHold'
  <2> DEFINE plan == IF OverCap(t.ver) /\ policy.provenance = "Required" THEN NoPlan(t.row)
                     ELSE VerifyPlan(t.row, ev, outcome, policy)
  <2>1. /\ Decide(p, LoadRow(p), plan) /\ UNCHANGED <<stream, status, env>>
        /\ task[p].op = "verify" /\ task[p].op \in LoadOps
    BY <1>11 DEF DecideVerify, LoadOps
  <2> HIDE DEF t, ev
  <2>2. plan \in Plans BY <1>2, <1>3, ShortPlanTypes
  <2>3. plan.batch # << >> => plan = VerifyPlan(t.row, ev, outcome, policy) BY <1>3
  <2> HIDE DEF plan
  <2>4. plan.batch # << >> => Derives(task[p].op, t.row, plan, ev, policy)
    BY <2>1, <2>3 DEF Derives
  <2> QED BY <2>1, <2>2, <2>4, LoadHolds DEF t, ev
<1> QED BY <1>5, <1>6, <1>7, <1>8, <1>9, <1>10, <1>11

LEMMA PagedPlansHold ==
    ASSUME PlanInv, [Next]_vars, NEW p \in Procs,
           \/ \E readable \in BOOLEAN : PairTighten(p, readable)
           \/ PairRetroCuration(p) \/ PairCascade(p)
    PROVE  PlansHold'
<1> DEFINE t == Paired(p)
           ev == EvidenceAt(t.ver)
<1>1. t \in Tasks /\ t.row \in Statuses /\ t.op = task[p].op BY PairedFacts DEF PlanInv
<1>2. NoPlan(t.row) \in Plans /\ NoPlan(t.row).batch = << >>
  BY <1>1, NoPlanType DEF NoPlan, Plan
<1>3. ASSUME NEW readable \in BOOLEAN, PairTighten(p, readable) PROVE PlansHold'
  <2> DEFINE plan == IF OverCap(t.ver) THEN NoPlan(t.row)
                     ELSE TightenPlan(t.row, ev, t.pol, readable)
  <2>1. /\ Decide(p, Paired(p), plan) /\ UNCHANGED <<stream, status, env>>
        /\ task[p].pc = "picked" /\ task[p].op = "tighten" /\ task[p].op \in PassOps
    BY <1>3 DEF PairTighten, PassOps
  <2> HIDE DEF t, ev
  <2>2. plan \in Plans BY <1>1, <1>2, ShortPlanTypes
  <2>3. plan.batch # << >> => plan = TightenPlan(t.row, ev, t.pol, readable) BY <1>2
  <2> HIDE DEF plan
  <2>4. plan.batch # << >> => Derives(task[p].op, t.row, plan, ev, t.pol)
    BY <2>1, <2>3 DEF Derives
  <2> QED BY <2>1, <2>2, <2>4, PairHolds DEF t, ev
<1>4. CASE PairRetroCuration(p)
  <2>1. /\ Decide(p, Paired(p), RetroBlockPlan(t.row)) /\ UNCHANGED <<stream, status, env>>
        /\ task[p].pc = "picked" /\ task[p].op = "retroCuration" /\ task[p].op \in PassOps
    BY <1>4 DEF PairRetroCuration, PassOps
  <2> HIDE DEF t, ev
  <2>2. RetroBlockPlan(t.row) \in Plans BY <1>1, ShortPlanTypes
  <2>3. Derives(task[p].op, t.row, RetroBlockPlan(t.row), ev, t.pol)
    BY <2>1 DEF Derives
  <2> QED BY <2>1, <2>2, <2>3, PairHolds DEF t, ev
<1>5. CASE PairCascade(p)
  <2> DEFINE plan == IF OverCap(t.ver) THEN NoPlan(t.row) ELSE CascadePlan(t.row, ev)
  <2>1. /\ Decide(p, Paired(p), plan) /\ UNCHANGED <<stream, status, env>>
        /\ task[p].pc = "picked" /\ task[p].op \in {"cascade", "cascadeRetry"}
        /\ task[p].op \in PassOps
    BY <1>5 DEF PairCascade, PassOps
  <2> HIDE DEF t, ev
  <2>2. plan \in Plans BY <1>1, <1>2, ShortPlanTypes
  <2>3. plan.batch # << >> => plan = CascadePlan(t.row, ev) BY <1>2
  <2> HIDE DEF plan
  <2>4. plan.batch # << >> => Derives(task[p].op, t.row, plan, ev, t.pol)
    BY <2>1, <2>3 DEF Derives
  <2> QED BY <2>1, <2>2, <2>4, PairHolds DEF t, ev
<1> QED BY <1>3, <1>4, <1>5

(* The loosen pass decides in two steps. *)
LEMMA LoosenedPlansHold ==
    ASSUME PlanInv, [Next]_vars, NEW p \in Procs,
           (\E readable \in BOOLEAN : PairLoosen(p, readable)) \/ ReEvaluateRejected(p)
    PROVE  PlansHold'
<1>1. TypeOK /\ stream \in Seq(Events) /\ task[p] \in Tasks /\ curationBlock \in BOOLEAN
  BY DEF PlanInv, ReadInv, TypeInv, TypeOK
<1>2. PlanHolds(task[p], stream, InForce) BY DEF PlanInv, PlansHold
<1>3. ASSUME NEW readable \in BOOLEAN, PairLoosen(p, readable) PROVE PlansHold'
  <2> DEFINE t == Paired(p)
             ev == EvidenceAt(t.ver)
             to == RejectedOutcome(ev, anchored, t.pol, t.now, readable)
             may == ~OverCap(t.ver) /\ MayReEvaluate(t.row, ev, to, t.pol, curationBlock)
             d == [t EXCEPT !.pc = "derived", !.to = to]
             u == IF may THEN d ELSE Idle
  <2>1. /\ task' = [task EXCEPT ![p] = u] /\ stream' = stream
        /\ task[p].pc = "picked" /\ task[p].op = "loosen"
    BY <1>3 DEF PairLoosen
  <2>2. t \in Tasks BY PairedFacts DEF PlanInv
  <2>3. t.ver = SeenVersion /\ t.pol = task[p].pol /\ t.op = "loosen"
    BY <1>1, <2>1 DEF Paired, Tasks
  <2>4. t.ver <= Cap + 1 BY <1>1, <2>3, SeenWithinCap
  <2>5. t.pol \in InForce BY <1>2, <2>1, <2>3 DEF PlanHolds, PassOps
  <2>6. t.ver = Len(stream) => ev = Evidence(stream) BY <1>1, EvidenceWhole
  <2> HIDE DEF t, ev, to
  <2>7. /\ d.pc = "derived" /\ d.to = to /\ d.ver = t.ver /\ d.op = t.op /\ d.row = t.row
        /\ d.pol = t.pol
    BY <2>2 DEF Tasks
  <2>8. may => (t.ver = Len(stream) => MayReEvaluate(t.row, Evidence(stream), to, t.pol, curationBlock))
    BY <2>6
  <2> HIDE DEF d, may
  <2>9. may => PlanHolds(d, stream, InForce)
    BY <1>1, <2>3, <2>4, <2>5, <2>7, <2>8 DEF PlanHolds
  <2>10. PlanHolds(u, stream, InForce) BY <2>9, IdleHolds
  <2> HIDE DEF u
  <2> QED BY <2>1, <2>10, PlanStep
<1>4. CASE ReEvaluateRejected(p)
  <2> DEFINE t == task[p]
             to == ReEvaluateAt(t.pol, clock)
             plan == Plan(<<ArtifactReEvaluated(t.to), ReEvaluationCompanion(to)>>, to)
  <2>1. /\ Decide(p, t, plan) /\ UNCHANGED <<stream, status, env>> /\ t.pc = "derived"
    BY <1>4 DEF ReEvaluateRejected
  <2>2. /\ t.op = "loosen" /\ t.pol \in InForce /\ t.ver <= Cap + 1
        /\ t.ver = Len(stream) => \E blocked \in BOOLEAN :
                                     MayReEvaluate(t.row, Evidence(stream), t.to, t.pol, blocked)
    BY <1>2, <2>1 DEF PlanHolds, PassOps
  <2>3. t.to \in {"Quarantined", "Released"}
    BY <2>1 DEF PlanInv, ReadInv, TypeInv, DerivedOutcomes
  <2>4. to \in {"Quarantined", "Released"} /\ to \in Statuses
    BY DEF ReEvaluateAt, Statuses
  <2> HIDE DEF t, to
  <2>5. <<ArtifactReEvaluated(t.to), ReEvaluationCompanion(to)>> \in Seq(Events)
    BY <2>3, ReEvaluationBatchType
  <2>6. plan \in Plans /\ plan.to = to
        /\ plan.batch = <<ArtifactReEvaluated(t.to), ReEvaluationCompanion(plan.to)>>
    BY <2>4, <2>5, PlanType DEF Plan
  <2> HIDE DEF plan
  <2>7. t.ver = Len(stream) => Derives("loosen", t.row, plan, Evidence(stream), t.pol)
    BY <2>2, <2>3, <2>4, <2>6 DEF Derives
  <2>8. t \in Tasks BY <1>1 DEF t
  <2> QED BY <2>1, <2>2, <2>6, <2>7, <2>8, DecideHolds
<1> QED BY <1>3, <1>4

LEMMA OtherPlansHold ==
    ASSUME PlanInv, [Next]_vars, NEW p \in Procs,
           \/ SelectExpired(p) \/ (\E op \in LoadOps \cap Ops : ReadStream(p, op))
           \/ DecideScrub(p) \/ (\E op \in PassOps \cap Ops : ListPage(p, op)) \/ Conflict(p)
    PROVE  PlansHold'
<1>1. /\ TypeOK /\ stream \in Seq(Events) /\ task[p] \in Tasks /\ status \in Statuses
      /\ PlanHolds(task[p], stream, InForce)
  BY DEF PlanInv, ReadInv, TypeInv, TypeOK, PlansHold
<1>2. CASE SelectExpired(p)
  <2> DEFINE u == [Idle EXCEPT !.pc = "picked", !.op = "sweep"]
  <2>1. PlanHolds(u, stream, InForce) BY CapAssumption DEF PlanHolds, Idle, PassOps
  <2>2. task' = [task EXCEPT ![p] = u] /\ stream' = stream BY <1>2 DEF SelectExpired
  <2> HIDE DEF u
  <2> QED BY <2>1, <2>2, PlanStep
<1>3. ASSUME NEW op \in LoadOps \cap Ops, ReadStream(p, op) PROVE PlansHold'
  <2> DEFINE u == [Idle EXCEPT !.pc = "read", !.op = op, !.ver = SeenVersion,
                               !.now = IF op = "scan" THEN clock ELSE 0]
  <2>1. u.ver = SeenVersion /\ u.pc = "read" /\ u.op \notin PassOps
    BY DEF Idle, LoadOps, PassOps
  <2>2. task' = [task EXCEPT ![p] = u] /\ stream' = stream BY <1>3 DEF ReadStream
  <2> HIDE DEF u
  <2>3. PlanHolds(u, stream, InForce) BY <1>1, <2>1, SeenWithinCap DEF PlanHolds
  <2> QED BY <2>2, <2>3, PlanStep
<1>4. CASE DecideScrub(p)
  <2> DEFINE t == [Idle EXCEPT !.op = "scrub", !.row = status]
             plan == TombstonePlan(t.row)
  <2>1. Decide(p, t, plan) /\ UNCHANGED <<stream, status, env>> BY <1>4 DEF DecideScrub
  <2>2. t \in Tasks /\ t.row \in Statuses BY <1>1, IdleType DEF Tasks, AllOps
  <2>3. t.ver = 0 /\ t.op = "scrub" /\ t.op \notin PassOps BY DEF Idle, PassOps
  <2>4. t.ver <= Cap + 1 BY <2>3, CapAssumption
  <2> HIDE DEF t
  <2>5. plan \in Plans BY <2>2, ShortPlanTypes
  <2>6. \A pol : Derives(t.op, t.row, plan, Evidence(stream), pol) BY <2>3 DEF Derives
  <2>7. policy \in InForce BY <1>1, ForcedPolicies
  <2> HIDE DEF plan
  <2> QED BY <2>1, <2>2, <2>3, <2>4, <2>5, <2>6, <2>7, DecideHolds
<1>5. ASSUME NEW op \in PassOps \cap Ops, ListPage(p, op) PROVE PlansHold'
  <2> DEFINE u == [Idle EXCEPT !.pc = "picked", !.op = op, !.row = status,
                               !.pol = policy, !.now = clock]
  <2>1. u.ver = 0 /\ u.pc = "picked" /\ u.pol = policy BY DEF Idle
  <2>2. task' = [task EXCEPT ![p] = u] /\ stream' = stream BY <1>5 DEF ListPage
  <2> HIDE DEF u
  <2>3. policy \in InForce BY <1>1, ForcedPolicies
  <2>4. PlanHolds(u, stream, InForce) BY <2>1, <2>3, CapAssumption DEF PlanHolds
  <2> QED BY <2>2, <2>4, PlanStep
<1>6. CASE Conflict(p)
  <2> DEFINE retry == [task[p] EXCEPT !.pc = "picked", !.op = "cascadeRetry", !.ver = 0,
                                      !.batch = << >>, !.to = "None"]
             u == IF task[p].op = "cascade" THEN retry ELSE Idle
  <2>1. task' = [task EXCEPT ![p] = u] /\ stream' = stream BY <1>6 DEF Conflict
  <2>2. retry.pc = "picked" /\ retry.ver = 0 /\ retry.pol = task[p].pol BY <1>1 DEF Tasks
  <2>3. task[p].op = "cascade" => task[p].pol \in InForce BY <1>1 DEF PlanHolds, PassOps
  <2> HIDE DEF retry
  <2>4. task[p].op = "cascade" => PlanHolds(retry, stream, InForce)
    BY <2>2, <2>3, CapAssumption DEF PlanHolds
  <2>5. PlanHolds(u, stream, InForce) BY <2>4, IdleHolds
  <2> HIDE DEF u
  <2> QED BY <2>1, <2>5, PlanStep
<1> QED BY <1>2, <1>3, <1>4, <1>5, <1>6

LEMMA PlansInductive == PlanInv /\ [Next]_vars => PlanInv'
<1> SUFFICES ASSUME PlanInv, [Next]_vars PROVE PlanInv' OBVIOUS
<1>1. ReadInv' BY ReadInductive DEF PlanInv
<1>2. TypeOK BY DEF PlanInv, ReadInv, TypeInv
<1>3. CASE Tick \/ SetPolicy \/ SetCuration \/ BitRot \/ UNCHANGED vars
  <2>1. task' = task /\ stream' = stream
    BY <1>3 DEF Tick, SetPolicy, SetCuration, BitRot, vars
  <2>2. InForce' = InForce BY <1>2, ForcedPolicies
  <2>3. PlansHold' BY <2>1, <2>2 DEF PlanInv, PlansHold
  <2> QED BY <1>1, <2>3 DEF PlanInv
<1>4. ASSUME NEW p \in Procs, Step(p) PROVE PlansHold'
  BY <1>4, CommitHolds, LoadedPlansHold, PagedPlansHold, LoosenedPlansHold, OtherPlansHold
  DEF Step
<1> QED BY <1>1, <1>3, <1>4 DEF Next, PlanInv

LEMMA PlansInit == Init => PlanInv
<1> SUFFICES ASSUME Init PROVE PlanInv OBVIOUS
<1>1. \A p \in Procs : task[p] = Idle BY DEF Init
<1> QED BY <1>1, ReadInit, IdleHolds DEF PlanInv, PlansHold

LEMMA PlansAlways == Spec => []PlanInv
  BY PlansInit, PlansInductive, PTL DEF Spec

-----------------------------------------------------------------------------
(* The forms a plan with events takes. *)

(* A scan is recorded; it may reject, or release on its own authority. *)
ScanForm(row, b, to, ev, pol) ==
    \E found \in Findings, r \in {"Pass", "Fail"} :
        /\ r = IF EvaluateScanResult(found, pol) = "Clean" THEN "Pass" ELSE "Fail"
        /\ \/ /\ b = ScanBatch(ev, found, r) /\ to = row
              /\ EvaluateScanResult(found, pol) = "Reject" => ~CanRejectFromScan(row, ev.origin)
           \/ /\ b = Append(ScanBatch(ev, found, r), ArtifactRejected("Scanner"))
              /\ to = "Rejected" /\ CanRejectFromScan(row, ev.origin)
              /\ EvaluateScanResult(found, pol) = "Reject"
           \/ /\ b = Append(ScanBatch(ev, found, r), ArtifactReleased("Timer"))
              /\ to = "Released" /\ row = "Quarantined"
              /\ EvaluateScanResult(found, pol) # "Reject"
              /\ CanReleaseByTimer(row, IF r = "Pass" THEN "Clears" ELSE "Holds", ev.verified, pol)

(* A re-evaluation; only the curator's announces what it established. *)
ReEvaluationForm(op, row, b, to, ev, pol) ==
    \E announced \in {"Quarantined", "Released"}, blocked \in BOOLEAN :
        /\ MayReEvaluate(row, ev, announced, pol, blocked)
        /\ to \in {"Quarantined", "Released"}
        /\ b = <<ArtifactReEvaluated(announced), ReEvaluationCompanion(to)>>
        /\ op = "reevaluate" => /\ announced = to
                                /\ \E readable \in BOOLEAN :
                                      StoredVerdict(ev.found, readable, pol) # "Reject"

Form(op, row, b, to, ev, pol) ==
    \/ op = "scan" /\ ScanForm(row, b, to, ev, pol)
    \/ /\ op = "sweep" /\ b = <<ArtifactReleased("Timer")>> /\ to = "Released"
       /\ CanReleaseByTimer(row, ev.standing, ev.verified, pol)
    \/ /\ op = "indeterminate" /\ b = <<Plain("ScanIndeterminate")>> /\ to = "ScanIndeterminate"
       /\ row \in AllowedFrom.FailScanIndeterminate
    \/ /\ op = "waive" /\ b = <<ArtifactReleased("Curator")>> /\ to = "Released"
       /\ CanWaive(row, ev.reason)
    \/ /\ op = "block" /\ b = <<ArtifactRejected("Curator")>> /\ to = "Rejected"
       /\ row \in AllowedFrom.BlockByCurator
    \/ op \in {"reevaluate", "loosen"} /\ ReEvaluationForm(op, row, b, to, ev, pol)
    \/ /\ op = "verify" /\ b = <<Plain("ProvenanceVerified")>> /\ to = row
       /\ pol.provenance = "Required" => ~ev.verified
    \/ /\ op = "verify" /\ to = "Rejected"
       /\ b = <<Plain("ProvenanceRejected"), ArtifactRejected("Provenance")>>
    \/ /\ op = "scrub" /\ to = "Rejected"
       /\ b = <<Plain("ArtifactCorrupted"), ArtifactRejected("Corruption")>>
    \/ /\ op = "tighten" /\ to = "Rejected"
       /\ b = <<ArtifactReEvaluated("Rejected"), ArtifactRejected("ScanPolicyRetroactive")>>
    \/ op = "retroCuration" /\ to = "Rejected" /\ b = <<ArtifactRejected("CurationRetroactive")>>
    \/ /\ op \in {"cascade", "cascadeRetry"} /\ b = <<Plain("ProvenanceVerified")>> /\ to = row
       /\ ~ev.verified

LEMMA EmptyStands ==
    ASSUME NEW ev, NEW found \in Findings, NEW r \in {"Pass", "Fail"}
    PROVE  LatestScanStanding(ScanBatch(ev, found, r)) = IF r = "Pass" THEN "Clears" ELSE "Holds"
<1>1. << >> \in Seq(Events) OBVIOUS
<1>2. ScanBatch(ev, found, r) \in Seq(Events) BY ScanBatchTypes
<1> DEFINE b == ScanBatch(ev, found, r)
<1>3. << >> \o b = b
  <2> HIDE DEF b
  <2> QED BY <1>2 DEF b
<1> QED BY <1>1, <1>3, ScanStands

LEMMA ScanPlanForm ==
    ASSUME NEW row, NEW ev, NEW anch, NEW found \in Findings, NEW pol, NEW now, NEW b, NEW to,
           Plan(b, to) = ScanPlan(row, ev, anch, found, pol, now)
    PROVE  ScanForm(row, b, to, ev, pol)
<1> DEFINE r == IF EvaluateScanResult(found, pol) = "Clean" THEN "Pass" ELSE "Fail"
           scan == ScanBatch(ev, found, r)
<1>1. r \in {"Pass", "Fail"} OBVIOUS
<1>2. ASSUME NEW c, NEW d, Plan(b, to) = Plan(c, d) PROVE b = c /\ to = d
  BY <1>2 DEF Plan
<1>3. CASE EvaluateScanResult(found, pol) = "Reject"
  <2>1. r = "Fail" BY <1>3
  <2>2. Plan(b, to) = IF CanRejectFromScan(row, ev.origin)
                      THEN Plan(Append(scan, ArtifactRejected("Scanner")), "Rejected")
                      ELSE Plan(scan, row)
    BY <1>3, <2>1 DEF ScanPlan, RejectVerdictPlan, ScanBatch
  <2> HIDE DEF r, scan
  <2>3. \/ /\ CanRejectFromScan(row, ev.origin)
           /\ b = Append(scan, ArtifactRejected("Scanner")) /\ to = "Rejected"
        \/ ~CanRejectFromScan(row, ev.origin) /\ b = scan /\ to = row
    BY <1>2, <2>2
  <2> QED BY <1>1, <1>3, <2>3 DEF ScanForm, r, scan
<1>4. CASE EvaluateScanResult(found, pol) # "Reject"
  <2> DEFINE releases == /\ row = "Quarantined" /\ anch /\ DeadlinePassed(pol, now)
                         /\ CanReleaseByTimer(row, LatestScanStanding(scan), ev.verified, pol)
  <2>1. Plan(b, to) = IF releases THEN Plan(Append(scan, ArtifactReleased("Timer")), "Released")
                      ELSE Plan(scan, row)
    BY <1>4 DEF ScanPlan, NonRejectingVerdictPlan, ScanBatch
  <2>2. LatestScanStanding(scan) = IF r = "Pass" THEN "Clears" ELSE "Holds"
    <3> HIDE DEF r
    <3> QED BY <1>1, EmptyStands
  <2> HIDE DEF r, scan
  <2>3. \/ releases /\ b = Append(scan, ArtifactReleased("Timer")) /\ to = "Released"
        \/ b = scan /\ to = row
    <3> HIDE DEF releases
    <3> QED BY <1>2, <2>1
  <2>4. CASE b = scan /\ to = row BY <1>1, <1>4, <2>4 DEF ScanForm, r, scan
  <2>5. CASE releases /\ b = Append(scan, ArtifactReleased("Timer")) /\ to = "Released"
    BY <1>1, <1>4, <2>2, <2>5 DEF ScanForm, r, scan
  <2> QED BY <2>3, <2>4, <2>5
<1> QED BY <1>3, <1>4

LEMMA PlanForms ==
    ASSUME NEW op, NEW row, NEW b, NEW to, NEW ev, NEW pol, b # << >>,
           Derives(op, row, Plan(b, to), ev, pol)
    PROVE  Form(op, row, b, to, ev, pol)
<1> USE DEF PlanIf, NoPlan
<1>0. ASSUME NEW c, NEW d, Plan(b, to) = Plan(c, d) PROVE b = c /\ to = d
  BY <1>0 DEF Plan
<1>1. CASE op = "scan"
  <2>1. PICK found \in Findings, anch \in BOOLEAN, now \in 0..Horizon :
               Plan(b, to) = ScanPlan(row, ev, anch, found, pol, now)
    BY <1>1 DEF Derives
  <2>2. ScanForm(row, b, to, ev, pol) BY <2>1, ScanPlanForm
  <2> QED BY <1>1, <2>2 DEF Form
<1>2. CASE op = "sweep" BY <1>0, <1>2 DEF Derives, Form, SweepPlan
<1>3. CASE op = "indeterminate" BY <1>0, <1>3 DEF Derives, Form, IndeterminatePlan
<1>4. CASE op = "waive" BY <1>0, <1>4 DEF Derives, Form, WaivePlan
<1>5. CASE op = "block" BY <1>0, <1>5 DEF Derives, Form, BlockPlan
<1>6. CASE op = "reevaluate"
  <2>1. PICK anch \in BOOLEAN, now \in 0..Horizon, readable \in BOOLEAN, blocked \in BOOLEAN :
               Plan(b, to) = ReevaluatePlan(row, ev, anch, pol, now, readable, blocked)
    BY <1>6 DEF Derives
  <2> DEFINE o == RejectedOutcome(ev, anch, pol, now, readable)
  <2>2. Plan(b, to) = IF MayReEvaluate(row, ev, o, pol, blocked)
                      THEN Plan(<<ArtifactReEvaluated(o), ReEvaluationCompanion(o)>>, o)
                      ELSE Plan(<< >>, row)
    BY <2>1 DEF ReevaluatePlan
  <2>3. o \in {"Quarantined", "Released", "Rejected"} BY OutcomeType
  <2>4. o # "Rejected" => StoredVerdict(ev.found, readable, pol) # "Reject"
    BY DEF RejectedOutcome, DecideRejectedTransition
  <2> HIDE DEF o
  <2>5. /\ MayReEvaluate(row, ev, o, pol, blocked) /\ to = o
        /\ b = <<ArtifactReEvaluated(o), ReEvaluationCompanion(o)>>
    BY <1>0, <2>2
  <2>6. o \in {"Quarantined", "Released"} BY <2>3, <2>5 DEF MayReEvaluate
  <2>7. ReEvaluationForm(op, row, b, to, ev, pol) BY <2>4, <2>5, <2>6 DEF ReEvaluationForm
  <2> QED BY <1>6, <2>7 DEF Form
<1>7. CASE op = "verify"
  <2>1. PICK outcome \in {"Verified", "Rejected", "NoAttestation", "Indeterminate"} :
               Plan(b, to) = VerifyPlan(row, ev, outcome, pol)
    BY <1>7 DEF Derives
  <2>2. ~(pol.provenance = "Required" /\ ev.verified) BY <1>0, <2>1 DEF VerifyPlan
  <2>3. CASE outcome = "Verified" BY <1>0, <1>7, <2>1, <2>2, <2>3 DEF VerifyPlan, Form
  <2>4. CASE outcome = "Rejected" BY <1>0, <1>7, <2>1, <2>4 DEF VerifyPlan, Form
  <2>5. CASE outcome \in {"NoAttestation", "Indeterminate"} BY <1>0, <2>1, <2>5 DEF VerifyPlan
  <2> QED BY <2>3, <2>4, <2>5
<1>8. CASE op = "scrub" BY <1>0, <1>8 DEF Derives, Form, TombstonePlan
<1>9. CASE op = "tighten" BY <1>0, <1>9 DEF Derives, Form, TightenPlan
<1>10. CASE op = "retroCuration" BY <1>0, <1>10 DEF Derives, Form, RetroBlockPlan
<1>11. CASE op \in {"cascade", "cascadeRetry"} BY <1>0, <1>11 DEF Derives, Form, CascadePlan
<1>12. CASE op = "loosen"
  <2>1. PICK announced \in {"Quarantined", "Released"}, blocked \in BOOLEAN :
               /\ MayReEvaluate(row, ev, announced, pol, blocked)
               /\ Plan(b, to).to \in {"Quarantined", "Released"}
               /\ Plan(b, to).batch
                     = <<ArtifactReEvaluated(announced), ReEvaluationCompanion(Plan(b, to).to)>>
    BY <1>12 DEF Derives
  <2>2. Plan(b, to).to = to /\ Plan(b, to).batch = b BY DEF Plan
  <2>3. ReEvaluationForm(op, row, b, to, ev, pol) BY <1>12, <2>1, <2>2 DEF ReEvaluationForm
  <2> QED BY <1>12, <2>3 DEF Form
<1> QED BY <1>1, <1>2, <1>3, <1>4, <1>5, <1>6, <1>7, <1>8, <1>9, <1>10, <1>11, <1>12 DEF Derives

-----------------------------------------------------------------------------
(* What a commit does. *)

LEMMA CommitForm ==
    ASSUME PlanInv, NEW p \in Procs, Commit(p)
    PROVE  /\ stream \in Seq(Events) /\ task[p] \in Tasks /\ task[p].batch \in Seq(Events)
           /\ stream' = stream \o task[p].batch
           /\ status' = WrittenStatus(task[p])
           /\ task[p].op \in LoadOps => task[p].row = status
           /\ task[p].op # "scrub" => Len(stream) <= Cap + 1
           /\ \E pol \in InForce : Form(task[p].op, task[p].row, task[p].batch, task[p].to,
                                        Evidence(stream), pol)
<1>1. /\ stream \in Seq(Events) /\ task[p] \in Tasks /\ task[p].batch \in Seq(Events)
      /\ PlanHolds(task[p], stream, InForce) /\ CallOK(task[p], stream, status)
  BY DEF PlanInv, ReadInv, TypeInv, TypeOK, Tasks, PlansHold, CallsOK
<1>2. /\ task[p].pc = "decided" /\ (task[p].op = "scrub" \/ task[p].ver = Len(stream))
      /\ stream' = stream \o task[p].batch /\ status' = WrittenStatus(task[p])
  BY DEF Commit, VersionHolds
<1>3. /\ task[p].batch # << >>
      /\ \E pol \in InForce : Derives(task[p].op, task[p].row, Plan(task[p].batch, task[p].to),
                                      Evidence(stream), pol)
  BY <1>1, <1>2 DEF PlanHolds
<1>4. \E pol \in InForce : Form(task[p].op, task[p].row, task[p].batch, task[p].to,
                                Evidence(stream), pol)
  BY <1>3, PlanForms
<1>5. task[p].op \in LoadOps => task[p].row = status
  BY <1>1, <1>2 DEF CallOK, LoadOps
<1>6. task[p].op # "scrub" => Len(stream) <= Cap + 1
  BY <1>1, <1>2 DEF PlanHolds
<1> QED BY <1>1, <1>2, <1>4, <1>5, <1>6

(* Only a commit writes the row. *)
LEMMA OnlyCommitWrites ==
    ASSUME [Next]_vars, \A p \in Procs : ~Commit(p)
    PROVE  status' = status
<1>1. CASE Tick \/ SetPolicy \/ SetCuration \/ BitRot \/ UNCHANGED vars
  BY <1>1 DEF Tick, SetPolicy, SetCuration, BitRot, vars
<1>2. ASSUME NEW p \in Procs, Step(p) PROVE status' = status
  BY <1>2 DEF Step, SelectExpired, ReadStream, DecideScan, DecideSweep, DecideIndeterminate,
              DecideWaive, DecideBlock, DecideReevaluate, DecideVerify, DecideScrub, ListPage,
              PairTighten, PairRetroCuration, PairCascade, PairLoosen, ReEvaluateRejected,
              Conflict
<1> QED BY <1>1, <1>2 DEF Next

(* The types and arguments of the events. *)
LEMMA EventFields ==
    /\ \A ty : Plain(ty).type = ty
    /\ \A x : ScanCompleted(x).type = "ScanCompleted" /\ ScanCompleted(x).arg = x
    /\ \A x : PolicyEvaluated(x).type = "PolicyEvaluated" /\ PolicyEvaluated(x).arg = x
    /\ \A x : ArtifactReleased(x).type = "ArtifactReleased" /\ ArtifactReleased(x).arg = x
    /\ \A x : ArtifactRejected(x).type = "ArtifactRejected" /\ ArtifactRejected(x).arg = x
    /\ \A x : ArtifactReEvaluated(x).type = "ArtifactReEvaluated" /\ ArtifactReEvaluated(x).arg = x
  BY DEF Plain, ScanCompleted, PolicyEvaluated, ArtifactReleased, ArtifactRejected,
         ArtifactReEvaluated

LEMMA CompanionFields ==
    ASSUME NEW to \in {"Quarantined", "Released"}
    PROVE  /\ ReEvaluationCompanion(to).type \in {"ArtifactQuarantined", "ArtifactReleased"}
           /\ ReEvaluationCompanion(to).type = "ArtifactReleased" =>
                 to = "Released" /\ ReEvaluationCompanion(to).arg = "PolicyReEvaluation"
           /\ EstablishedBy(ReEvaluationCompanion(to).type) = to
  BY EventFields DEF ReEvaluationCompanion, EstablishedBy

(* Every batch leaves the status alone and says so in its row, or ends in  *)
(* the event that establishes the row it writes.                           *)
LEMMA BatchProjects ==
    ASSUME NEW op, NEW row, NEW b \in Seq(Events), NEW to, NEW ev, NEW pol,
           Form(op, row, b, to, ev, pol)
    PROVE  \/ Silent(b) /\ to = row /\ op \in VerdictOps
           \/ Settles(b, to) /\ (op \in VerdictOps /\ to = row => op = "verify")
<1> USE DEF VerdictOps
<1>0. /\ EstablishedBy("ArtifactReleased") = "Released"
      /\ EstablishedBy("ArtifactRejected") = "Rejected"
      /\ EstablishedBy("ScanIndeterminate") = "ScanIndeterminate"
  BY DEF EstablishedBy
<1>1. CASE op = "scan" /\ ScanForm(row, b, to, ev, pol)
  <2>1. PICK found \in Findings, r \in {"Pass", "Fail"} :
        \/ b = ScanBatch(ev, found, r) /\ to = row
        \/ /\ b = Append(ScanBatch(ev, found, r), ArtifactRejected("Scanner"))
           /\ to = "Rejected" /\ CanRejectFromScan(row, ev.origin)
        \/ /\ b = Append(ScanBatch(ev, found, r), ArtifactReleased("Timer"))
           /\ to = "Released" /\ row = "Quarantined"
    BY <1>1 DEF ScanForm
  <2> DEFINE scan == ScanBatch(ev, found, r)
  <2>2. /\ scan \in Seq(Events)
        /\ \A k \in 1..Len(scan) :
              scan[k].type \in {"ScanCompleted", "ArtifactBecameVulnerable", "PolicyEvaluated"}
    BY ScanBatchTypes
  <2> HIDE DEF scan
  <2>3. CASE b = scan /\ to = row
    BY <1>1, <2>2, <2>3 DEF Silent, StatusEvents
  <2>4. ASSUME NEW e, b = Append(scan, e), e.type \in StatusEvents, EstablishedBy(e.type) = to,
               to # row
        PROVE  Settles(b, to) /\ to # row
    <3>1. Len(b) = Len(scan) + 1 /\ Len(scan) \in Nat /\ b[Len(b)] = e BY <2>2, <2>4
    <3> QED BY <2>4, <3>1 DEF Settles
  <2>5. CASE /\ b = Append(scan, ArtifactRejected("Scanner"))
             /\ to = "Rejected" /\ CanRejectFromScan(row, ev.origin)
    <3>1. row # "Rejected" BY <2>5 DEF CanRejectFromScan, AllowedFrom
    <3> QED BY <1>0, <2>4, <2>5, <3>1, EventFields DEF StatusEvents
  <2>6. CASE b = Append(scan, ArtifactReleased("Timer")) /\ to = "Released" /\ row = "Quarantined"
    BY <1>0, <2>4, <2>6, EventFields DEF StatusEvents
  <2> QED BY <2>1, <2>3, <2>5, <2>6 DEF scan
<1>2. ASSUME NEW e, b = <<e>>, e.type \in StatusEvents, EstablishedBy(e.type) = to
      PROVE  Settles(b, to)
  BY <1>2 DEF Settles
<1>3. ASSUME NEW d, NEW e, b = <<d, e>>, e.type \in StatusEvents, EstablishedBy(e.type) = to
      PROVE  Settles(b, to)
  BY <1>3 DEF Settles
<1>4. CASE b = <<Plain("ProvenanceVerified")>> /\ to = row /\ op \in VerdictOps
  BY <1>4, EventFields DEF Silent, StatusEvents
<1>5. CASE op = "sweep" BY <1>0, <1>2, <1>5, EventFields DEF Form, StatusEvents
<1>6. CASE op = "indeterminate" BY <1>0, <1>2, <1>6, EventFields DEF Form, StatusEvents
<1>7. CASE op = "waive" BY <1>0, <1>2, <1>7, EventFields DEF Form, StatusEvents
<1>8. CASE op = "block" BY <1>0, <1>2, <1>8, EventFields DEF Form, StatusEvents
<1>9. CASE op \in {"reevaluate", "loosen"} /\ ReEvaluationForm(op, row, b, to, ev, pol)
  BY <1>3, <1>9, CompanionFields DEF ReEvaluationForm, StatusEvents
<1>10. CASE op \in {"verify", "scrub", "tighten", "retroCuration", "cascade", "cascadeRetry"}
  BY <1>0, <1>2, <1>3, <1>4, <1>10, EventFields DEF Form, StatusEvents
<1> QED BY <1>1, <1>5, <1>6, <1>7, <1>8, <1>9, <1>10 DEF Form

(* The row is the projection of the stream, whatever operations run.       *)
(* Verdicts write it only when they change it, the scrub and the bulk      *)
(* passes always: either way a commit's row is what its batch says.        *)
THEOREM RowsFollowStreams == Spec => []StatusIsProjection
<1>1. Init => StatusIsProjection
  <2> SUFFICES ASSUME Init PROVE StatusIsProjection OBVIOUS
  <2> DEFINE i == Plain("ArtifactIngested")
             q == Plain("ArtifactQuarantined")
  <2>1. i \in Events /\ q \in Events /\ i.type = "ArtifactIngested" /\ q.type = "ArtifactQuarantined"
    BY EventFacts, EventFields
  <2> HIDE DEF i, q
  <2>2. ProjectedStatus(<<i>>) = "None"
    <3>1. LatestStatusEvent(<<i>>) = 0
      <4> DEFINE s == <<i>>
      <4>1. s \in Seq(Events) /\ Len(s) = 1 /\ s[1] = i BY <2>1
      <4> HIDE DEF s
      <4>2. 0 \in 0..Len(s) /\ \A j \in 1..Len(s) : s[j].type \notin StatusEvents
        BY <2>1, <4>1 DEF StatusEvents
      <4>3. LatestStatusEvent(s) = 0 BY <4>1, <4>2, LatestStatusIs
      <4> QED BY <4>3 DEF s
    <3> QED BY <3>1 DEF ProjectedStatus
  <2>3. ProjectedStatus(<<i, q>>) = "Quarantined"
    <3>1. LatestStatusEvent(<<i, q>>) = 2
      <4> DEFINE s == <<i, q>>
      <4>1. s \in Seq(Events) /\ Len(s) = 2 /\ s[2] = q BY <2>1
      <4> HIDE DEF s
      <4>2. 2 \in 0..Len(s) /\ s[2].type \in StatusEvents /\ \A j \in 1..Len(s) : j <= 2
        BY <2>1, <4>1 DEF StatusEvents
      <4>3. LatestStatusEvent(s) = 2 BY <4>1, <4>2, LatestStatusIs
      <4> QED BY <4>3 DEF s
    <3> QED BY <2>1, <3>1 DEF ProjectedStatus, EstablishedBy
  <2> QED BY <2>2, <2>3 DEF Init, StatusIsProjection, i, q
<1>2. PlanInv /\ StatusIsProjection /\ [Next]_vars => StatusIsProjection'
  <2> SUFFICES ASSUME PlanInv, StatusIsProjection, [Next]_vars PROVE StatusIsProjection' OBVIOUS
  <2>1. ASSUME NEW p \in Procs, Commit(p) PROVE StatusIsProjection'
    <3> DEFINE t == task[p]
    <3>1. /\ stream \in Seq(Events) /\ t.batch \in Seq(Events)
          /\ stream' = stream \o t.batch /\ status' = WrittenStatus(t)
          /\ t.op \in LoadOps => t.row = status
      BY <2>1, CommitForm
    <3>2. PICK pol \in InForce : Form(t.op, t.row, t.batch, t.to, Evidence(stream), pol)
      BY <2>1, CommitForm
    <3> HIDE DEF t
    <3>3. CASE Silent(t.batch) /\ t.to = t.row /\ t.op \in VerdictOps
      BY <3>1, <3>3, SilentProjects DEF StatusIsProjection, WrittenStatus
    <3>4. CASE Settles(t.batch, t.to) /\ (t.op \in VerdictOps /\ t.to = t.row => t.op = "verify")
      <4>1. WrittenStatus(t) = t.to BY <3>1, <3>4 DEF WrittenStatus, LoadOps
      <4> QED BY <3>1, <3>4, <4>1, SettledProjects DEF StatusIsProjection
    <3> QED BY <3>1, <3>2, <3>3, <3>4, BatchProjects
  <2>2. CASE \A p \in Procs : ~Commit(p)
    <3>1. stream' = stream /\ status' = status BY <2>2, OnlyCommitAppends, OnlyCommitWrites
    <3> QED BY <3>1 DEF StatusIsProjection
  <2> QED BY <2>1, <2>2
<1> QED BY <1>1, <1>2, PlansAlways, PTL DEF Spec

-----------------------------------------------------------------------------
(* The freeze at the event cap: past one event more than the cap only the  *)
(* corruption tombstone, which carries no version, still lands.            *)
THEOREM FreezeHolds == Spec => FrozenPastCap
<1> DEFINE Frozen == Len(stream) > Cap + 1
                       => stream' = stream \/ stream'[Len(stream')] = ArtifactRejected("Corruption")
<1>1. PlanInv /\ [Next]_vars => [Frozen]_vars
  <2> SUFFICES ASSUME PlanInv, [Next]_vars, Len(stream) > Cap + 1, stream' # stream
               PROVE  stream'[Len(stream')] = ArtifactRejected("Corruption")
      OBVIOUS
  <2>1. PICK p \in Procs : Commit(p) BY OnlyCommitAppends
  <2> DEFINE b == task[p].batch
  <2>2. /\ stream \in Seq(Events) /\ b \in Seq(Events) /\ stream' = stream \o b
        /\ task[p].op # "scrub" => Len(stream) <= Cap + 1
        /\ \E pol \in InForce : Form(task[p].op, task[p].row, b, task[p].to, Evidence(stream), pol)
    BY <2>1, CommitForm
  <2>3. task[p].op = "scrub" BY <2>2, CapAssumption
  <2>4. b = <<Plain("ArtifactCorrupted"), ArtifactRejected("Corruption")>> BY <2>2, <2>3 DEF Form
  <2>5. Len(b) = 2 /\ b[2] = ArtifactRejected("Corruption") BY <2>4
  <2> HIDE DEF b
  <2>6. Len(stream \o b) = Len(stream) + 2 /\ (stream \o b)[Len(stream) + 2] = b[2]
    <3>1. 2 \in 1..Len(b) BY <2>5
    <3>2. \A k \in 1..Len(b) : (stream \o b)[Len(stream) + k] = b[k] BY <2>2, Appended
    <3>3. Len(stream \o b) = Len(stream) + Len(b) BY <2>2, Appended
    <3> QED BY <2>5, <3>1, <3>2, <3>3
  <2> QED BY <2>2, <2>5, <2>6
<1> QED BY <1>1, PlansAlways, PTL DEF Spec, FrozenPastCap

-----------------------------------------------------------------------------
(* The prefix before an event of an extended stream. *)

LEMMA PrefixOf ==
    ASSUME NEW s \in Seq(Events), NEW n \in 0..Len(s)
    PROVE  /\ SubSeq(s, 1, n) \in Seq(Events) /\ Len(SubSeq(s, 1, n)) = n
           /\ \A i \in 1..n : SubSeq(s, 1, n)[i] = s[i]
  OBVIOUS

LEMMA PositionsAppended ==
    ASSUME NEW s \in Seq(Events), NEW b \in Seq(Events), NEW i \in 1..Len(s \o b)
    PROVE  \/ /\ i \in 1..Len(s) /\ (s \o b)[i] = s[i]
              /\ SubSeq(s \o b, 1, i - 1) = SubSeq(s, 1, i - 1)
           \/ \E k \in 1..Len(b) :
                 /\ i = Len(s) + k /\ (s \o b)[i] = b[k]
                 /\ SubSeq(s \o b, 1, i - 1) = s \o SubSeq(b, 1, k - 1)
<1> DEFINE sb == s \o b
<1>1. /\ sb \in Seq(Events) /\ Len(sb) = Len(s) + Len(b)
      /\ Len(s) \in Nat /\ Len(b) \in Nat
      /\ \A j \in 1..Len(s) : sb[j] = s[j]
      /\ \A k \in 1..Len(b) : sb[Len(s) + k] = b[k]
      /\ \A j \in 1..Len(sb) : j \notin 1..Len(s) => j - Len(s) \in 1..Len(b)
  BY Appended
<1> DEFINE x == SubSeq(sb, 1, i - 1)
<1>2. i \in 1..Len(sb) OBVIOUS
<1> HIDE DEF sb
<1>3. i - 1 \in 0..Len(sb) BY <1>1, <1>2
<1>4. x \in Seq(Events) /\ Len(x) = i - 1 /\ \A j \in 1..(i - 1) : x[j] = sb[j]
  BY <1>1, <1>3, PrefixOf
<1> HIDE DEF x
<1>5. CASE i \in 1..Len(s)
  <2> DEFINE y == SubSeq(s, 1, i - 1)
  <2>1. i - 1 \in 0..Len(s) BY <1>1, <1>5
  <2>2. y \in Seq(Events) /\ Len(y) = i - 1 /\ \A j \in 1..(i - 1) : y[j] = s[j]
    BY <2>1, PrefixOf
  <2> HIDE DEF y
  <2>3. \A j \in 1..Len(x) : x[j] = y[j] BY <1>1, <1>4, <1>5, <2>2
  <2>4. x = y BY <1>4, <2>2, <2>3, SeqEqual
  <2> QED BY <1>1, <1>5, <2>4 DEF x, y, sb
<1>6. CASE i \notin 1..Len(s)
  <2> DEFINE k == i - Len(s)
             c == SubSeq(b, 1, k - 1)
             y == s \o c
  <2>1. k \in 1..Len(b) /\ i = Len(s) + k BY <1>1, <1>2, <1>6
  <2> HIDE DEF k
  <2>2. k - 1 \in 0..Len(b) BY <1>1, <2>1
  <2>3. c \in Seq(Events) /\ Len(c) = k - 1 /\ \A j \in 1..(k - 1) : c[j] = b[j]
    BY <2>2, PrefixOf
  <2> HIDE DEF c
  <2>4. /\ y \in Seq(Events) /\ Len(y) = Len(s) + Len(c)
        /\ \A j \in 1..Len(s) : y[j] = s[j]
        /\ \A j \in 1..Len(c) : y[Len(s) + j] = c[j]
        /\ \A j \in 1..Len(y) : j \notin 1..Len(s) => j - Len(s) \in 1..Len(c)
    BY <2>3, Appended
  <2> HIDE DEF y
  <2>5. Len(x) = Len(y) BY <1>1, <1>4, <2>1, <2>3, <2>4
  <2>6. ASSUME NEW j \in 1..Len(x) PROVE x[j] = y[j]
    <3>1. x[j] = sb[j] BY <1>4, <2>6
    <3>2. CASE j \in 1..Len(s) BY <1>1, <2>4, <3>1, <3>2
    <3>3. CASE j \notin 1..Len(s)
      <4> DEFINE m == j - Len(s)
      <4>1. m \in 1..Len(c) /\ j = Len(s) + m BY <1>1, <2>4, <2>5, <3>3
      <4> HIDE DEF m
      <4>2. y[j] = c[m] BY <2>4, <4>1
      <4>3. m \in 1..Len(b) /\ c[m] = b[m] BY <1>1, <2>1, <2>3, <4>1
      <4>4. sb[j] = b[m] BY <1>1, <4>1, <4>3
      <4> QED BY <3>1, <4>2, <4>3, <4>4
    <3> QED BY <3>2, <3>3
  <2>7. x = y BY <1>4, <2>4, <2>5, <2>6, SeqEqual
  <2>8. sb[i] = b[k] BY <1>1, <2>1
  <2> QED BY <2>1, <2>7, <2>8 DEF x, y, c, sb
<1> QED BY <1>5, <1>6

(* The last event of a batch follows the rest of it. *)
LEMMA BeforeLast ==
    ASSUME NEW c \in Seq(Events), NEW e \in Events
    PROVE  /\ Append(c, e) \in Seq(Events) /\ Len(Append(c, e)) = Len(c) + 1
           /\ SubSeq(Append(c, e), 1, Len(c)) = c
           /\ Append(c, e)[Len(c) + 1] = e
           /\ \A k \in 1..Len(c) : Append(c, e)[k] = c[k]
<1> DEFINE a == Append(c, e)
           x == SubSeq(a, 1, Len(c))
<1>1. /\ a \in Seq(Events) /\ Len(a) = Len(c) + 1 /\ a[Len(c) + 1] = e /\ Len(c) \in Nat
      /\ \A k \in 1..Len(c) : a[k] = c[k]
  OBVIOUS
<1> HIDE DEF a
<1>2. Len(c) \in 0..Len(a) BY <1>1
<1>3. x \in Seq(Events) /\ Len(x) = Len(c) /\ \A k \in 1..Len(c) : x[k] = a[k]
  BY <1>1, <1>2, PrefixOf
<1> HIDE DEF x
<1>4. \A k \in 1..Len(x) : x[k] = c[k] BY <1>1, <1>3
<1>5. x = c BY <1>3, <1>4, SeqEqual
<1> QED BY <1>1, <1>5 DEF a, x

-----------------------------------------------------------------------------
(* Releases and their justification. *)

LEMMA EvidenceFields ==
    ASSUME NEW s
    PROVE  /\ Evidence(s).reason = LastRejectionReason(s)
           /\ Evidence(s).standing = LatestScanStanding(s)
           /\ Evidence(s).found = LastScanCompleted(s)
           /\ Evidence(s).origin = LatestReleaseOrigin(s)
           /\ Evidence(s).verified = ProvenanceVerifiedOn(s)
  BY DEF Evidence

LEMMA NothingBefore ==
    ASSUME NEW s \in Seq(Events), NEW b
    PROVE  s \o SubSeq(b, 1, 0) = s
<1>1. SubSeq(b, 1, 0) = << >> BY SubSeqEmpty
<1> QED BY <1>1, ConcatEmptySeq

(* A timer release is the sweep's one event or the last of a scan's batch. *)
LEMMA TimerForms ==
    ASSUME NEW s \in Seq(Events), NEW op, NEW row, NEW b \in Seq(Events), NEW to, NEW pol,
           Form(op, row, b, to, Evidence(s), pol),
           NEW k \in 1..Len(b), b[k] = ArtifactReleased("Timer")
    PROVE  LET before == s \o SubSeq(b, 1, k - 1) IN
           /\ HasScanAuthority(LatestScanStanding(before), pol)
           /\ ProvenanceClears(ProvenanceVerifiedOn(before), pol)
<1> DEFINE ev == Evidence(s)
           before == s \o SubSeq(b, 1, k - 1)
<1>0. ev.standing = LatestScanStanding(s) /\ ev.verified = ProvenanceVerifiedOn(s)
  BY EvidenceFields
<1>t. b[k].type = "ArtifactReleased" /\ b[k].arg = "Timer" BY EventFields
<1> HIDE DEF ev
<1>1. CASE op = "sweep"
  <2>1. b = <<ArtifactReleased("Timer")>> /\ CanReleaseByTimer(row, ev.standing, ev.verified, pol)
    BY <1>1 DEF Form, ev
  <2>2. k = 1 BY <2>1
  <2>3. before = s BY <2>2, NothingBefore
  <2> QED BY <1>0, <2>1, <2>3 DEF CanReleaseByTimer
<1>2. CASE op = "scan"
  <2>1. PICK found \in Findings, r \in {"Pass", "Fail"} :
        \/ b = ScanBatch(ev, found, r)
        \/ b = Append(ScanBatch(ev, found, r), ArtifactRejected("Scanner"))
        \/ /\ b = Append(ScanBatch(ev, found, r), ArtifactReleased("Timer"))
           /\ CanReleaseByTimer(row, IF r = "Pass" THEN "Clears" ELSE "Holds", ev.verified, pol)
    BY <1>2 DEF Form, ScanForm, ev
  <2> DEFINE scan == ScanBatch(ev, found, r)
  <2>2. /\ scan \in Seq(Events) /\ Len(scan) \in Nat
        /\ \A j \in 1..Len(scan) :
              scan[j].type \in {"ScanCompleted", "ArtifactBecameVulnerable", "PolicyEvaluated"}
    BY ScanBatchTypes
  <2>3. LatestScanStanding(s \o scan) = IF r = "Pass" THEN "Clears" ELSE "Holds"
    BY ScanStands
  <2>4. ~ProvenanceVerifiedOn(scan) BY <2>2 DEF ProvenanceVerifiedOn
  <2> HIDE DEF scan
  <2>5. ProvenanceVerifiedOn(s \o scan) <=> ProvenanceVerifiedOn(s)
    BY <2>2, <2>4, ClearanceAppended
  <2>6. ArtifactRejected("Scanner") \in Events /\ ArtifactReleased("Timer") \in Events
    BY EventFacts DEF Reasons, ReleaseReasons
  <2>7. \A e \in Events : /\ Len(Append(scan, e)) = Len(scan) + 1
                          /\ SubSeq(Append(scan, e), 1, Len(scan)) = scan
                          /\ Append(scan, e)[Len(scan) + 1] = e
                          /\ \A j \in 1..Len(scan) : Append(scan, e)[j] = scan[j]
    BY <2>2, BeforeLast
  <2>8. CASE b = scan BY <1>t, <2>2, <2>8
  <2>9. CASE b = Append(scan, ArtifactRejected("Scanner"))
    <3>1. k \in 1..Len(scan) \/ k = Len(scan) + 1 BY <2>2, <2>6, <2>7, <2>9
    <3>2. CASE k \in 1..Len(scan) BY <1>t, <2>2, <2>6, <2>7, <2>9, <3>2
    <3>3. CASE k = Len(scan) + 1
      <4>1. b[k] = ArtifactRejected("Scanner") BY <2>6, <2>7, <2>9, <3>3
      <4> QED BY <1>t, <4>1, EventFields
    <3> QED BY <3>1, <3>2, <3>3
  <2>10. CASE /\ b = Append(scan, ArtifactReleased("Timer"))
              /\ CanReleaseByTimer(row, IF r = "Pass" THEN "Clears" ELSE "Holds", ev.verified, pol)
    <3>1. k \in 1..Len(scan) \/ k = Len(scan) + 1 BY <2>2, <2>6, <2>7, <2>10
    <3>2. CASE k \in 1..Len(scan) BY <1>t, <2>2, <2>6, <2>7, <2>10, <3>2
    <3>3. CASE k = Len(scan) + 1
      <4>1. k - 1 = Len(scan) BY <2>2, <3>3
      <4>2. before = s \o scan BY <2>6, <2>7, <2>10, <4>1
      <4>3. ProvenanceVerifiedOn(before) <=> ev.verified BY <1>0, <2>5, <4>2
      <4>4. ProvenanceClears(ProvenanceVerifiedOn(before), pol)
        BY <2>10, <4>3 DEF CanReleaseByTimer, ProvenanceClears
      <4> QED BY <2>3, <2>10, <4>2, <4>4 DEF CanReleaseByTimer
    <3> QED BY <3>1, <3>2, <3>3
  <2> QED BY <2>1, <2>8, <2>9, <2>10 DEF scan
<1>3. CASE op \in {"indeterminate", "block", "verify", "scrub", "tighten", "retroCuration",
                   "cascade", "cascadeRetry"}
  BY <1>t, <1>3, EventFields DEF Form
<1>4. CASE op = "waive"
  <2>1. b = <<ArtifactReleased("Curator")>> BY <1>4 DEF Form
  <2>2. b[k] = ArtifactReleased("Curator") BY <2>1
  <2> QED BY <1>t, <2>2, EventFields
<1>5. CASE op \in {"reevaluate", "loosen"}
  <2>1. PICK announced \in {"Quarantined", "Released"} :
           /\ to \in {"Quarantined", "Released"}
           /\ b = <<ArtifactReEvaluated(announced), ReEvaluationCompanion(to)>>
    BY <1>5 DEF Form, ReEvaluationForm
  <2>2. b[k] = ArtifactReEvaluated(announced) \/ b[k] = ReEvaluationCompanion(to) BY <2>1
  <2> QED BY <1>t, <2>1, <2>2, EventFields, CompanionFields
<1> QED BY <1>1, <1>2, <1>3, <1>4, <1>5 DEF Form

(* The timer releases nothing without scan authority and provenance        *)
(* clearance on the stream before the release, under a policy that was in  *)
(* force: not by the sweep, whose candidates were selected earlier, and    *)
(* not by a scan that finds the window over, whatever commits in between.  *)
THEOREM TimerIsJustified == Spec => []TimerReleasesJustified
<1>1. Init => TimerReleasesJustified
  <2> SUFFICES ASSUME Init, NEW i \in 1..Len(stream), stream[i] = ArtifactReleased("Timer")
               PROVE  FALSE
      BY DEF TimerReleasesJustified
  <2>1. stream[i] \in {Plain("ArtifactIngested"), Plain("ArtifactQuarantined")} BY DEF Init
  <2>2. stream[i].type \in {"ArtifactIngested", "ArtifactQuarantined"} BY <2>1, EventFields
  <2> QED BY <2>2, EventFields
<1>2. PlanInv /\ TimerReleasesJustified /\ [Next]_vars => TimerReleasesJustified'
  <2> SUFFICES ASSUME PlanInv, TimerReleasesJustified, [Next]_vars PROVE TimerReleasesJustified'
      OBVIOUS
  <2>0. InForce' = InForce BY ForcedPolicies DEF PlanInv, ReadInv, TypeInv
  <2>1. ASSUME NEW p \in Procs, Commit(p), NEW i \in 1..Len(stream'),
               stream'[i] = ArtifactReleased("Timer")
        PROVE  \E pol \in InForce :
                  /\ HasScanAuthority(LatestScanStanding(SubSeq(stream', 1, i - 1)), pol)
                  /\ ProvenanceClears(ProvenanceVerifiedOn(SubSeq(stream', 1, i - 1)), pol)
    <3> DEFINE t == task[p]
    <3>1. /\ stream \in Seq(Events) /\ t.batch \in Seq(Events) /\ stream' = stream \o t.batch
      BY <2>1, CommitForm
    <3>2. PICK pol \in InForce : Form(t.op, t.row, t.batch, t.to, Evidence(stream), pol)
      BY <2>1, CommitForm
    <3> HIDE DEF t
    <3>3. CASE /\ i \in 1..Len(stream) /\ stream'[i] = stream[i]
               /\ SubSeq(stream', 1, i - 1) = SubSeq(stream, 1, i - 1)
      <4>1. \E q \in InForce :
               /\ HasScanAuthority(Evidence(SubSeq(stream, 1, i - 1)).standing, q)
               /\ ProvenanceClears(Evidence(SubSeq(stream, 1, i - 1)).verified, q)
        BY <2>1, <3>3 DEF TimerReleasesJustified
      <4> QED BY <3>3, <4>1, EvidenceFields
    <3>4. CASE \E k \in 1..Len(t.batch) :
                  /\ i = Len(stream) + k /\ stream'[i] = t.batch[k]
                  /\ SubSeq(stream', 1, i - 1) = stream \o SubSeq(t.batch, 1, k - 1)
      BY <2>1, <3>1, <3>2, <3>4, TimerForms
    <3> QED BY <2>1, <3>1, <3>3, <3>4, PositionsAppended
  <2>2. ASSUME NEW p \in Procs, Commit(p) PROVE TimerReleasesJustified'
    BY <2>0, <2>1, <2>2, EvidenceFields DEF TimerReleasesJustified
  <2>3. CASE \A p \in Procs : ~Commit(p)
    <3>1. stream' = stream BY <2>3, OnlyCommitAppends
    <3> QED BY <2>0, <3>1 DEF TimerReleasesJustified
  <2> QED BY <2>2, <2>3
<1> QED BY <1>1, <1>2, PlansAlways, PTL DEF Spec

-----------------------------------------------------------------------------
(* Only the operations that may run do. *)

OpsRunning == \A p \in Procs : task[p].op \in Ops \cup {"none", "cascadeRetry"}

LEMMA OpsInductive == TypeInv /\ OpsRunning /\ [Next]_vars => OpsRunning'
<1> SUFFICES ASSUME TypeInv, OpsRunning, [Next]_vars PROVE OpsRunning' OBVIOUS
<1>0. task \in [Procs -> Tasks] BY DEF TypeInv, TypeOK
<1>1. CASE Tick \/ SetPolicy \/ SetCuration \/ BitRot \/ UNCHANGED vars
  BY <1>1 DEF Tick, SetPolicy, SetCuration, BitRot, vars, OpsRunning
<1>2. ASSUME NEW p \in Procs, NEW u, task' = [task EXCEPT ![p] = u],
             u.op \in Ops \cup {"none", "cascadeRetry"}
      PROVE  OpsRunning'
  BY <1>0, <1>2 DEF OpsRunning
<1>3. ASSUME NEW p \in Procs, NEW t \in Tasks, NEW plan, Decide(p, t, plan),
             t.op \in Ops \cup {"none", "cascadeRetry"}
      PROVE  OpsRunning'
  <2> DEFINE u == IF plan.batch = << >> THEN Idle
                  ELSE [t EXCEPT !.pc = "decided", !.batch = plan.batch, !.to = plan.to]
  <2>1. task' = [task EXCEPT ![p] = u] BY <1>3 DEF Decide
  <2>2. u.op \in Ops \cup {"none", "cascadeRetry"} BY <1>3 DEF Idle, Tasks
  <2> HIDE DEF u
  <2> QED BY <1>2, <2>1, <2>2
<1>4. ASSUME NEW p \in Procs PROVE
         /\ LoadRow(p) \in Tasks /\ LoadRow(p).op \in Ops \cup {"none", "cascadeRetry"}
         /\ Paired(p) \in Tasks /\ Paired(p).op \in Ops \cup {"none", "cascadeRetry"}
         /\ task[p] \in Tasks /\ task[p].op \in Ops \cup {"none", "cascadeRetry"}
  <2>1. LoadRow(p) \in Tasks /\ Paired(p) \in Tasks /\ task[p] \in Tasks
    BY <1>0, LoadRowType, PairedType
  <2>2. LoadRow(p).op = task[p].op /\ Paired(p).op = task[p].op
    BY <2>1 DEF LoadRow, Paired, Tasks
  <2> QED BY <2>1, <2>2 DEF OpsRunning
<1>5. ASSUME NEW p \in Procs,
             \/ \E found \in Findings : DecideScan(p, found)
             \/ DecideSweep(p) \/ DecideIndeterminate(p) \/ DecideWaive(p) \/ DecideBlock(p)
             \/ \E readable \in BOOLEAN : DecideReevaluate(p, readable)
             \/ \E outcome \in {"Verified", "Rejected", "NoAttestation", "Indeterminate"} :
                   DecideVerify(p, outcome)
      PROVE  \E plan : Decide(p, LoadRow(p), plan)
  BY <1>5 DEF DecideScan, DecideSweep, DecideIndeterminate, DecideWaive, DecideBlock,
              DecideReevaluate, DecideVerify
<1>6. ASSUME NEW p \in Procs,
             \/ \E readable \in BOOLEAN : PairTighten(p, readable)
             \/ PairRetroCuration(p) \/ PairCascade(p)
      PROVE  \E plan : Decide(p, Paired(p), plan)
  BY <1>6 DEF PairTighten, PairRetroCuration, PairCascade
<1>7. ASSUME NEW p \in Procs, ReEvaluateRejected(p) PROVE \E plan : Decide(p, task[p], plan)
  BY <1>7 DEF ReEvaluateRejected
<1>8. ASSUME NEW p \in Procs, DecideScrub(p) PROVE OpsRunning'
  <2> DEFINE t == [Idle EXCEPT !.op = "scrub", !.row = status]
  <2>1. t \in Tasks /\ t.op = "scrub" /\ "scrub" \in Ops
    BY <1>8, IdleType DEF Tasks, AllOps, TypeInv, TypeOK, DecideScrub
  <2>2. Decide(p, t, TombstonePlan(t.row)) BY <1>8 DEF DecideScrub
  <2> HIDE DEF t
  <2> QED BY <1>3, <2>1, <2>2
<1>9. ASSUME NEW p \in Procs, SelectExpired(p) PROVE OpsRunning'
  BY <1>2, <1>9 DEF SelectExpired, Idle
<1>10. ASSUME NEW p \in Procs, NEW op \in Ops, ReadStream(p, op) \/ ListPage(p, op)
       PROVE  OpsRunning'
  BY <1>2, <1>10 DEF ReadStream, ListPage, Idle
<1>11. ASSUME NEW p \in Procs, NEW readable \in BOOLEAN, PairLoosen(p, readable) PROVE OpsRunning'
  <2> DEFINE t == Paired(p)
             to == RejectedOutcome(EvidenceAt(t.ver), anchored, t.pol, t.now, readable)
             may == ~OverCap(t.ver) /\ MayReEvaluate(t.row, EvidenceAt(t.ver), to, t.pol, curationBlock)
             u == IF may THEN [t EXCEPT !.pc = "derived", !.to = to] ELSE Idle
  <2>1. task' = [task EXCEPT ![p] = u] BY <1>11 DEF PairLoosen
  <2>2. t \in Tasks /\ t.op \in Ops \cup {"none", "cascadeRetry"} BY <1>4
  <2> HIDE DEF t, to, may
  <2>3. u.op \in Ops \cup {"none", "cascadeRetry"} BY <2>2 DEF Idle, Tasks
  <2> HIDE DEF u
  <2> QED BY <1>2, <2>1, <2>3
<1>12. ASSUME NEW p \in Procs, Commit(p) PROVE OpsRunning'
  BY <1>2, <1>12 DEF Commit, Idle
<1>13. ASSUME NEW p \in Procs, Conflict(p) PROVE OpsRunning'
  <2> DEFINE retry == [task[p] EXCEPT !.pc = "picked", !.op = "cascadeRetry", !.ver = 0,
                                      !.batch = << >>, !.to = "None"]
             u == IF task[p].op = "cascade" THEN retry ELSE Idle
  <2>1. task' = [task EXCEPT ![p] = u] BY <1>13 DEF Conflict
  <2>2. u.op \in Ops \cup {"none", "cascadeRetry"} BY <1>4 DEF Idle, Tasks
  <2> HIDE DEF u
  <2> QED BY <1>2, <2>1, <2>2
<1>14. ASSUME NEW p \in Procs, \/ \E plan : Decide(p, LoadRow(p), plan)
                               \/ \E plan : Decide(p, Paired(p), plan)
                               \/ \E plan : Decide(p, task[p], plan)
       PROVE  OpsRunning'
  BY <1>3, <1>4, <1>14
<1>15. ASSUME NEW p \in Procs, Step(p) PROVE OpsRunning'
  BY <1>5, <1>6, <1>7, <1>8, <1>9, <1>10, <1>11, <1>12, <1>13, <1>14, <1>15 DEF Step
<1> QED BY <1>1, <1>15 DEF Next

LEMMA OpsAlways == Spec => [](PlanInv /\ OpsRunning)
<1>1. Init => OpsRunning BY DEF Init, OpsRunning, Idle
<1>2. PlanInv /\ OpsRunning /\ [Next]_vars => OpsRunning'
  BY OpsInductive DEF PlanInv, ReadInv
<1> QED BY <1>1, <1>2, PlansAlways, PTL DEF Spec

-----------------------------------------------------------------------------
(* The audit trail of re-evaluations.  The loosen pass announces what it   *)
(* decided at its own instant and applies what the entity says at a later  *)
(* one; the deadline it saw behind it is behind the entity too.            *)

Forthright(t, now, anch) ==
    /\ t.op = "loosen" => t.now <= now
    /\ t.pc = "derived" /\ t.to = "Released" => ~anch \/ DeadlinePassed(t.pol, now)
    /\ t.pc = "decided" /\ t.op = "loosen"
         => \E announced \in {"Quarantined", "Released"} :
               /\ t.to \in {"Quarantined", "Released"}
               /\ t.batch = <<ArtifactReEvaluated(announced), ReEvaluationCompanion(t.to)>>
               /\ announced = "Released" => t.to = "Released"

CallsForthright == \A p \in Procs : Forthright(task[p], clock, anchored)

(* Time does not run backwards, and nobody moves the anchor. *)
LEMMA TimeRuns ==
    ASSUME TypeOK, [Next]_vars
    PROVE  /\ clock <= clock' /\ anchored' = anchored
           /\ clock \in Nat /\ clock' \in Nat
<1>1. clock \in Nat BY HorizonAssumption DEF TypeOK
<1>2. CASE Tick \/ SetPolicy \/ SetCuration \/ BitRot \/ UNCHANGED vars
  BY <1>1, <1>2 DEF Tick, SetPolicy, SetCuration, BitRot, vars
<1>3. ASSUME NEW p \in Procs, Step(p) PROVE clock' = clock /\ anchored' = anchored
  BY <1>3 DEF Step, SelectExpired, ReadStream, DecideScan, DecideSweep, DecideIndeterminate,
              DecideWaive, DecideBlock, DecideReevaluate, DecideVerify, DecideScrub, ListPage,
              PairTighten, PairRetroCuration, PairCascade, PairLoosen, ReEvaluateRejected,
              Commit, Conflict, env
<1> QED BY <1>1, <1>2, <1>3 DEF Next

(* A call other than the loosen pass's has nothing to announce. *)
LEMMA OthersForthright ==
    ASSUME NEW t, t.op # "loosen", t.pc # "derived"
    PROVE  \A now, anch : Forthright(t, now, anch)
  BY DEF Forthright

LEMMA StaysForthright ==
    ASSUME NEW t \in Tasks, NEW now \in Nat, NEW later \in Nat, now <= later, NEW anch,
           Forthright(t, now, anch)
    PROVE  Forthright(t, later, anch)
<1>1. t.now \in Nat /\ t.pol.duration \in Nat
  BY HorizonAssumption, PoliciesAssumption DEF Tasks, ScanPolicies
<1>2. DeadlinePassed(t.pol, now) => DeadlinePassed(t.pol, later) BY <1>1 DEF DeadlinePassed
<1> QED BY <1>1, <1>2 DEF Forthright

LEMMA ForthrightStep == PlanInv /\ CallsForthright /\ [Next]_vars => CallsForthright'
<1> SUFFICES ASSUME PlanInv, CallsForthright, [Next]_vars PROVE CallsForthright' OBVIOUS
<1>0. /\ task \in [Procs -> Tasks] /\ status \in Statuses /\ TypeInv /\ TypeOK
      /\ \A p \in Procs : Forthright(task[p], clock, anchored)
      /\ \A p \in Procs : task[p].pc = "derived" => task[p].op = "loosen"
  BY DEF PlanInv, ReadInv, TypeInv, TypeOK, CallsForthright, CallsOK, CallOK
<1>1. clock \in Nat /\ clock' \in Nat /\ clock <= clock' /\ anchored' = anchored
  BY <1>0, TimeRuns
<1>2. CASE Tick \/ SetPolicy \/ SetCuration \/ BitRot \/ UNCHANGED vars
  <2>1. task' = task BY <1>2 DEF Tick, SetPolicy, SetCuration, BitRot, vars
  <2>2. \A p \in Procs : Forthright(task[p], clock', anchored) BY <1>0, <1>1, StaysForthright
  <2> QED BY <1>1, <2>1, <2>2 DEF CallsForthright
<1>3. ASSUME NEW p \in Procs, NEW u, task' = [task EXCEPT ![p] = u], u \in Tasks,
             Forthright(u, clock, anchored)
      PROVE  CallsForthright'
  <2>1. \A q \in Procs : task'[q] \in Tasks /\ Forthright(task'[q], clock, anchored) BY <1>0, <1>3
  <2>2. \A q \in Procs : Forthright(task'[q], clock', anchored) BY <1>1, <2>1, StaysForthright
  <2> QED BY <1>1, <2>2 DEF CallsForthright
<1>4. ASSUME NEW p \in Procs, NEW u, task' = [task EXCEPT ![p] = u],
             u.op # "loosen", u.pc # "derived"
      PROVE  CallsForthright'
  <2>1. \A q \in Procs : q # p => task'[q] = task[q] BY <1>0, <1>4
  <2>2. \A q \in Procs : Forthright(task[q], clock', anchored) BY <1>0, <1>1, StaysForthright
  <2>3. Forthright(u, clock', anchored) /\ task'[p] = u BY <1>0, <1>4, OthersForthright
  <2> QED BY <1>1, <2>1, <2>2, <2>3 DEF CallsForthright
<1>5. ASSUME NEW p \in Procs, NEW t \in Tasks, NEW plan, Decide(p, t, plan), t.op # "loosen"
      PROVE  CallsForthright'
  <2> DEFINE u == IF plan.batch = << >> THEN Idle
                  ELSE [t EXCEPT !.pc = "decided", !.batch = plan.batch, !.to = plan.to]
  <2>1. task' = [task EXCEPT ![p] = u] BY <1>5 DEF Decide
  <2>2. u.op # "loosen" /\ u.pc # "derived" BY <1>5 DEF Idle, Tasks
  <2> HIDE DEF u
  <2> QED BY <1>4, <2>1, <2>2
<1>6. ASSUME NEW p \in Procs
      PROVE  /\ LoadRow(p) \in Tasks /\ LoadRow(p).op = task[p].op
             /\ Paired(p) \in Tasks /\ Paired(p).op = task[p].op /\ Paired(p).now = task[p].now
             /\ task[p] \in Tasks
  <2>1. LoadRow(p) \in Tasks /\ Paired(p) \in Tasks /\ task[p] \in Tasks
    BY <1>0, LoadRowType, PairedType
  <2> QED BY <2>1 DEF LoadRow, Paired, Tasks
<1>7. ASSUME NEW p \in Procs,
             \/ \E found \in Findings : DecideScan(p, found)
             \/ DecideSweep(p) \/ DecideIndeterminate(p) \/ DecideWaive(p) \/ DecideBlock(p)
             \/ \E readable \in BOOLEAN : DecideReevaluate(p, readable)
             \/ \E outcome \in {"Verified", "Rejected", "NoAttestation", "Indeterminate"} :
                   DecideVerify(p, outcome)
      PROVE  CallsForthright'
  <2>1. (\E plan : Decide(p, LoadRow(p), plan)) /\ task[p].op # "loosen"
    BY <1>7 DEF DecideScan, DecideSweep, DecideIndeterminate, DecideWaive, DecideBlock,
                DecideReevaluate, DecideVerify
  <2> QED BY <1>5, <1>6, <2>1
<1>8. ASSUME NEW p \in Procs,
             \/ \E readable \in BOOLEAN : PairTighten(p, readable)
             \/ PairRetroCuration(p) \/ PairCascade(p)
      PROVE  CallsForthright'
  <2>1. (\E plan : Decide(p, Paired(p), plan)) /\ task[p].op # "loosen"
    BY <1>8 DEF PairTighten, PairRetroCuration, PairCascade
  <2> QED BY <1>5, <1>6, <2>1
<1>9. ASSUME NEW p \in Procs, DecideScrub(p) PROVE CallsForthright'
  <2> DEFINE t == [Idle EXCEPT !.op = "scrub", !.row = status]
  <2>1. t \in Tasks /\ t.op = "scrub" BY <1>0, IdleType DEF Tasks, AllOps
  <2>2. Decide(p, t, TombstonePlan(t.row)) BY <1>9 DEF DecideScrub
  <2> HIDE DEF t
  <2> QED BY <1>5, <2>1, <2>2
<1>10. ASSUME NEW p \in Procs, SelectExpired(p) PROVE CallsForthright'
  <2> DEFINE u == [Idle EXCEPT !.pc = "picked", !.op = "sweep"]
  <2>1. task' = [task EXCEPT ![p] = u] BY <1>10 DEF SelectExpired
  <2>2. u.op # "loosen" /\ u.pc # "derived" BY DEF Idle
  <2> HIDE DEF u
  <2> QED BY <1>4, <2>1, <2>2
<1>11. ASSUME NEW p \in Procs, NEW op \in LoadOps, ReadStream(p, op) PROVE CallsForthright'
  <2> DEFINE u == [Idle EXCEPT !.pc = "read", !.op = op, !.ver = SeenVersion,
                               !.now = IF op = "scan" THEN clock ELSE 0]
  <2>1. task' = [task EXCEPT ![p] = u] BY <1>11 DEF ReadStream
  <2>2. u.op # "loosen" /\ u.pc # "derived" BY DEF Idle, LoadOps
  <2> HIDE DEF u
  <2> QED BY <1>4, <2>1, <2>2
<1>12. ASSUME NEW p \in Procs, NEW op \in PassOps, ListPage(p, op) PROVE CallsForthright'
  <2> DEFINE u == [Idle EXCEPT !.pc = "picked", !.op = op, !.row = status,
                               !.pol = policy, !.now = clock]
  <2>1. u \in Tasks BY <1>0, IdleType DEF Tasks, TypeOK, AllOps
  <2>2. u.pc = "picked" /\ u.now = clock BY DEF Idle
  <2>3. task' = [task EXCEPT ![p] = u] BY <1>12 DEF ListPage
  <2> HIDE DEF u
  <2>4. Forthright(u, clock, anchored) BY <1>1, <2>2 DEF Forthright
  <2> QED BY <1>3, <2>1, <2>3, <2>4
<1>13. ASSUME NEW p \in Procs, NEW readable \in BOOLEAN, PairLoosen(p, readable)
       PROVE  CallsForthright'
  <2> DEFINE t == Paired(p)
             to == RejectedOutcome(EvidenceAt(t.ver), anchored, t.pol, t.now, readable)
             may == ~OverCap(t.ver) /\ MayReEvaluate(t.row, EvidenceAt(t.ver), to, t.pol, curationBlock)
             d == [t EXCEPT !.pc = "derived", !.to = to]
             u == IF may THEN d ELSE Idle
  <2>1. task' = [task EXCEPT ![p] = u] /\ task[p].op = "loosen" BY <1>13 DEF PairLoosen
  <2>2. t \in Tasks /\ t.op = "loosen" /\ t.now <= clock BY <1>0, <1>6, <2>1 DEF Forthright
  <2>3. to = "Released" => ~anchored \/ DeadlinePassed(t.pol, t.now)
    BY DEF RejectedOutcome, DecideRejectedTransition
  <2>4. to \in Statuses BY OutcomeType DEF Statuses
  <2> HIDE DEF t, to, may
  <2>5. /\ d \in Tasks /\ d.pc = "derived" /\ d.op = "loosen" /\ d.to = to
        /\ d.pol = t.pol /\ d.now = t.now /\ t.now \in Nat /\ t.pol.duration \in Nat
    <3>1. /\ d \in Tasks /\ d.pc = "derived" /\ d.op = "loosen" /\ d.to = to
          /\ d.pol = t.pol /\ d.now = t.now
      BY <2>2, <2>4 DEF Tasks
    <3> HIDE DEF d
    <3>2. t.now \in Nat BY <2>2, HorizonAssumption DEF Tasks
    <3>3. t.pol \in ScanPolicies BY <2>2, PoliciesAssumption DEF Tasks
    <3>4. t.pol.duration \in Nat BY <3>3 DEF ScanPolicies
    <3> QED BY <3>1, <3>2, <3>4
  <2> HIDE DEF d
  <2>6. Forthright(d, clock, anchored)
    BY <1>1, <2>2, <2>3, <2>5 DEF Forthright, DeadlinePassed
  <2>7. Idle \in Tasks /\ Forthright(Idle, clock, anchored)
    BY IdleType, OthersForthright DEF Idle
  <2>8. u \in Tasks /\ Forthright(u, clock, anchored) BY <2>5, <2>6, <2>7
  <2> HIDE DEF u
  <2> QED BY <1>3, <2>1, <2>8
<1>14. ASSUME NEW p \in Procs, ReEvaluateRejected(p) PROVE CallsForthright'
  <2> DEFINE t == task[p]
             to == ReEvaluateAt(t.pol, clock)
             batch == <<ArtifactReEvaluated(t.to), ReEvaluationCompanion(to)>>
             d == [t EXCEPT !.pc = "decided", !.batch = Plan(batch, to).batch,
                            !.to = Plan(batch, to).to]
             u == IF Plan(batch, to).batch = << >> THEN Idle ELSE d
  <2>1. task' = [task EXCEPT ![p] = u] BY <1>14 DEF ReEvaluateRejected, Decide
  <2>2. /\ t \in Tasks /\ t.pc = "derived" /\ t.op = "loosen" /\ t.now <= clock
        /\ t.to \in {"Quarantined", "Released"}
        /\ t.to = "Released" => ~anchored \/ DeadlinePassed(t.pol, clock)
    BY <1>0, <1>14 DEF ReEvaluateRejected, Forthright, TypeInv, DerivedOutcomes
  <2>3. to \in {"Quarantined", "Released"} /\ (t.to = "Released" => to = "Released")
    BY <2>2 DEF ReEvaluateAt
  <2> HIDE DEF t, to
  <2>4. Plan(batch, to).batch = batch /\ Plan(batch, to).to = to /\ batch # << >> BY DEF Plan
  <2>5. batch \in Seq(Events)
    BY <2>2, <2>3, EventFacts DEF ReEvaluationCompanion, ReleaseReasons
  <2>6. /\ u \in Tasks /\ u.pc = "decided" /\ u.op = "loosen" /\ u.to = to /\ u.now = t.now
        /\ u.batch = batch
    <3> HIDE DEF batch
    <3> QED BY <2>2, <2>3, <2>4, <2>5 DEF Tasks, Statuses
  <2>7. Forthright(u, clock, anchored)
    <3> HIDE DEF u
    <3> QED BY <2>2, <2>3, <2>6 DEF Forthright
  <2> HIDE DEF u
  <2> QED BY <1>3, <2>1, <2>6, <2>7
<1>15. ASSUME NEW p \in Procs, Commit(p) PROVE CallsForthright'
  <2>1. task' = [task EXCEPT ![p] = Idle] BY <1>15 DEF Commit
  <2>2. Idle.op # "loosen" /\ Idle.pc # "derived" BY DEF Idle
  <2> QED BY <1>4, <2>1, <2>2
<1>16. ASSUME NEW p \in Procs, Conflict(p) PROVE CallsForthright'
  <2> DEFINE retry == [task[p] EXCEPT !.pc = "picked", !.op = "cascadeRetry", !.ver = 0,
                                      !.batch = << >>, !.to = "None"]
             u == IF task[p].op = "cascade" THEN retry ELSE Idle
  <2>1. task' = [task EXCEPT ![p] = u] BY <1>16 DEF Conflict
  <2>2. u.op # "loosen" /\ u.pc # "derived" BY <1>6 DEF Idle, Tasks
  <2> HIDE DEF u
  <2> QED BY <1>4, <2>1, <2>2
<1>17. ASSUME NEW p \in Procs, Step(p) PROVE CallsForthright'
  BY <1>7, <1>8, <1>9, <1>10, <1>11, <1>12, <1>13, <1>14, <1>15, <1>16, <1>17 DEF Step
<1> QED BY <1>2, <1>17 DEF Next

(* What a pair of a re-evaluation and the event after it may say. *)
Tells(announced, companion) ==
    \/ announced = EstablishedBy(companion)
    \/ announced = "Quarantined" /\ companion = "ArtifactReleased"

(* No event of a scan is a re-evaluation. *)
LEMMA ScanSaysNoReEvaluation ==
    \A ev : \A found \in Findings, r \in {"Pass", "Fail"} :
        /\ ScanBatch(ev, found, r) \in Seq(Events)
        /\ \A j \in 1..Len(ScanBatch(ev, found, r)) :
              ScanBatch(ev, found, r)[j].type # "ArtifactReEvaluated"
<1> TAKE ev
<1> TAKE found \in Findings, r \in {"Pass", "Fail"}
<1> DEFINE b == ScanBatch(ev, found, r)
<1>1. /\ b \in Seq(Events)
      /\ \A k \in 1..Len(b) :
            b[k].type \in {"ScanCompleted", "ArtifactBecameVulnerable", "PolicyEvaluated"}
  BY ScanBatchTypes
<1> HIDE DEF b
<1>2. \A j \in 1..Len(b) : b[j].type # "ArtifactReEvaluated"
  BY <1>1
<1> QED BY <1>1, <1>2 DEF b

LEMMA AuditForms ==
    ASSUME NEW op, NEW row, NEW b \in Seq(Events), NEW to, NEW ev, NEW pol,
           Form(op, row, b, to, ev, pol),
           op = "loosen" => \E announced \in {"Quarantined", "Released"} :
                               /\ to \in {"Quarantined", "Released"}
                               /\ b = <<ArtifactReEvaluated(announced), ReEvaluationCompanion(to)>>
                               /\ announced = "Released" => to = "Released",
           NEW k \in 1..Len(b), b[k].type = "ArtifactReEvaluated"
    PROVE  k < Len(b) /\ Tells(b[k].arg, b[k + 1].type)
<1>1. CASE op \in {"reevaluate", "loosen"}
  <2>1. PICK announced \in {"Quarantined", "Released"} :
          /\ to \in {"Quarantined", "Released"}
          /\ b = <<ArtifactReEvaluated(announced), ReEvaluationCompanion(to)>>
          /\ announced = "Released" => to = "Released"
    BY <1>1 DEF Form, ReEvaluationForm
  <2>2. /\ EstablishedBy(ReEvaluationCompanion(to).type) = to
        /\ ReEvaluationCompanion(to).type # "ArtifactReEvaluated"
        /\ to = "Released" => ReEvaluationCompanion(to).type = "ArtifactReleased"
    BY <2>1, CompanionFields, EventFields DEF ReEvaluationCompanion
  <2>3. Len(b) = 2 /\ b[1] = ArtifactReEvaluated(announced) /\ b[2] = ReEvaluationCompanion(to)
    BY <2>1
  <2>4. k = 1 BY <2>2, <2>3
  <2>5. b[1].arg = announced BY <2>3, EventFields
  <2>6. Tells(announced, ReEvaluationCompanion(to).type) BY <2>1, <2>2 DEF Tells
  <2> QED BY <2>3, <2>4, <2>5, <2>6
<1>2. CASE op = "tighten"
  <2>1. b = <<ArtifactReEvaluated("Rejected"), ArtifactRejected("ScanPolicyRetroactive")>>
    BY <1>2 DEF Form
  <2>2. /\ Len(b) = 2 /\ b[1] = ArtifactReEvaluated("Rejected")
        /\ b[2] = ArtifactRejected("ScanPolicyRetroactive")
    BY <2>1
  <2>3. b[2].type = "ArtifactRejected" BY <2>2, EventFields
  <2>4. k = 1 BY <2>2, <2>3
  <2> QED BY <2>2, <2>3, <2>4, EventFields DEF EstablishedBy, Tells
<1>3. CASE op = "scan"
  <2>1. PICK found \in Findings, r \in {"Pass", "Fail"} :
        \/ b = ScanBatch(ev, found, r)
        \/ b = Append(ScanBatch(ev, found, r), ArtifactRejected("Scanner"))
        \/ b = Append(ScanBatch(ev, found, r), ArtifactReleased("Timer"))
    BY <1>3 DEF Form, ScanForm
  <2> DEFINE scan == ScanBatch(ev, found, r)
  <2>a. /\ scan \in Seq(Events)
        /\ \A j \in 1..Len(scan) : scan[j].type # "ArtifactReEvaluated"
    BY ScanSaysNoReEvaluation, Zenon
  <2> HIDE DEF scan
  <2>b. Len(scan) \in Nat BY <2>a
  <2>2. /\ scan \in Seq(Events) /\ Len(scan) \in Nat
        /\ \A j \in 1..Len(scan) : scan[j].type # "ArtifactReEvaluated"
    BY <2>a, <2>b
  <2>3. CASE b = scan BY <2>2, <2>3
  <2>4. ASSUME NEW e, e.type \in {"ArtifactRejected", "ArtifactReleased"}, b = Append(scan, e)
        PROVE  FALSE
    <3>1. k \in 1..Len(scan) \/ k = Len(scan) + 1 BY <2>2, <2>4
    <3>2. CASE k \in 1..Len(scan)
      <4>1. b[k] = scan[k] BY <2>2, <2>4, <3>2
      <4> QED BY <2>2, <3>2, <4>1
    <3>3. CASE k = Len(scan) + 1
      <4>1. b[k] = e BY <2>2, <2>4, <3>3
      <4> QED BY <2>4, <4>1
    <3> QED BY <3>1, <3>2, <3>3
  <2> QED BY <2>1, <2>3, <2>4, EventFields DEF scan
<1>4. CASE op \in {"sweep", "indeterminate", "waive", "block", "verify", "scrub", "retroCuration",
                   "cascade", "cascadeRetry"}
  <2>1. \/ \E e : b = <<e>> /\ e.type # "ArtifactReEvaluated"
        \/ \E d, e : b = <<d, e>> /\ d.type # "ArtifactReEvaluated" /\ e.type # "ArtifactReEvaluated"
    BY <1>4, EventFields DEF Form
  <2> QED BY <2>1
<1> QED BY <1>1, <1>2, <1>3, <1>4 DEF Form

(* Every recorded re-evaluation announces, in its own batch, the status    *)
(* its companion event established, or a hold where there was a release:   *)
(* the loosen pass reads the clock twice, commit_re_evaluation the second  *)
(* time, and a deadline that has passed stays passed.                      *)
THEOREM AuditIsTrue == Spec => []AuditErrsOnHoldsOnly
<1>1. Init => AuditErrsOnHoldsOnly
  <2> SUFFICES ASSUME Init, NEW i \in 1..Len(stream), stream[i].type = "ArtifactReEvaluated"
               PROVE  FALSE
      BY DEF AuditErrsOnHoldsOnly, Tells
  <2>1. stream[i] \in {Plain("ArtifactIngested"), Plain("ArtifactQuarantined")} BY DEF Init
  <2> QED BY <2>1, EventFields
<1>2. PlanInv /\ CallsForthright /\ AuditErrsOnHoldsOnly /\ [Next]_vars => AuditErrsOnHoldsOnly'
  <2> SUFFICES ASSUME PlanInv, CallsForthright, AuditErrsOnHoldsOnly, [Next]_vars
               PROVE  AuditErrsOnHoldsOnly'
      OBVIOUS
  <2>1. ASSUME NEW p \in Procs, Commit(p) PROVE AuditErrsOnHoldsOnly'
    <3> DEFINE t == task[p]
               b == t.batch
               sb == stream \o b
    <3>1. stream \in Seq(Events) /\ b \in Seq(Events) /\ stream' = sb
      BY <2>1, CommitForm
    <3>2. PICK pol \in InForce : Form(t.op, t.row, b, t.to, Evidence(stream), pol)
      BY <2>1, CommitForm
    <3>3. t.op = "loosen" => \E announced \in {"Quarantined", "Released"} :
                                /\ t.to \in {"Quarantined", "Released"}
                                /\ b = <<ArtifactReEvaluated(announced), ReEvaluationCompanion(t.to)>>
                                /\ announced = "Released" => t.to = "Released"
      BY <2>1 DEF CallsForthright, Forthright, Commit
    <3>4. \A k \in 1..Len(b) : b[k].type = "ArtifactReEvaluated"
             => k < Len(b) /\ Tells(b[k].arg, b[k + 1].type)
      BY <3>1, <3>2, <3>3, AuditForms
    <3> HIDE DEF t, b
    <3>5. /\ Len(sb) = Len(stream) + Len(b) /\ Len(stream) \in Nat /\ Len(b) \in Nat
          /\ \A j \in 1..Len(stream) : sb[j] = stream[j]
          /\ \A k \in 1..Len(b) : sb[Len(stream) + k] = b[k]
          /\ \A j \in 1..Len(sb) : j \notin 1..Len(stream) => j - Len(stream) \in 1..Len(b)
      BY <3>1, Appended
    <3> HIDE DEF sb
    <3>6. ASSUME NEW i \in 1..Len(sb), sb[i].type = "ArtifactReEvaluated"
          PROVE  i < Len(sb) /\ Tells(sb[i].arg, sb[i + 1].type)
      <4>1. CASE i \in 1..Len(stream)
        <5>1. i < Len(stream) /\ Tells(stream[i].arg, stream[i + 1].type)
          BY <3>5, <3>6, <4>1 DEF AuditErrsOnHoldsOnly, Tells
        <5>2. i + 1 \in 1..Len(stream) BY <3>5, <4>1, <5>1
        <5> QED BY <3>5, <4>1, <5>1, <5>2
      <4>2. CASE i \notin 1..Len(stream)
        <5> DEFINE k == i - Len(stream)
        <5>1. k \in 1..Len(b) /\ i = Len(stream) + k BY <3>5, <4>2
        <5> HIDE DEF k
        <5>2. sb[i] = b[k] BY <3>5, <5>1
        <5>3. k < Len(b) /\ Tells(b[k].arg, b[k + 1].type) BY <3>4, <3>6, <5>1, <5>2
        <5>4. Len(stream) \in Nat /\ Len(b) \in Nat BY <3>5
        <5>5. k + 1 \in 1..Len(b) /\ i + 1 = Len(stream) + (k + 1) BY <5>1, <5>3, <5>4
        <5>6. sb[Len(stream) + (k + 1)] = b[k + 1] BY <3>5, <5>5
        <5>7. sb[i + 1] = b[k + 1] BY <5>5, <5>6
        <5>8. i < Len(sb)
          <6>1. Len(sb) = Len(stream) + Len(b) BY <3>5
          <6> QED BY <5>1, <5>3, <5>4, <6>1
        <5> QED BY <5>2, <5>3, <5>7, <5>8
      <4> QED BY <4>1, <4>2
    <3> QED BY <3>1, <3>6 DEF AuditErrsOnHoldsOnly, Tells
  <2>2. CASE \A p \in Procs : ~Commit(p)
    <3>1. stream' = stream BY <2>2, OnlyCommitAppends
    <3> QED BY <3>1 DEF AuditErrsOnHoldsOnly, Tells
  <2> QED BY <2>1, <2>2
<1>3. Init => CallsForthright
  BY OthersForthright DEF Init, Idle, CallsForthright
<1> QED BY <1>1, <1>2, <1>3, ForthrightStep, PlansAlways, PTL DEF Spec

-----------------------------------------------------------------------------
(* The events of the batches, by operation. *)

Writes(op) ==
    CASE op = "scan" -> {ScanCompleted(f) : f \in Findings}
                           \cup {PolicyEvaluated(r) : r \in {"Pass", "Fail"}}
                           \cup {Plain("ArtifactBecameVulnerable"), ArtifactRejected("Scanner"),
                                 ArtifactReleased("Timer")}
      [] op = "sweep" -> {ArtifactReleased("Timer")}
      [] op = "indeterminate" -> {Plain("ScanIndeterminate")}
      [] op = "waive" -> {ArtifactReleased("Curator")}
      [] op = "block" -> {ArtifactRejected("Curator")}
      [] op \in {"reevaluate", "loosen"} ->
            {ArtifactReEvaluated("Quarantined"), ArtifactReEvaluated("Released"),
             Plain("ArtifactQuarantined"), ArtifactReleased("PolicyReEvaluation")}
      [] op = "verify" -> {Plain("ProvenanceVerified"), Plain("ProvenanceRejected"),
                           ArtifactRejected("Provenance")}
      [] op = "scrub" -> {Plain("ArtifactCorrupted"), ArtifactRejected("Corruption")}
      [] op = "tighten" -> {ArtifactReEvaluated("Rejected"), ArtifactRejected("ScanPolicyRetroactive")}
      [] op = "retroCuration" -> {ArtifactRejected("CurationRetroactive")}
      [] op \in {"cascade", "cascadeRetry"} -> {Plain("ProvenanceVerified")}
      [] OTHER -> {}

LEMMA BatchWrites ==
    ASSUME NEW op, NEW row, NEW b \in Seq(Events), NEW to, NEW ev, NEW pol,
           Form(op, row, b, to, ev, pol), NEW k \in 1..Len(b)
    PROVE  b[k] \in Writes(op)
<1>1. CASE op = "scan"
  <2>1. PICK found \in Findings, r \in {"Pass", "Fail"} :
        \/ b = ScanBatch(ev, found, r)
        \/ b = Append(ScanBatch(ev, found, r), ArtifactRejected("Scanner"))
        \/ b = Append(ScanBatch(ev, found, r), ArtifactReleased("Timer"))
    BY <1>1 DEF Form, ScanForm
  <2> DEFINE scan == ScanBatch(ev, found, r)
             W == {ScanCompleted(found), PolicyEvaluated(r), Plain("ArtifactBecameVulnerable")}
  <2>2. /\ scan \in Seq(Events) /\ Len(scan) \in Nat
        /\ Len(scan) = 2 \/ (Len(scan) = 3 /\ scan[2] = Plain("ArtifactBecameVulnerable"))
        /\ scan[1] = ScanCompleted(found) /\ scan[Len(scan)] = PolicyEvaluated(r)
    BY ScanBatchIs
  <2> HIDE DEF scan
  <2>3. \A j \in 1..Len(scan) : j = 1 \/ j = Len(scan) \/ (j = 2 /\ Len(scan) = 3) BY <2>2
  <2>4. \A j \in 1..Len(scan) : scan[j] \in W BY <2>2, <2>3
  <2>5. W \cup {ArtifactRejected("Scanner"), ArtifactReleased("Timer")} \subseteq Writes(op)
    BY <1>1 DEF Writes
  <2> HIDE DEF W
  <2>6. CASE b = scan BY <2>4, <2>5, <2>6
  <2>7. ASSUME NEW e \in {ArtifactRejected("Scanner"), ArtifactReleased("Timer")}, b = Append(scan, e)
        PROVE  b[k] \in Writes(op)
    <3>1. k \in 1..Len(scan) \/ k = Len(scan) + 1 BY <2>2, <2>7
    <3>2. CASE k \in 1..Len(scan)
      <4>1. b[k] = scan[k] BY <2>2, <2>7, <3>2
      <4> QED BY <2>4, <2>5, <3>2, <4>1
    <3>3. CASE k = Len(scan) + 1
      <4>1. b[k] = e BY <2>2, <2>7, <3>3
      <4> QED BY <2>5, <4>1
    <3> QED BY <3>1, <3>2, <3>3
  <2> QED BY <2>1, <2>6, <2>7 DEF scan
<1>2. ASSUME NEW e \in Writes(op), b = <<e>> PROVE b[k] \in Writes(op) BY <1>2
<1>3. ASSUME NEW d \in Writes(op), NEW e \in Writes(op), b = <<d, e>> PROVE b[k] \in Writes(op)
  <2>1. Len(b) = 2 /\ b[1] = d /\ b[2] = e BY <1>3
  <2>2. k = 1 \/ k = 2 BY <2>1
  <2> QED BY <2>1, <2>2
<1>4. CASE op \in {"sweep", "indeterminate", "waive", "block"} BY <1>2, <1>4 DEF Form, Writes
<1>5. CASE op \in {"reevaluate", "loosen"}
  <2>1. PICK announced \in {"Quarantined", "Released"} :
           b = <<ArtifactReEvaluated(announced), ReEvaluationCompanion(to)>>
    BY <1>5 DEF Form, ReEvaluationForm
  <2>2. ArtifactReEvaluated(announced) \in Writes(op) BY <1>5 DEF Writes
  <2>3. ReEvaluationCompanion(to) \in Writes(op) BY <1>5 DEF Writes, ReEvaluationCompanion
  <2> QED BY <1>3, <2>1, <2>2, <2>3
<1>6. CASE op \in {"scrub", "tighten", "retroCuration", "cascade", "cascadeRetry"}
  BY <1>2, <1>3, <1>6 DEF Form, Writes
<1>7. CASE op = "verify" BY <1>2, <1>3, <1>7 DEF Form, Writes
<1> QED BY <1>1, <1>4, <1>5, <1>6, <1>7 DEF Form

(* A release by re-evaluation follows its own audit event only, which      *)
(* takes no clearance away.                                                *)
LEMMA ReEvaluationForms ==
    ASSUME NEW s \in Seq(Events), NEW op, op # "loosen", NEW row, NEW b \in Seq(Events), NEW to,
           NEW pol, Form(op, row, b, to, Evidence(s), pol),
           NEW k \in 1..Len(b), b[k] = ArtifactReleased("PolicyReEvaluation")
    PROVE  ProvenanceClears(ProvenanceVerifiedOn(s \o SubSeq(b, 1, k - 1)), pol)
<1>1. b[k].type = "ArtifactReleased" /\ b[k].arg = "PolicyReEvaluation" BY EventFields
<1>2. op = "reevaluate"
  <2>1. b[k] \in Writes(op) BY BatchWrites
  <2> QED BY <1>1, <2>1, EventFields DEF Writes
<1>3. /\ to \in {"Quarantined", "Released"}
      /\ b = <<ArtifactReEvaluated(to), ReEvaluationCompanion(to)>>
      /\ to = "Released" => ProvenanceClears(Evidence(s).verified, pol)
  BY <1>2 DEF Form, ReEvaluationForm, MayReEvaluate
<1>4. to = "Released"
  <2>1. b[k] = ArtifactReEvaluated(to) \/ b[k] = ReEvaluationCompanion(to) BY <1>3
  <2> QED BY <1>1, <1>3, <2>1, EventFields, CompanionFields
<1> DEFINE c == SubSeq(b, 1, k - 1)
<1>5. c \in Seq(Events)
  <2>1. k - 1 \in 0..Len(b) OBVIOUS
  <2> QED BY <2>1, PrefixOf
<1> HIDE DEF c
<1>6. ProvenanceVerifiedOn(s) => ProvenanceVerifiedOn(s \o c) BY <1>5, ClearanceAppended
<1>7. ProvenanceClears(ProvenanceVerifiedOn(s), pol) BY <1>3, <1>4, EvidenceFields
<1>8. ProvenanceClears(ProvenanceVerifiedOn(s \o c), pol)
  BY <1>6, <1>7 DEF ProvenanceClears
<1> QED BY <1>8 DEF c

(* Every release by a curator's re-evaluation had its provenance cleared   *)
(* on the stream before it, when no loosen pass runs.                      *)
THEOREM ReEvaluationIsJustified ==
    ASSUME "loosen" \notin Ops
    PROVE  Spec => []ReEvaluationReleasesJustified
<1>1. Init => ReEvaluationReleasesJustified
  <2> SUFFICES ASSUME Init, NEW i \in 1..Len(stream),
                      stream[i] = ArtifactReleased("PolicyReEvaluation")
               PROVE  FALSE
      BY DEF ReEvaluationReleasesJustified
  <2>1. stream[i] \in {Plain("ArtifactIngested"), Plain("ArtifactQuarantined")} BY DEF Init
  <2>2. stream[i].type \in {"ArtifactIngested", "ArtifactQuarantined"} BY <2>1, EventFields
  <2> QED BY <2>2, EventFields
<1>2. PlanInv /\ OpsRunning /\ ReEvaluationReleasesJustified /\ [Next]_vars
        => ReEvaluationReleasesJustified'
  <2> SUFFICES ASSUME PlanInv, OpsRunning, ReEvaluationReleasesJustified, [Next]_vars
               PROVE  ReEvaluationReleasesJustified'
      OBVIOUS
  <2>0. InForce' = InForce BY ForcedPolicies DEF PlanInv, ReadInv, TypeInv
  <2>1. ASSUME NEW p \in Procs, Commit(p), NEW i \in 1..Len(stream'),
               stream'[i] = ArtifactReleased("PolicyReEvaluation")
        PROVE  \E pol \in InForce :
                  ProvenanceClears(ProvenanceVerifiedOn(SubSeq(stream', 1, i - 1)), pol)
    <3> DEFINE t == task[p]
    <3>1. /\ stream \in Seq(Events) /\ t.batch \in Seq(Events) /\ stream' = stream \o t.batch
      BY <2>1, CommitForm
    <3>2. PICK pol \in InForce : Form(t.op, t.row, t.batch, t.to, Evidence(stream), pol)
      BY <2>1, CommitForm
    <3>3. t.op # "loosen" BY DEF OpsRunning
    <3> HIDE DEF t
    <3>4. CASE /\ i \in 1..Len(stream) /\ stream'[i] = stream[i]
               /\ SubSeq(stream', 1, i - 1) = SubSeq(stream, 1, i - 1)
      <4>1. \E q \in InForce : ProvenanceClears(ProvenanceVerifiedOn(SubSeq(stream, 1, i - 1)), q)
        BY <2>1, <3>4 DEF ReEvaluationReleasesJustified
      <4> QED BY <3>4, <4>1
    <3>5. CASE \E k \in 1..Len(t.batch) :
                  /\ i = Len(stream) + k /\ stream'[i] = t.batch[k]
                  /\ SubSeq(stream', 1, i - 1) = stream \o SubSeq(t.batch, 1, k - 1)
      BY <2>1, <3>1, <3>2, <3>3, <3>5, ReEvaluationForms
    <3>6. \/ /\ i \in 1..Len(stream) /\ stream'[i] = stream[i]
             /\ SubSeq(stream', 1, i - 1) = SubSeq(stream, 1, i - 1)
          \/ \E k \in 1..Len(t.batch) :
                /\ i = Len(stream) + k /\ stream'[i] = t.batch[k]
                /\ SubSeq(stream', 1, i - 1) = stream \o SubSeq(t.batch, 1, k - 1)
      <4> DEFINE b == t.batch
                 sb == stream \o b
      <4>1. b \in Seq(Events) /\ i \in 1..Len(sb) BY <2>1, <3>1
      <4> HIDE DEF b
      <4>2. \/ /\ i \in 1..Len(stream) /\ sb[i] = stream[i]
               /\ SubSeq(sb, 1, i - 1) = SubSeq(stream, 1, i - 1)
            \/ \E k \in 1..Len(b) :
                  /\ i = Len(stream) + k /\ sb[i] = b[k]
                  /\ SubSeq(sb, 1, i - 1) = stream \o SubSeq(b, 1, k - 1)
        BY <3>1, <4>1, PositionsAppended
      <4>3. stream' = sb BY <3>1 DEF b
      <4> HIDE DEF sb
      <4> QED BY <4>2, <4>3 DEF b
    <3> QED BY <3>4, <3>5, <3>6
  <2>2. ASSUME NEW p \in Procs, Commit(p) PROVE ReEvaluationReleasesJustified'
    BY <2>0, <2>1, <2>2 DEF ReEvaluationReleasesJustified
  <2>3. CASE \A p \in Procs : ~Commit(p)
    <3>1. stream' = stream BY <2>3, OnlyCommitAppends
    <3> QED BY <2>0, <3>1 DEF ReEvaluationReleasesJustified
  <2> QED BY <2>2, <2>3
<1> QED BY <1>1, <1>2, OpsAlways, PTL DEF Spec

-----------------------------------------------------------------------------
(* Clearances are recorded once. *)

LEMMA ClearanceForms ==
    ASSUME NEW s \in Seq(Events), NEW op, NEW row, NEW b \in Seq(Events), NEW to, NEW pol,
           Form(op, row, b, to, Evidence(s), pol), pol.provenance = "Required",
           NEW k \in 1..Len(b), b[k].type = "ProvenanceVerified"
    PROVE  ~ProvenanceVerifiedOn(s) /\ Len(b) = 1
<1>1. op \in {"verify", "cascade", "cascadeRetry"}
  <2>1. b[k] \in Writes(op) BY BatchWrites
  <2> QED BY <2>1, EventFields DEF Writes
<1>2. Evidence(s).verified = ProvenanceVerifiedOn(s) BY EvidenceFields
<1>3. ~(b = <<Plain("ProvenanceRejected"), ArtifactRejected("Provenance")>>)
  <2> SUFFICES ASSUME b = <<Plain("ProvenanceRejected"), ArtifactRejected("Provenance")>>
               PROVE  FALSE
      OBVIOUS
  <2>1. b[k] = Plain("ProvenanceRejected") \/ b[k] = ArtifactRejected("Provenance") OBVIOUS
  <2> QED BY <2>1, EventFields
<1>4. ~Evidence(s).verified /\ b = <<Plain("ProvenanceVerified")>>
  BY <1>1, <1>3 DEF Form
<1> QED BY <1>2, <1>4

(* Under Required provenance a clearance is recorded once, however many    *)
(* verifications, cascades and retried cascades race for it: whoever       *)
(* decided on the whole stream saw the clearance that is on it.            *)
THEOREM ClearanceOnce == Spec => []ClearedOnce
<1> DEFINE V == "ProvenanceVerified"
           AllRequired == \A pol \in InForce : pol.provenance = "Required"
<1>1. Init => ClearedOnce
  <2> SUFFICES ASSUME Init PROVE ClearedOnce OBVIOUS
  <2>1. \A i \in 1..Len(stream) :
           stream[i] \in {Plain("ArtifactIngested"), Plain("ArtifactQuarantined")}
    BY DEF Init
  <2>2. Positions(stream, V) = {} BY <2>1, EventFields DEF Positions
  <2> QED BY <2>2, FS_EmptySet DEF ClearedOnce
<1>2. PlanInv /\ ClearedOnce /\ [Next]_vars => ClearedOnce'
  <2> SUFFICES ASSUME PlanInv, ClearedOnce, [Next]_vars, AllRequired'
               PROVE  Cardinality(Positions(stream', V)) <= 1
      BY DEF ClearedOnce
  <2>0. InForce' = InForce BY ForcedPolicies DEF PlanInv, ReadInv, TypeInv
  <2>1. AllRequired BY <2>0
  <2>2. Cardinality(Positions(stream, V)) <= 1 BY <2>1 DEF ClearedOnce
  <2>3. ASSUME NEW p \in Procs, Commit(p) PROVE Cardinality(Positions(stream', V)) <= 1
    <3> DEFINE t == task[p]
               b == t.batch
               s == stream
               sb == s \o b
    <3>1. s \in Seq(Events) /\ b \in Seq(Events) /\ stream' = sb BY <2>3, CommitForm
    <3>2. PICK pol \in InForce : Form(t.op, t.row, b, t.to, Evidence(stream), pol)
      BY <2>3, CommitForm
    <3>3. \A k \in 1..Len(b) : b[k].type = V => ~ProvenanceVerifiedOn(s) /\ Len(b) = 1
      BY <2>1, <3>1, <3>2, ClearanceForms
    <3> HIDE DEF t, b, s
    <3>4. /\ Len(sb) = Len(s) + Len(b) /\ Len(s) \in Nat /\ Len(b) \in Nat
          /\ \A j \in 1..Len(s) : sb[j] = s[j]
          /\ \A k \in 1..Len(b) : sb[Len(s) + k] = b[k]
          /\ \A j \in 1..Len(sb) : j \notin 1..Len(s) => j - Len(s) \in 1..Len(b)
      BY <3>1, Appended
    <3> HIDE DEF sb
    <3>5. CASE \E k \in 1..Len(b) : b[k].type = V
      <4>1. ~ProvenanceVerifiedOn(s) /\ Len(b) = 1 /\ b[1].type = V BY <3>3, <3>5
      <4>2. \A j \in 1..Len(s) : s[j].type # V BY <4>1 DEF ProvenanceVerifiedOn
      <4>3. Positions(sb, V) = {Len(s) + 1}
        <5>1. \A j \in 1..Len(sb) : sb[j].type = V => j = Len(s) + 1 BY <3>4, <4>1, <4>2
        <5>2. Len(s) + 1 \in 1..Len(sb) /\ sb[Len(s) + 1].type = V BY <3>4, <4>1
        <5> QED BY <5>1, <5>2 DEF Positions
      <4>4. Cardinality({Len(s) + 1}) = 1 BY FS_Singleton
      <4>5. Cardinality(Positions(sb, V)) = 1 BY <4>3, <4>4
      <4> QED BY <3>1, <4>5
    <3>6. CASE \A k \in 1..Len(b) : b[k].type # V
      <4>1. Positions(sb, V) = Positions(s, V)
        <5>1. ASSUME NEW j \in 1..Len(sb), sb[j].type = V PROVE j \in 1..Len(s) /\ s[j].type = V
          <6>1. CASE j \in 1..Len(s) BY <3>4, <5>1, <6>1
          <6>2. CASE j \notin 1..Len(s)
            <7> DEFINE k == j - Len(s)
            <7>1. k \in 1..Len(b) /\ j = Len(s) + k BY <3>4, <6>2
            <7> HIDE DEF k
            <7> QED BY <3>4, <3>6, <5>1, <7>1
          <6> QED BY <6>1, <6>2
        <5>2. \A j \in 1..Len(s) : s[j].type = V => j \in 1..Len(sb) /\ sb[j].type = V BY <3>4
        <5> QED BY <5>1, <5>2 DEF Positions
      <4> QED BY <2>2, <3>1, <4>1 DEF s
    <3> QED BY <3>5, <3>6
  <2>4. CASE \A p \in Procs : ~Commit(p)
    BY <2>2, <2>4, OnlyCommitAppends
  <2> QED BY <2>3, <2>4
<1> QED BY <1>1, <1>2, PlansAlways, PTL DEF Spec

-----------------------------------------------------------------------------
(* A condemnation for corrupt bytes is final, when no pass rejects from a  *)
(* page, until a blob beyond the verifier's read limit is disproved.  It   *)
(* needs three facts at once: a condemned stream has a rejected row whose  *)
(* axis nobody may lift; the scrub condemns only bytes that are gone for   *)
(* good; and a verifier within its limit that still holds its version read *)
(* its bytes before they rotted.                                           *)

DisprovedAfter(s, i) ==
    Oversized /\ \E j \in (i + 1)..Len(s) : s[j] = ArtifactRejected("Provenance")

Condemned(s) ==
    \E i \in 1..Len(s) : s[i] = ArtifactRejected("Corruption") /\ ~DisprovedAfter(s, i)

CondemnedRow ==
    Condemned(stream) => /\ ~blobOk
                         /\ status = "Rejected"
                         /\ LastRejectionReason(stream) = "Corruption"

CallSpares(t, s, ok) ==
    /\ t.pc = "decided" /\ t.op = "scrub" => ~ok
    /\ t.pc = "decided" /\ t.op = "verify" /\ t.ver = Len(s) => Oversized \/ ~Condemned(s)

CallsSpare == \A p \in Procs : CallSpares(task[p], stream, blobOk)

CondemnedInv == CondemnedRow /\ CallsSpare

(* Rotten bytes stay rotten. *)
LEMMA RotStays ==
    ASSUME [Next]_vars
    PROVE  blobOk' => blobOk
<1>1. CASE Tick \/ SetPolicy \/ SetCuration \/ BitRot \/ UNCHANGED vars
  BY <1>1 DEF Tick, SetPolicy, SetCuration, BitRot, vars
<1>2. ASSUME NEW p \in Procs, Step(p) PROVE blobOk' = blobOk
  BY <1>2 DEF Step, SelectExpired, ReadStream, DecideScan, DecideSweep, DecideIndeterminate,
              DecideWaive, DecideBlock, DecideReevaluate, DecideVerify, DecideScrub, ListPage,
              PairTighten, PairRetroCuration, PairCascade, PairLoosen, ReEvaluateRejected,
              Commit, Conflict, env
<1> QED BY <1>1, <1>2 DEF Next

(* A call that is not a decided scrub or verification spares everything. *)
LEMMA OthersSpare ==
    ASSUME NEW t, t.pc # "decided" \/ t.op \notin {"scrub", "verify"}
    PROVE  \A s, ok : CallSpares(t, s, ok)
  BY DEF CallSpares

LEMMA SparesStep == PlanInv /\ CondemnedInv /\ [Next]_vars => CallsSpare'
<1> SUFFICES ASSUME PlanInv, CondemnedInv, [Next]_vars PROVE CallsSpare' OBVIOUS
<1>0. /\ task \in [Procs -> Tasks] /\ stream \in Seq(Events) /\ status \in Statuses
      /\ \A p \in Procs : CallSpares(task[p], stream, blobOk)
      /\ \A p \in Procs : task[p].ver <= Len(stream) /\ task[p].ver \in Nat
      /\ TypeInv
  BY DEF PlanInv, ReadInv, TypeInv, TypeOK, CondemnedInv, CallsSpare, CallsOK, CallOK, Tasks
<1>1. blobOk' => blobOk BY RotStays
<1>2. CASE Tick \/ SetPolicy \/ SetCuration \/ BitRot \/ UNCHANGED vars
  <2>1. task' = task /\ stream' = stream
    BY <1>2 DEF Tick, SetPolicy, SetCuration, BitRot, vars
  <2> QED BY <1>0, <1>1, <2>1 DEF CallsSpare, CallSpares
<1>3. ASSUME NEW p \in Procs, NEW u, task' = [task EXCEPT ![p] = u], stream' = stream,
             CallSpares(u, stream, blobOk)
      PROVE  CallsSpare'
  <2>1. \A q \in Procs : CallSpares(task'[q], stream, blobOk) BY <1>0, <1>3
  <2> QED BY <1>1, <1>3, <2>1 DEF CallsSpare, CallSpares
<1>4. ASSUME NEW p \in Procs, NEW t \in Tasks, NEW plan, Decide(p, t, plan), stream' = stream,
             \/ t.op \notin {"scrub", "verify"}
             \/ t.op = "scrub" /\ ~blobOk
             \/ t.op = "verify" /\ (plan.batch = << >> \/ blobOk \/ Oversized)
      PROVE  CallsSpare'
  <2> DEFINE d == [t EXCEPT !.pc = "decided", !.batch = plan.batch, !.to = plan.to]
             u == IF plan.batch = << >> THEN Idle ELSE d
  <2>1. task' = [task EXCEPT ![p] = u] BY <1>4 DEF Decide
  <2>2. d.op = t.op BY <1>4 DEF Tasks
  <2>3. blobOk => ~Condemned(stream) BY DEF CondemnedInv, CondemnedRow
  <2>4. CallSpares(Idle, stream, blobOk) BY DEF CallSpares, Idle
  <2> HIDE DEF d
  <2>5. plan.batch # << >> => CallSpares(d, stream, blobOk) BY <1>4, <2>2, <2>3 DEF CallSpares
  <2>6. CallSpares(u, stream, blobOk) BY <2>4, <2>5
  <2> HIDE DEF u
  <2> QED BY <1>3, <1>4, <2>1, <2>6
<1>5. ASSUME NEW p \in Procs
      PROVE  /\ LoadRow(p) \in Tasks /\ LoadRow(p).op = task[p].op
             /\ Paired(p) \in Tasks /\ Paired(p).op = task[p].op
             /\ task[p] \in Tasks
  <2>1. LoadRow(p) \in Tasks /\ Paired(p) \in Tasks /\ task[p] \in Tasks
    BY <1>0, LoadRowType, PairedType
  <2> QED BY <2>1 DEF LoadRow, Paired, Tasks
<1>6. ASSUME NEW p \in Procs,
             \/ \E found \in Findings : DecideScan(p, found)
             \/ DecideSweep(p) \/ DecideIndeterminate(p) \/ DecideWaive(p) \/ DecideBlock(p)
             \/ \E readable \in BOOLEAN : DecideReevaluate(p, readable)
      PROVE  CallsSpare'
  <2>1. /\ \E plan : Decide(p, LoadRow(p), plan)
        /\ stream' = stream /\ task[p].op \notin {"scrub", "verify"}
    BY <1>6 DEF DecideScan, DecideSweep, DecideIndeterminate, DecideWaive, DecideBlock,
                DecideReevaluate
  <2> QED BY <1>4, <1>5, <2>1
<1>7. ASSUME NEW p \in Procs,
             \/ \E readable \in BOOLEAN : PairTighten(p, readable)
             \/ PairRetroCuration(p) \/ PairCascade(p)
      PROVE  CallsSpare'
  <2>1. /\ \E plan : Decide(p, Paired(p), plan)
        /\ stream' = stream /\ task[p].op \notin {"scrub", "verify"}
    BY <1>7 DEF PairTighten, PairRetroCuration, PairCascade
  <2> QED BY <1>4, <1>5, <2>1
<1>8. ASSUME NEW p \in Procs, ReEvaluateRejected(p) PROVE CallsSpare'
  <2>1. task[p].op = "loosen" BY <1>8 DEF ReEvaluateRejected, PlanInv, ReadInv, CallsOK, CallOK
  <2>2. (\E plan : Decide(p, task[p], plan)) /\ stream' = stream BY <1>8 DEF ReEvaluateRejected
  <2> QED BY <1>4, <1>5, <2>1, <2>2
<1>9. ASSUME NEW p \in Procs, NEW outcome, DecideVerify(p, outcome) PROVE CallsSpare'
  <2> DEFINE t == LoadRow(p)
             plan == IF OverCap(t.ver) /\ policy.provenance = "Required" THEN NoPlan(t.row)
                     ELSE VerifyPlan(t.row, EvidenceAt(t.ver), outcome, policy)
  <2>1. /\ Decide(p, t, plan) /\ stream' = stream /\ task[p].op = "verify"
        /\ ~blobOk /\ ~Oversized => outcome = "Indeterminate"
    BY <1>9 DEF DecideVerify, MayYield
  <2>2. t \in Tasks /\ t.op = "verify" BY <1>5, <2>1
  <2>3. outcome = "Indeterminate" => plan.batch = << >>
    BY DEF VerifyPlan, NoPlan, Plan
  <2> HIDE DEF t, plan
  <2> QED BY <1>4, <2>1, <2>2, <2>3
<1>10. ASSUME NEW p \in Procs, DecideScrub(p) PROVE CallsSpare'
  <2> DEFINE t == [Idle EXCEPT !.op = "scrub", !.row = status]
  <2>1. t \in Tasks /\ t.op = "scrub" BY <1>0, IdleType DEF Tasks, AllOps
  <2>2. Decide(p, t, TombstonePlan(t.row)) /\ stream' = stream /\ ~blobOk
    BY <1>10 DEF DecideScrub
  <2> HIDE DEF t
  <2> QED BY <1>4, <2>1, <2>2
<1>11. ASSUME NEW p \in Procs, SelectExpired(p) PROVE CallsSpare'
  <2>1. CallSpares([Idle EXCEPT !.pc = "picked", !.op = "sweep"], stream, blobOk)
    BY OthersSpare DEF Idle
  <2> QED BY <1>3, <1>11, <2>1 DEF SelectExpired
<1>12. ASSUME NEW p \in Procs, NEW op, ReadStream(p, op) PROVE CallsSpare'
  <2> DEFINE u == [Idle EXCEPT !.pc = "read", !.op = op, !.ver = SeenVersion,
                               !.now = IF op = "scan" THEN clock ELSE 0]
  <2>1. u.pc = "read" BY DEF Idle
  <2>2. task' = [task EXCEPT ![p] = u] /\ stream' = stream BY <1>12 DEF ReadStream
  <2> HIDE DEF u
  <2>3. CallSpares(u, stream, blobOk) BY <2>1, OthersSpare
  <2> QED BY <1>3, <2>2, <2>3
<1>13. ASSUME NEW p \in Procs, NEW op, ListPage(p, op) PROVE CallsSpare'
  <2> DEFINE u == [Idle EXCEPT !.pc = "picked", !.op = op, !.row = status,
                               !.pol = policy, !.now = clock]
  <2>1. u.pc = "picked" BY DEF Idle
  <2>2. task' = [task EXCEPT ![p] = u] /\ stream' = stream BY <1>13 DEF ListPage
  <2> HIDE DEF u
  <2>3. CallSpares(u, stream, blobOk) BY <2>1, OthersSpare
  <2> QED BY <1>3, <2>2, <2>3
<1>14. ASSUME NEW p \in Procs, NEW readable \in BOOLEAN, PairLoosen(p, readable) PROVE CallsSpare'
  <2> DEFINE t == Paired(p)
             to == RejectedOutcome(EvidenceAt(t.ver), anchored, t.pol, t.now, readable)
             may == ~OverCap(t.ver) /\ MayReEvaluate(t.row, EvidenceAt(t.ver), to, t.pol, curationBlock)
             u == IF may THEN [t EXCEPT !.pc = "derived", !.to = to] ELSE Idle
  <2>1. task' = [task EXCEPT ![p] = u] /\ stream' = stream BY <1>14 DEF PairLoosen
  <2>2. t \in Tasks BY <1>5
  <2> HIDE DEF t, to, may
  <2>3. u.pc # "decided" BY <2>2 DEF Idle, Tasks
  <2> HIDE DEF u
  <2>4. CallSpares(u, stream, blobOk) BY <2>3, OthersSpare
  <2> QED BY <1>3, <2>1, <2>4
<1>15. ASSUME NEW p \in Procs, Commit(p) PROVE CallsSpare'
  <2>1. task' = [task EXCEPT ![p] = Idle] /\ stream' = stream \o task[p].batch /\ blobOk' = blobOk
    BY <1>15 DEF Commit, env
  <2>2. task[p].batch \in Seq(Events) /\ task[p].batch # << >>
    BY <1>15 DEF Commit, PlanInv, ReadInv, TypeInv, TypeOK, Tasks, CallsOK, CallOK
  <2>3. Len(stream') > Len(stream) BY <1>0, <2>1, <2>2
  <2>4. ASSUME NEW q \in Procs PROVE CallSpares(task'[q], stream', blobOk')
    <3>1. CASE q = p
      <4>1. task'[q] = Idle BY <1>0, <2>1, <3>1
      <4> QED BY <4>1, OthersSpare DEF Idle
    <3>2. CASE q # p
      <4>1. task'[q] = task[q] /\ task[q].ver < Len(stream') BY <1>0, <2>1, <2>3, <3>2
      <4> QED BY <1>0, <2>1, <4>1 DEF CallSpares
    <3> QED BY <3>1, <3>2
  <2> QED BY <2>4 DEF CallsSpare
<1>16. ASSUME NEW p \in Procs, Conflict(p) PROVE CallsSpare'
  <2> DEFINE retry == [task[p] EXCEPT !.pc = "picked", !.op = "cascadeRetry", !.ver = 0,
                                      !.batch = << >>, !.to = "None"]
             u == IF task[p].op = "cascade" THEN retry ELSE Idle
  <2>1. task' = [task EXCEPT ![p] = u] /\ stream' = stream BY <1>16 DEF Conflict
  <2>2. u.pc # "decided" BY <1>5 DEF Idle, Tasks
  <2> HIDE DEF u
  <2>3. CallSpares(u, stream, blobOk) BY <2>2, OthersSpare
  <2> QED BY <1>3, <2>1, <2>3
<1>17. ASSUME NEW p \in Procs, Step(p) PROVE CallsSpare'
  BY <1>6, <1>7, <1>8, <1>9, <1>10, <1>11, <1>12, <1>13, <1>14, <1>15, <1>16, <1>17 DEF Step
<1> QED BY <1>2, <1>17 DEF Next

(* On a condemned artifact only the scrub and records without a status go  *)
(* through, the two page-rejecting passes and the verifier aside.          *)
LEMMA CondemnedForms ==
    ASSUME NEW op, op \notin {"tighten", "retroCuration", "verify", "scrub"},
           NEW row, op \in LoadOps => row = "Rejected",
           NEW b \in Seq(Events), NEW to, NEW ev, ev.reason = "Corruption", NEW pol,
           Form(op, row, b, to, ev, pol)
    PROVE  Silent(b) /\ to = row /\ op \in VerdictOps
<1>1. CASE op = "scan"
  <2>1. row = "Rejected" BY <1>1 DEF LoadOps
  <2>2. ~CanRejectFromScan(row, ev.origin) BY <2>1 DEF CanRejectFromScan, AllowedFrom
  <2>3. ScanForm(row, b, to, ev, pol) BY <1>1 DEF Form
  <2>4. PICK found \in Findings, r \in {"Pass", "Fail"} : b = ScanBatch(ev, found, r) /\ to = row
    BY <2>1, <2>2, <2>3 DEF ScanForm
  <2>5. \A k \in 1..Len(b) :
           b[k].type \in {"ScanCompleted", "ArtifactBecameVulnerable", "PolicyEvaluated"}
    BY <2>4, ScanBatchTypes
  <2> QED BY <1>1, <2>4, <2>5 DEF Silent, StatusEvents, VerdictOps
<1>2. CASE op \in {"sweep", "indeterminate", "waive", "block"}
  <2>1. row = "Rejected" BY <1>2 DEF LoadOps
  <2>2. /\ row \notin AllowedFrom.FailScanIndeterminate /\ row \notin AllowedFrom.BlockByCurator
        /\ ~CanWaive(row, ev.reason)
        /\ ~CanReleaseByTimer(row, ev.standing, ev.verified, pol)
    BY <2>1 DEF AllowedFrom, CanWaive, IsCuratorOverridable, CanReleaseByTimer
  <2> QED BY <1>2, <2>2 DEF Form
<1>3. CASE op \in {"reevaluate", "loosen"}
  <2>1. ~IsScanClearable(ev.reason) BY DEF IsScanClearable
  <2> QED BY <1>3, <2>1 DEF Form, ReEvaluationForm, MayReEvaluate
<1>4. CASE op \in {"cascade", "cascadeRetry"}
  <2>1. b = <<Plain("ProvenanceVerified")>> /\ to = row BY <1>4 DEF Form
  <2> QED BY <1>4, <2>1, EventFields DEF Silent, StatusEvents, VerdictOps
<1> QED BY <1>1, <1>2, <1>3, <1>4 DEF Form

(* A batch without a rejection keeps the axis of the stream. *)
LEMMA SilentReason ==
    ASSUME NEW s \in Seq(Events), NEW b \in Seq(Events), Silent(b)
    PROVE  LastRejectionReason(s \o b) = LastRejectionReason(s)
<1>1. Latest(b, "ArtifactRejected") = 0
  <2>1. Len(b) \in Nat /\ 0 \in 0..Len(b) OBVIOUS
  <2>2. \A j \in 1..Len(b) : b[j].type # "ArtifactRejected" BY DEF Silent, StatusEvents
  <2> QED BY <2>1, <2>2, LatestIs
<1> QED BY <1>1, LatestArgAppended DEF LastRejectionReason

(* The tombstone names its own axis. *)
LEMMA TombstoneReason ==
    ASSUME NEW s \in Seq(Events), NEW b \in Seq(Events),
           b = <<Plain("ArtifactCorrupted"), ArtifactRejected("Corruption")>>
    PROVE  LastRejectionReason(s \o b) = "Corruption"
<1>1. Len(b) = 2 /\ b[1] = Plain("ArtifactCorrupted") /\ b[2] = ArtifactRejected("Corruption")
  OBVIOUS
<1>2. b[2].type = "ArtifactRejected" /\ b[2].arg = "Corruption" BY <1>1, EventFields
<1>3. Latest(b, "ArtifactRejected") = 2
  <2>1. 2 \in 0..Len(b) /\ (\A j \in 1..Len(b) : j <= 2) BY <1>1
  <2> QED BY <1>2, <2>1, LatestIs
<1>4. ASSUME NEW c \in Seq(Events), Latest(c, "ArtifactRejected") = 2
      PROVE  LastRejectionReason(s \o c) = c[2].arg
  BY <1>4, LatestArgAppended DEF LastRejectionReason
<1> QED BY <1>2, <1>3, <1>4

LEMMA CondemnedStep ==
    ASSUME Ops \cap {"tighten", "retroCuration"} = {}
    PROVE  PlanInv /\ OpsRunning /\ CondemnedInv /\ [Next]_vars => CondemnedRow'
<1> SUFFICES ASSUME PlanInv, OpsRunning, CondemnedInv, [Next]_vars, Condemned(stream')
             PROVE  /\ ~blobOk' /\ status' = "Rejected"
                    /\ LastRejectionReason(stream') = "Corruption"
    BY DEF CondemnedRow
<1>0. /\ Condemned(stream) => /\ ~blobOk /\ status = "Rejected"
                              /\ LastRejectionReason(stream) = "Corruption"
      /\ blobOk' => blobOk
  BY RotStays DEF CondemnedInv, CondemnedRow
<1>1. ASSUME NEW p \in Procs, Commit(p)
      PROVE  /\ ~blobOk /\ status' = "Rejected"
             /\ LastRejectionReason(stream') = "Corruption"
  <2> DEFINE t == task[p]
             b == t.batch
             s == stream
  <2>1. /\ s \in Seq(Events) /\ b \in Seq(Events) /\ stream' = s \o b
        /\ status' = WrittenStatus(t)
        /\ t.op \in LoadOps => t.row = status
    BY <1>1, CommitForm
  <2>2. PICK pol \in InForce : Form(t.op, t.row, b, t.to, Evidence(stream), pol)
    BY <1>1, CommitForm
  <2>3. t.op \notin {"tighten", "retroCuration"} BY DEF OpsRunning
  <2>4. /\ t.op = "scrub" => ~blobOk
        /\ t.op = "verify" => Oversized \/ ~Condemned(stream)
    BY <1>1 DEF Commit, VersionHolds, CondemnedInv, CallsSpare, CallSpares
  <2>5. CASE t.op = "scrub"
    <3>1. /\ b = <<Plain("ArtifactCorrupted"), ArtifactRejected("Corruption")>>
          /\ t.to = "Rejected"
      BY <2>2, <2>5 DEF Form
    <3>2. status' = "Rejected" BY <2>1, <2>5, <3>1 DEF WrittenStatus, VerdictOps
    <3>3. LastRejectionReason(stream') = "Corruption" BY <2>1, <3>1, TombstoneReason
    <3> QED BY <2>4, <2>5, <3>2, <3>3
  <2>6. CASE t.op # "scrub"
    <3>1. PICK i \in 1..Len(stream') :
            stream'[i] = ArtifactRejected("Corruption") /\ ~DisprovedAfter(stream', i)
      BY DEF Condemned
    <3>2. ASSUME NEW k \in 1..Len(b) PROVE b[k] # ArtifactRejected("Corruption")
      <4>1. b[k] \in Writes(t.op) BY <2>1, <2>2, BatchWrites
      <4> QED BY <2>6, <4>1, EventFields DEF Writes
    <3> HIDE DEF t, b, s
    <3>3. /\ Len(s) \in Nat /\ Len(b) \in Nat /\ Len(stream') = Len(s) + Len(b)
          /\ \A j \in 1..Len(s) : stream'[j] = s[j]
          /\ \A k \in 1..Len(b) : stream'[Len(s) + k] = b[k]
          /\ \A j \in 1..Len(stream') : j \notin 1..Len(s) => j - Len(s) \in 1..Len(b)
      BY <2>1, Appended
    <3>4. i \in 1..Len(s)
      <4> SUFFICES ASSUME i \notin 1..Len(s) PROVE FALSE OBVIOUS
      <4> DEFINE k == i - Len(s)
      <4>1. k \in 1..Len(b) /\ i = Len(s) + k BY <3>3
      <4> HIDE DEF k
      <4>2. stream'[i] = b[k] BY <3>3, <4>1
      <4> QED BY <3>1, <3>2, <4>1, <4>2
    <3>5. Condemned(stream)
      <4>1. s[i] = ArtifactRejected("Corruption") BY <3>1, <3>3, <3>4
      <4>2. ~DisprovedAfter(s, i)
        <5>1. ASSUME NEW j \in (i + 1)..Len(s) PROVE j \in (i + 1)..Len(stream') /\ stream'[j] = s[j]
          BY <3>3, <3>4
        <5> QED BY <3>1, <5>1 DEF DisprovedAfter
      <4> QED BY <3>4, <4>1, <4>2 DEF Condemned, s
    <3>6. Silent(b) /\ t.to = t.row /\ t.op \in VerdictOps
      <4>1. Evidence(stream).reason = "Corruption" BY <1>0, <3>5 DEF Evidence
      <4>2. CASE t.op # "verify"
        BY <1>0, <2>1, <2>2, <2>3, <2>6, <3>5, <4>1, <4>2, CondemnedForms
      <4>3. CASE t.op = "verify" /\ b = <<Plain("ProvenanceVerified")>> /\ t.to = t.row
        BY <4>3, EventFields DEF Silent, StatusEvents, VerdictOps
      <4>4. CASE /\ t.op = "verify" /\ t.to = "Rejected"
                 /\ b = <<Plain("ProvenanceRejected"), ArtifactRejected("Provenance")>>
        <5>1. Oversized BY <2>4, <3>5, <4>4
        <5>2. Len(b) = 2 /\ b[2] = ArtifactRejected("Provenance") BY <4>4
        <5>3. /\ Len(s) + 2 \in (i + 1)..Len(stream')
              /\ stream'[Len(s) + 2] = ArtifactRejected("Provenance")
          BY <3>3, <3>4, <5>2
        <5> QED BY <3>1, <5>1, <5>3 DEF DisprovedAfter
      <4>5. t.op = "verify" => \/ b = <<Plain("ProvenanceVerified")>> /\ t.to = t.row
                               \/ /\ t.to = "Rejected"
                                  /\ b = <<Plain("ProvenanceRejected"), ArtifactRejected("Provenance")>>
        BY <2>2 DEF Form
      <4> QED BY <4>2, <4>3, <4>4, <4>5
    <3>7. status' = status BY <2>1, <3>6 DEF WrittenStatus
    <3>8. LastRejectionReason(stream') = LastRejectionReason(stream) BY <2>1, <3>6, SilentReason DEF s
    <3> QED BY <1>0, <3>5, <3>7, <3>8
  <2> QED BY <2>5, <2>6
<1>2. CASE \A p \in Procs : ~Commit(p)
  <2>1. stream' = stream /\ status' = status BY <1>2, OnlyCommitAppends, OnlyCommitWrites
  <2> QED BY <1>0, <2>1
<1> QED BY <1>0, <1>1, <1>2

LEMMA CondemnedInit == Init => CondemnedInv
<1> SUFFICES ASSUME Init PROVE CondemnedInv OBVIOUS
<1>1. \A i \in 1..Len(stream) :
         stream[i] \in {Plain("ArtifactIngested"), Plain("ArtifactQuarantined")}
  BY DEF Init
<1>2. \A i \in 1..Len(stream) : stream[i].type \in {"ArtifactIngested", "ArtifactQuarantined"}
  BY <1>1, EventFields
<1>3. ~Condemned(stream) BY <1>2, EventFields DEF Condemned
<1>4. \A p \in Procs : task[p].pc = "idle" BY DEF Init, Idle
<1> QED BY <1>3, <1>4, OthersSpare DEF CondemnedInv, CondemnedRow, CallsSpare

(* An artifact condemned for corrupt bytes stays rejected, and on the      *)
(* corruption axis, however many scans, waives, blocks, re-evaluations,    *)
(* verifications, cascades and loosen passes race the tombstone, although  *)
(* its append carries no expected version; of a blob beyond read_bounded's *)
(* limit this holds until a verification disproves its provenance.  The    *)
(* two passes that reject from a page (tighten, retroactive curation) are  *)
(* excluded: a page older than the tombstone re-labels it with an axis a   *)
(* waive may lift.                                                         *)
THEOREM CorruptionStays ==
    ASSUME Ops \cap {"tighten", "retroCuration"} = {}
    PROVE  Spec => []CorruptionIsFinal
<1>1. PlanInv /\ OpsRunning /\ CondemnedInv /\ [Next]_vars => CondemnedInv'
  BY CondemnedStep, SparesStep DEF CondemnedInv
<1>2. CondemnedInv => CorruptionIsFinal
  BY DEF CondemnedInv, CondemnedRow, Condemned, DisprovedAfter, CorruptionIsFinal
<1> QED BY <1>1, <1>2, CondemnedInit, OpsAlways, PTL DEF Spec

-----------------------------------------------------------------------------
(* The lifecycle implements the sequential machine.  First, what one more  *)
(* event does to everything that is read off the stream.                   *)

LEMMA LatestOneMore ==
    ASSUME NEW s \in Seq(Events), NEW e \in Events, NEW type
    PROVE  Latest(Append(s, e), type) = IF e.type = type THEN Len(s) + 1 ELSE Latest(s, type)
<1> DEFINE a == Append(s, e)
           ls == Latest(s, type)
           i == IF e.type = type THEN Len(s) + 1 ELSE ls
<1>1. /\ a \in Seq(Events) /\ Len(a) = Len(s) + 1 /\ a[Len(s) + 1] = e /\ Len(s) \in Nat
      /\ \A k \in 1..Len(s) : a[k] = s[k]
  OBVIOUS
<1>2. /\ ls \in 0..Len(s)
      /\ ls > 0 => s[ls].type = type
      /\ \A j \in 1..Len(s) : s[j].type = type => j <= ls
  BY LatestFacts
<1> HIDE DEF a, ls
<1>3. i \in 0..Len(a) BY <1>1, <1>2
<1>4. i > 0 => a[i].type = type BY <1>1, <1>2
<1>5. \A j \in 1..Len(a) : j \in 1..Len(s) \/ j = Len(s) + 1 BY <1>1
<1>6. \A j \in 1..Len(a) : a[j].type = type => j <= i BY <1>1, <1>2, <1>5
<1> HIDE DEF i
<1>7. Latest(a, type) = i BY <1>1, <1>3, <1>4, <1>6, LatestIs
<1> QED BY <1>7 DEF a, i, ls

LEMMA LatestArgOneMore ==
    ASSUME NEW s \in Seq(Events), NEW e \in Events, NEW type, NEW default
    PROVE  LatestArg(Append(s, e), type, default)
              = IF e.type = type THEN e.arg ELSE LatestArg(s, type, default)
<1> DEFINE a == Append(s, e)
           ls == Latest(s, type)
<1>1. /\ a[Len(s) + 1] = e /\ Len(s) \in Nat
      /\ \A k \in 1..Len(s) : a[k] = s[k]
  OBVIOUS
<1>2. ls \in 0..Len(s) BY LatestFacts
<1>3. Latest(a, type) = IF e.type = type THEN Len(s) + 1 ELSE ls BY LatestOneMore
<1> HIDE DEF a, ls
<1>4. LatestArg(a, type, default)
         = IF e.type = type THEN e.arg ELSE IF ls = 0 THEN default ELSE s[ls].arg
  BY <1>1, <1>2, <1>3 DEF LatestArg
<1> QED BY <1>4 DEF a, ls, LatestArg

(* A stream has a scan exactly when the latest one has findings. *)
LEMMA ScannedHasFindings ==
    ASSUME NEW s \in Seq(Events)
    PROVE  Latest(s, "ScanCompleted") = 0 <=> LastScanCompleted(s) = NotScanned
<1> DEFINE n == Latest(s, "ScanCompleted")
<1>1. n \in 0..Len(s) /\ (n > 0 => s[n].type = "ScanCompleted") BY LatestFacts
<1> HIDE DEF n
<1>2. ASSUME NEW e \in Events, e.type = "ScanCompleted" PROVE e.arg \in Findings
  <2>1. \/ \E t \in {"ArtifactIngested", "ArtifactQuarantined", "ScanIndeterminate",
                     "ArtifactBecameVulnerable", "ProvenanceVerified",
                     "ProvenanceRejected", "ArtifactCorrupted"} : e = Plain(t)
        \/ \E f \in Findings : e = ScanCompleted(f)
        \/ \E x : \/ e = PolicyEvaluated(x) \/ e = ArtifactReleased(x)
                  \/ e = ArtifactRejected(x) \/ e = ArtifactReEvaluated(x)
    BY DEF Events
  <2> QED BY <1>2, <2>1, EventFields
<1>3. n # 0 => s[n] \in Events /\ s[n].type = "ScanCompleted" BY <1>1
<1>4. n # 0 => s[n].arg # NotScanned BY <1>2, <1>3 DEF Findings, NotScanned
<1>5. LastScanCompleted(s) = IF n = 0 THEN NotScanned ELSE s[n].arg
  BY DEF LastScanCompleted, LatestArg, n
<1> QED BY <1>4, <1>5 DEF n

(* An event other than a scan and its verdict leaves the standing alone; a *)
(* rejection supersedes it.                                                *)
LEMMA StandingOneMore ==
    ASSUME NEW s \in Seq(Events), NEW e \in Events,
           e.type \notin {"ScanCompleted", "PolicyEvaluated"}
    PROVE  LatestScanStanding(Append(s, e))
              = IF e.type = "ArtifactRejected"
                THEN IF LastScanCompleted(s) = NotScanned THEN "Unobserved" ELSE "Superseded"
                ELSE LatestScanStanding(s)
<1> DEFINE a == Append(s, e)
           n == Latest(s, "ScanCompleted")
           r == Latest(s, "ArtifactRejected")
           V == VerdictsAfter(s, n)
<1>1. /\ a \in Seq(Events) /\ Len(a) = Len(s) + 1 /\ a[Len(s) + 1] = e /\ Len(s) \in Nat
      /\ \A k \in 1..Len(s) : a[k] = s[k]
  OBVIOUS
<1>2. n \in 0..Len(s) /\ r \in 0..Len(s) BY LatestFacts
<1>3. Latest(a, "ScanCompleted") = n BY LatestOneMore
<1>4. Latest(a, "ArtifactRejected") = IF e.type = "ArtifactRejected" THEN Len(s) + 1 ELSE r
  BY LatestOneMore
<1>5. n = 0 <=> LastScanCompleted(s) = NotScanned BY ScannedHasFindings
<1> HIDE DEF a, n, r
<1>6. VerdictsAfter(a, n) = V
  <2>1. \A j \in 1..Len(a) : j \in 1..Len(s) \/ j = Len(s) + 1 BY <1>1
  <2>2. \A j : j \in Positions(a, "PolicyEvaluated") <=> j \in Positions(s, "PolicyEvaluated")
    BY <1>1, <2>1 DEF Positions
  <2> QED BY <2>2 DEF VerdictsAfter
<1>7. V # {} => VerdictOf(a, n) = VerdictOf(s, n)
  <2> SUFFICES ASSUME V # {} PROVE VerdictOf(a, n) = VerdictOf(s, n) OBVIOUS
  <2> DEFINE c == CHOOSE i \in V : \A j \in V : i <= j
  <2>1. V \subseteq 1..Len(s) BY DEF VerdictsAfter, Positions
  <2> HIDE DEF V
  <2>2. V \in SUBSET Nat BY <1>1, <2>1
  <2>3. \E i \in V : \A j \in V : i <= j BY <2>2, LeastOfNaturals
  <2>4. c \in V BY <2>3
  <2>5. VerdictOf(a, n) = a[c].arg /\ VerdictOf(s, n) = s[c].arg BY <1>6 DEF VerdictOf, V
  <2> HIDE DEF c
  <2> QED BY <1>1, <2>1, <2>4, <2>5
<1>8. n # 0 => a[n] = s[n] BY <1>1, <1>2
<1>9. n = 0 => LatestScanStanding(a) = "Unobserved" /\ LatestScanStanding(s) = "Unobserved"
  BY <1>3 DEF LatestScanStanding, n
<1>10. CASE n = 0 BY <1>5, <1>9, <1>10 DEF a
<1>11. CASE n # 0 /\ e.type = "ArtifactRejected"
  <2>1. Latest(a, "ArtifactRejected") > n BY <1>1, <1>2, <1>4, <1>11
  <2>2. LatestScanStanding(a) = "Superseded" BY <1>3, <1>11, <2>1 DEF LatestScanStanding
  <2> QED BY <1>5, <1>11, <2>2 DEF a
<1>12. CASE n # 0 /\ e.type # "ArtifactRejected"
  <2>1. Latest(a, "ArtifactRejected") = r BY <1>4, <1>12
  <2>2. LatestScanStanding(a) =
           IF r > n THEN "Superseded"
           ELSE IF V # {} THEN IF VerdictOf(s, n) = "Pass" THEN "Clears" ELSE "Holds"
           ELSE IF s[n].arg = "clean" THEN "Clears" ELSE "Holds"
    BY <1>3, <1>6, <1>7, <1>8, <1>12, <2>1 DEF LatestScanStanding
  <2>3. LatestScanStanding(s) =
           IF r > n THEN "Superseded"
           ELSE IF V # {} THEN IF VerdictOf(s, n) = "Pass" THEN "Clears" ELSE "Holds"
           ELSE IF s[n].arg = "clean" THEN "Clears" ELSE "Holds"
    BY <1>12 DEF LatestScanStanding, n, r, V
  <2> QED BY <1>12, <2>2, <2>3 DEF a
<1> QED BY <1>10, <1>11, <1>12

(* Everything a decision reads, one event later. *)
OneLater(v, w, e) ==
    /\ w.reason = IF e.type = "ArtifactRejected" THEN e.arg ELSE v.reason
    /\ w.standing = IF e.type = "ArtifactRejected"
                    THEN IF v.found = NotScanned THEN "Unobserved" ELSE "Superseded"
                    ELSE v.standing
    /\ w.found = v.found
    /\ w.origin = IF e.type = "ArtifactReleased" THEN e.arg ELSE v.origin
    /\ w.verified = IF e.type = "ProvenanceVerified" THEN TRUE ELSE v.verified

LEMMA EvidenceOneMore ==
    ASSUME NEW s \in Seq(Events), NEW e \in Events,
           e.type \notin {"ScanCompleted", "PolicyEvaluated"}
    PROVE  OneLater(Evidence(s), Evidence(Append(s, e)), e)
<1> DEFINE a == Append(s, e)
<1>1. /\ LastRejectionReason(a)
            = IF e.type = "ArtifactRejected" THEN e.arg ELSE LastRejectionReason(s)
      /\ LatestReleaseOrigin(a)
            = IF e.type = "ArtifactReleased" THEN e.arg ELSE LatestReleaseOrigin(s)
      /\ LastScanCompleted(a) = LastScanCompleted(s)
  BY LatestArgOneMore DEF LastRejectionReason, LatestReleaseOrigin, LastScanCompleted
<1>2. LatestScanStanding(a)
         = IF e.type = "ArtifactRejected"
           THEN IF LastScanCompleted(s) = NotScanned THEN "Unobserved" ELSE "Superseded"
           ELSE LatestScanStanding(s)
  BY StandingOneMore
<1>3. ProvenanceVerifiedOn(a)
         = IF e.type = "ProvenanceVerified" THEN TRUE ELSE ProvenanceVerifiedOn(s)
  <2>1. /\ Len(a) = Len(s) + 1 /\ a[Len(s) + 1] = e /\ Len(s) \in Nat
        /\ \A k \in 1..Len(s) : a[k] = s[k]
    OBVIOUS
  <2> HIDE DEF a
  <2>2. \A j \in 1..Len(a) : j \in 1..Len(s) \/ j = Len(s) + 1 BY <2>1
  <2>3. 1..Len(s) \subseteq 1..Len(a) /\ Len(s) + 1 \in 1..Len(a) BY <2>1
  <2>4. CASE e.type = "ProvenanceVerified" BY <2>1, <2>3, <2>4 DEF ProvenanceVerifiedOn
  <2>5. CASE e.type # "ProvenanceVerified"
    <3>1. ProvenanceVerifiedOn(a) <=> ProvenanceVerifiedOn(s)
      BY <2>1, <2>2, <2>3, <2>5 DEF ProvenanceVerifiedOn
    <3> QED BY <2>5, <3>1 DEF ProvenanceVerifiedOn
  <2> QED BY <2>4, <2>5
<1> HIDE DEF a
<1>4. OneLater(Evidence(s), Evidence(a), e)
  BY <1>1, <1>2, <1>3, EvidenceFields DEF OneLater
<1> QED BY <1>4 DEF a

(* Everything a decision reads after a scan. *)
LEMMA EvidenceScanned ==
    ASSUME NEW s \in Seq(Events), NEW ev, NEW f \in Findings, NEW r \in {"Pass", "Fail"}
    PROVE  LET v == Evidence(s)
               w == Evidence(s \o ScanBatch(ev, f, r))
           IN  /\ s \o ScanBatch(ev, f, r) \in Seq(Events)
               /\ w.found = f
               /\ w.standing = IF r = "Pass" THEN "Clears" ELSE "Holds"
               /\ w.reason = v.reason /\ w.origin = v.origin /\ w.verified = v.verified
<1> DEFINE b == ScanBatch(ev, f, r)
           sb == s \o b
<1>1. /\ b \in Seq(Events) /\ Len(b) \in {2, 3}
      /\ \A k \in 1..Len(b) :
            /\ b[k].type = "ScanCompleted" <=> k = 1
            /\ b[k].type \in {"ScanCompleted", "ArtifactBecameVulnerable", "PolicyEvaluated"}
      /\ b[1].arg = f
  BY ScanBatchTypes
<1>2. LatestScanStanding(sb) = IF r = "Pass" THEN "Clears" ELSE "Holds" BY ScanStands
<1> HIDE DEF b
<1>3. Latest(b, "ScanCompleted") = 1 BY <1>1, LatestIs
<1>4. ASSUME NEW ty \in {"ArtifactRejected", "ArtifactReleased"} PROVE Latest(b, ty) = 0
  <2>1. \A k \in 1..Len(b) : b[k].type # ty BY <1>1
  <2> QED BY <1>1, <2>1, LatestIs
<1>5. sb \in Seq(Events) BY <1>1, Appended
<1>6. /\ LastScanCompleted(sb) = f
      /\ LastRejectionReason(sb) = LastRejectionReason(s)
      /\ LatestReleaseOrigin(sb) = LatestReleaseOrigin(s)
  BY <1>1, <1>3, <1>4, LatestArgAppended
     DEF LastRejectionReason, LatestReleaseOrigin, LastScanCompleted
<1>7. ProvenanceVerifiedOn(sb) = ProvenanceVerifiedOn(s)
  <2>1. ~ProvenanceVerifiedOn(b) BY <1>1 DEF ProvenanceVerifiedOn
  <2>2. ProvenanceVerifiedOn(sb) <=> ProvenanceVerifiedOn(s) BY <1>1, <2>1, ClearanceAppended
  <2> QED BY <2>2 DEF ProvenanceVerifiedOn
<1> HIDE DEF sb
<1>8. /\ Evidence(sb).found = f
      /\ Evidence(sb).standing = IF r = "Pass" THEN "Clears" ELSE "Holds"
      /\ Evidence(sb).reason = Evidence(s).reason /\ Evidence(sb).origin = Evidence(s).origin
      /\ Evidence(sb).verified = Evidence(s).verified
  BY <1>2, <1>6, <1>7, EvidenceFields
<1> QED BY <1>5, <1>8 DEF sb, b

(* Batches, event by event. *)
LEMMA BatchesAsAppends ==
    ASSUME NEW s \in Seq(Events), NEW d \in Events, NEW e \in Events
    PROVE  /\ s \o <<e>> = Append(s, e)
           /\ s \o <<d, e>> = Append(Append(s, d), e)
           /\ \A c \in Seq(Events) : s \o Append(c, e) = Append(s \o c, e)
<1>1. s \o <<e>> = Append(s, e) /\ s \o <<d>> = Append(s, d) BY AppendIsConcat
<1>2. ASSUME NEW c \in Seq(Events) PROVE s \o Append(c, e) = Append(s \o c, e)
  <2> DEFINE z == <<e>>
  <2>1. Append(c, e) = c \o z BY AppendIsConcat
  <2>2. z \in Seq(Events) /\ s \o c \in Seq(Events) OBVIOUS
  <2>3. Append(s \o c, e) = (s \o c) \o z
    <3> DEFINE y == s \o c
    <3>1. y \in Seq(Events) BY <2>2
    <3> HIDE DEF y
    <3>2. Append(y, e) = y \o z BY <3>1, AppendIsConcat
    <3> QED BY <3>2 DEF y
  <2> HIDE DEF z
  <2>4. (s \o c) \o z = s \o (c \o z) BY <2>2, ConcatAssociative
  <2> QED BY <2>1, <2>3, <2>4
<1>3. s \o <<d, e>> = Append(Append(s, d), e)
  <2> DEFINE y == <<d>>
  <2>1. <<d, e>> = Append(y, e) /\ y \in Seq(Events) OBVIOUS
  <2>2. s \o y = Append(s, d) BY <1>1
  <2> HIDE DEF y
  <2>3. s \o Append(y, e) = Append(s \o y, e) BY <1>2, <2>1
  <2> QED BY <2>1, <2>2, <2>3
<1> QED BY <1>1, <1>2, <1>3

(* The machine's state, before and after a commit, as evidence. *)
LEMMA MappedState ==
    /\ LastRejectionReason(stream) = Evidence(stream).reason
    /\ LatestScanStanding(stream) = Evidence(stream).standing
    /\ LastScanCompleted(stream) = Evidence(stream).found
    /\ LatestReleaseOrigin(stream) = Evidence(stream).origin
    /\ ProvenanceVerifiedOn(stream) = Evidence(stream).verified
    /\ LastRejectionReason(stream') = Evidence(stream').reason
    /\ LatestScanStanding(stream') = Evidence(stream').standing
    /\ LastScanCompleted(stream') = Evidence(stream').found
    /\ LatestReleaseOrigin(stream') = Evidence(stream').origin
    /\ ProvenanceVerifiedOn(stream') = Evidence(stream').verified
  BY EvidenceFields

LEMMA InForcePolicies == policy \in Policies => InForce \subseteq Policies
  BY DEF InForce

(* The machine's rules are the rules of the use cases. *)
LEMMA SameRules ==
    /\ Machine!AllowedFrom = AllowedFrom /\ Machine!NotScanned = NotScanned
    /\ Machine!NoReason = NoReason /\ Machine!NeverReleased = NeverReleased
    /\ Machine!Findings = Findings
    /\ \A st, r : Machine!CanWaive(st, r) <=> CanWaive(st, r)
    /\ \A st, o : Machine!CanRejectFromScan(st, o) <=> CanRejectFromScan(st, o)
    /\ \A r : Machine!IsScanClearable(r) <=> IsScanClearable(r)
    /\ \A v, pol : Machine!ProvenanceClears(v, pol) <=> ProvenanceClears(v, pol)
    /\ \A st, sd, v, pol :
          Machine!CanReleaseByTimer(st, sd, v, pol) <=> CanReleaseByTimer(st, sd, v, pol)
    /\ \A f, pol : Machine!EvaluateScanResult(f, pol) = EvaluateScanResult(f, pol)
    /\ \A f, readable, pol :
          Machine!StoredVerdict(f, readable, pol) = StoredVerdict(f, readable, pol)
<1>1. /\ Machine!AllowedFrom = AllowedFrom /\ Machine!NotScanned = NotScanned
      /\ Machine!NoReason = NoReason /\ Machine!NeverReleased = NeverReleased
      /\ Machine!Findings = Findings /\ Machine!Reasons = Reasons
  BY DEF AllowedFrom, NotScanned, NoReason, NeverReleased, Findings, Reasons, Machine!AllowedFrom,
         Machine!NotScanned, Machine!NoReason, Machine!NeverReleased, Machine!Findings,
         Machine!Reasons
<1>2. \A st, r : Machine!CanWaive(st, r) <=> CanWaive(st, r)
  BY <1>1 DEF CanWaive, IsCuratorOverridable, Machine!CanWaive, Machine!IsCuratorOverridable
<1>3. \A st, o : Machine!CanRejectFromScan(st, o) <=> CanRejectFromScan(st, o)
  BY <1>1 DEF CanRejectFromScan, PermitsScanReblock, Machine!CanRejectFromScan,
              Machine!PermitsScanReblock
<1>4. \A r : Machine!IsScanClearable(r) <=> IsScanClearable(r)
  BY DEF IsScanClearable, Machine!IsScanClearable
<1>5. \A v, pol : Machine!ProvenanceClears(v, pol) <=> ProvenanceClears(v, pol)
  BY DEF ProvenanceClears, Machine!ProvenanceClears
<1>6. \A sd, pol : Machine!HasScanAuthority(sd, pol) <=> HasScanAuthority(sd, pol)
  BY DEF HasScanAuthority, Machine!HasScanAuthority
<1>7. \A st, sd, v, pol :
         Machine!CanReleaseByTimer(st, sd, v, pol) <=> CanReleaseByTimer(st, sd, v, pol)
  BY <1>1, <1>5, <1>6 DEF CanReleaseByTimer, Machine!CanReleaseByTimer
<1>8. \A f, pol : Machine!EvaluateScanResult(f, pol) = EvaluateScanResult(f, pol)
  BY DEF EvaluateScanResult, Machine!EvaluateScanResult
<1>9. \A f, pol : Machine!EvaluateScanSummary(f, pol) = EvaluateScanSummary(f, pol)
  BY DEF EvaluateScanSummary, Machine!EvaluateScanSummary
<1>10. \A f, readable, pol :
          Machine!StoredVerdict(f, readable, pol) = StoredVerdict(f, readable, pol)
  BY <1>8, <1>9 DEF StoredVerdict, Machine!StoredVerdict
<1> QED BY <1>1, <1>2, <1>3, <1>4, <1>5, <1>7, <1>8, <1>10

(* Commits of one event. *)
LEMMA OneEventMaps ==
    ASSUME PlanInv, NEW p \in Procs, Commit(p),
           task[p].op \in {"sweep", "indeterminate", "waive", "block", "cascade", "cascadeRetry"}
    PROVE  Machine!Next
<1> DEFINE t == task[p]
           b == t.batch
           v == Evidence(stream)
           w == Evidence(stream')
<1>1. /\ stream \in Seq(Events) /\ stream' = stream \o b
      /\ status' = WrittenStatus(t)
      /\ t.op \in LoadOps => t.row = status
  BY CommitForm
<1>2. PICK pol \in InForce : Form(t.op, t.row, b, t.to, v, pol) BY CommitForm
<1>3. pol \in Policies BY InForcePolicies DEF PlanInv, ReadInv, TypeInv, TypeOK
<1>4. ASSUME NEW e \in Events, b = <<e>>, e.type \notin {"ScanCompleted", "PolicyEvaluated"}
      PROVE  OneLater(v, w, e)
  BY <1>1, <1>4, BatchesAsAppends, EvidenceOneMore
<1>5. /\ ArtifactReleased("Timer") \in Events /\ ArtifactReleased("Curator") \in Events
      /\ Plain("ScanIndeterminate") \in Events /\ Plain("ProvenanceVerified") \in Events
      /\ ArtifactRejected("Curator") \in Events
  BY EventFacts DEF ReleaseReasons, Reasons
<1> HIDE DEF b, v, w
<1>6. CASE t.op = "sweep"
  <2>1. /\ b = <<ArtifactReleased("Timer")>> /\ t.to = "Released" /\ t.row = status
        /\ CanReleaseByTimer(t.row, v.standing, v.verified, pol)
    BY <1>1, <1>2, <1>6 DEF Form, LoadOps
  <2>2. status' = "Released" BY <1>1, <1>6, <2>1 DEF WrittenStatus, VerdictOps
  <2>3. OneLater(v, w, ArtifactReleased("Timer")) BY <1>4, <1>5, <2>1, EventFields
  <2>4. /\ w.reason = v.reason /\ w.standing = v.standing /\ w.found = v.found
        /\ w.origin = "Timer" /\ w.verified = v.verified
    BY <2>3, EventFields DEF OneLater
  <2>5. Machine!TimerRelease(pol)
    BY <2>1, <2>2, <2>4, MappedState, SameRules DEF Machine!TimerRelease, Machine!Releases, v, w
  <2> QED BY <1>3, <2>5 DEF Machine!Next
<1>7. CASE t.op = "indeterminate"
  <2>1. /\ b = <<Plain("ScanIndeterminate")>> /\ t.to = "ScanIndeterminate" /\ t.row = status
        /\ t.row \in AllowedFrom.FailScanIndeterminate
    BY <1>1, <1>2, <1>7 DEF Form, LoadOps
  <2>2. status' = "ScanIndeterminate" BY <1>1, <1>7, <2>1 DEF WrittenStatus, VerdictOps
  <2>3. OneLater(v, w, Plain("ScanIndeterminate")) BY <1>4, <1>5, <2>1, EventFields
  <2>0. Plain("ScanIndeterminate").type = "ScanIndeterminate" BY EventFields
  <2>4. /\ w.reason = v.reason /\ w.standing = v.standing /\ w.found = v.found
        /\ w.origin = v.origin /\ w.verified = v.verified
    BY <2>0, <2>3 DEF OneLater
  <2>5. Machine!ScanFails
    BY <2>1, <2>2, <2>4, MappedState, SameRules DEF Machine!ScanFails, v, w
  <2> QED BY <2>5 DEF Machine!Next
<1>8. CASE t.op = "waive"
  <2>1. /\ b = <<ArtifactReleased("Curator")>> /\ t.to = "Released" /\ t.row = status
        /\ CanWaive(t.row, v.reason)
    BY <1>1, <1>2, <1>8 DEF Form, LoadOps
  <2>2. status' = "Released" BY <1>1, <1>8, <2>1 DEF WrittenStatus, VerdictOps
  <2>3. OneLater(v, w, ArtifactReleased("Curator")) BY <1>4, <1>5, <2>1, EventFields
  <2>4. /\ w.reason = v.reason /\ w.standing = v.standing /\ w.found = v.found
        /\ w.origin = "Curator" /\ w.verified = v.verified
    BY <2>3, EventFields DEF OneLater
  <2>5. Machine!Waive
    BY <2>1, <2>2, <2>4, MappedState, SameRules DEF Machine!Waive, Machine!Releases, v, w
  <2> QED BY <2>5 DEF Machine!Next
<1>9. CASE t.op = "block"
  <2>1. /\ b = <<ArtifactRejected("Curator")>> /\ t.to = "Rejected" /\ t.row = status
        /\ t.row \in AllowedFrom.BlockByCurator
    BY <1>1, <1>2, <1>9 DEF Form, LoadOps
  <2>2. status' = "Rejected" BY <1>1, <1>9, <2>1 DEF WrittenStatus, VerdictOps
  <2>3. OneLater(v, w, ArtifactRejected("Curator")) BY <1>4, <1>5, <2>1, EventFields
  <2>4. /\ w.reason = "Curator" /\ w.found = v.found
        /\ w.standing = IF w.found = NotScanned THEN "Unobserved" ELSE "Superseded"
        /\ w.origin = v.origin /\ w.verified = v.verified
    BY <2>3, EventFields DEF OneLater
  <2>5. Machine!CuratorBlock
    BY <2>1, <2>2, <2>4, MappedState, SameRules DEF Machine!CuratorBlock, Machine!Rejects, v, w
  <2> QED BY <2>5 DEF Machine!Next
<1>10. CASE t.op \in {"cascade", "cascadeRetry"}
  <2>1. b = <<Plain("ProvenanceVerified")>> /\ t.to = t.row BY <1>2, <1>10 DEF Form
  <2>2. status' = status BY <1>1, <1>10, <2>1 DEF WrittenStatus, VerdictOps
  <2>3. OneLater(v, w, Plain("ProvenanceVerified")) BY <1>4, <1>5, <2>1, EventFields
  <2>4. /\ w.reason = v.reason /\ w.standing = v.standing /\ w.found = v.found
        /\ w.origin = v.origin /\ w.verified = TRUE
    BY <2>3, EventFields DEF OneLater
  <2>5. Machine!ProvenanceVerdict
    BY <2>2, <2>4, MappedState DEF Machine!ProvenanceVerdict, v, w
  <2> QED BY <2>5 DEF Machine!Next
<1> QED BY <1>6, <1>7, <1>8, <1>9, <1>10

(* Commits of two events, and the two verdicts of a verification. *)
LEMMA TwoEventsMap ==
    ASSUME PlanInv, NEW p \in Procs, Commit(p),
           task[p].op \in {"reevaluate", "verify", "scrub"}
    PROVE  Machine!Next
<1> DEFINE t == task[p]
           b == t.batch
           v == Evidence(stream)
           w == Evidence(stream')
<1>1. /\ stream \in Seq(Events) /\ stream' = stream \o b
      /\ status' = WrittenStatus(t)
      /\ t.op \in LoadOps => t.row = status
  BY CommitForm
<1>2. PICK pol \in InForce : Form(t.op, t.row, b, t.to, v, pol) BY CommitForm
<1>3. pol \in Policies BY InForcePolicies DEF PlanInv, ReadInv, TypeInv, TypeOK
<1>4. ASSUME NEW d \in Events, NEW e \in Events, b = <<d, e>>,
             d.type \notin {"ScanCompleted", "PolicyEvaluated"},
             e.type \notin {"ScanCompleted", "PolicyEvaluated"}
      PROVE  \E u : OneLater(v, u, d) /\ OneLater(u, w, e)
  <2> DEFINE m == Append(stream, d)
  <2>1. m \in Seq(Events) BY <1>1
  <2>2. stream' = Append(m, e) BY <1>1, <1>4, BatchesAsAppends
  <2>3. OneLater(v, Evidence(m), d) BY <1>1, <1>4, EvidenceOneMore
  <2> HIDE DEF m
  <2>4. OneLater(Evidence(m), w, e) BY <1>4, <2>1, <2>2, EvidenceOneMore
  <2> QED BY <2>3, <2>4
<1> HIDE DEF b, v, w
<1>5. CASE t.op = "reevaluate"
  <2>1. PICK blocked \in BOOLEAN, readable \in BOOLEAN :
           /\ MayReEvaluate(t.row, v, t.to, pol, blocked)
           /\ t.to \in {"Quarantined", "Released"}
           /\ b = <<ArtifactReEvaluated(t.to), ReEvaluationCompanion(t.to)>>
           /\ StoredVerdict(v.found, readable, pol) # "Reject"
    BY <1>2, <1>5 DEF Form, ReEvaluationForm
  <2>2. status' = t.to /\ t.row = status
    BY <1>1, <1>5 DEF WrittenStatus, VerdictOps, LoadOps
  <2> DEFINE d == ArtifactReEvaluated(t.to)
             e == ReEvaluationCompanion(t.to)
  <2>3. /\ d \in Events /\ d.type = "ArtifactReEvaluated"
        /\ e \in Events
    BY <2>1, EventFacts, EventFields DEF ReEvaluationCompanion, ReleaseReasons
  <2>4. /\ e.type \in {"ArtifactQuarantined", "ArtifactReleased"}
        /\ e.type = "ArtifactReleased" => t.to = "Released" /\ e.arg = "PolicyReEvaluation"
        /\ t.to = "Released" => e.type = "ArtifactReleased"
    <3>1. t.to = "Released" => e = ArtifactReleased("PolicyReEvaluation")
      BY DEF ReEvaluationCompanion
    <3>2. ArtifactReleased("PolicyReEvaluation").type = "ArtifactReleased" BY EventFields
    <3> QED BY <2>1, <3>1, <3>2, CompanionFields
  <2>5. b = <<d, e>> BY <2>1
  <2> HIDE DEF d, e
  <2>6. PICK u : OneLater(v, u, d) /\ OneLater(u, w, e) BY <1>4, <2>3, <2>4, <2>5
  <2>7. /\ u.reason = v.reason /\ u.standing = v.standing /\ u.found = v.found
        /\ u.origin = v.origin /\ u.verified = v.verified
    BY <2>3, <2>6 DEF OneLater
  <2>8. /\ w.reason = v.reason /\ w.standing = v.standing /\ w.found = v.found
        /\ w.verified = v.verified
        /\ t.to = "Quarantined" => w.origin = v.origin
        /\ t.to = "Released" => w.origin = "PolicyReEvaluation"
    BY <2>4, <2>6, <2>7 DEF OneLater
  <2>9. /\ status \in AllowedFrom.ReEvaluate /\ IsScanClearable(v.reason) /\ v.found # NotScanned
        /\ t.to = "Released" => ProvenanceClears(v.verified, pol)
    BY <2>1, <2>2 DEF MayReEvaluate
  <2> HIDE DEF t
  <2>10. /\ status \in Machine!AllowedFrom.ReEvaluate /\ Machine!IsScanClearable(v.reason)
         /\ v.found # Machine!NotScanned
         /\ Machine!StoredVerdict(v.found, readable, pol) # "Reject"
         /\ t.to = "Released" => Machine!ProvenanceClears(v.verified, pol)
    BY <2>1, <2>9, SameRules
  <2>11. Machine!ReEvaluate(pol)
    BY <2>1, <2>2, <2>8, <2>10, MappedState DEF Machine!ReEvaluate, Machine!Releases, v, w
  <2> QED BY <1>3, <2>11 DEF Machine!Next
<1>6. CASE t.op = "verify" /\ b = <<Plain("ProvenanceVerified")>> /\ t.to = t.row
  <2> DEFINE e == Plain("ProvenanceVerified")
  <2>1. e \in Events /\ e.type = "ProvenanceVerified" BY EventFacts, EventFields
  <2>2. status' = status BY <1>1, <1>6 DEF WrittenStatus, VerdictOps
  <2>3. stream' = Append(stream, e) BY <1>1, <1>6, <2>1, BatchesAsAppends
  <2> HIDE DEF e
  <2>4. OneLater(v, w, e) BY <1>1, <2>1, <2>3, EvidenceOneMore DEF v, w
  <2>5. /\ w.reason = v.reason /\ w.standing = v.standing /\ w.found = v.found
        /\ w.origin = v.origin /\ w.verified = TRUE
    BY <2>1, <2>4 DEF OneLater
  <2>6. Machine!ProvenanceVerdict
    BY <2>2, <2>5, MappedState DEF Machine!ProvenanceVerdict, v, w
  <2> QED BY <2>6 DEF Machine!Next
<1>7. CASE /\ t.op = "verify" /\ t.to = "Rejected"
           /\ b = <<Plain("ProvenanceRejected"), ArtifactRejected("Provenance")>>
  <2> DEFINE d == Plain("ProvenanceRejected")
             e == ArtifactRejected("Provenance")
  <2>1. /\ d \in Events /\ d.type = "ProvenanceRejected"
        /\ e \in Events /\ e.type = "ArtifactRejected" /\ e.arg = "Provenance"
    BY EventFacts, EventFields DEF Reasons
  <2>2. b = <<d, e>> BY <1>7
  <2>3. status' = "Rejected" BY <1>1, <1>7 DEF WrittenStatus, VerdictOps, LoadOps
  <2> HIDE DEF d, e
  <2>4. PICK u : OneLater(v, u, d) /\ OneLater(u, w, e) BY <1>4, <2>1, <2>2
  <2>5. u.found = v.found /\ u.origin = v.origin /\ u.verified = v.verified
    BY <2>1, <2>4 DEF OneLater
  <2>6. /\ w.reason = "Provenance" /\ w.found = v.found
        /\ w.standing = IF w.found = NotScanned THEN "Unobserved" ELSE "Superseded"
        /\ w.origin = v.origin /\ w.verified = v.verified
    BY <2>1, <2>4, <2>5 DEF OneLater
  <2>7. Machine!ProvenanceVerdict
    BY <2>3, <2>6, MappedState, SameRules DEF Machine!ProvenanceVerdict, Machine!Rejects, v, w
  <2> QED BY <2>7 DEF Machine!Next
<1>8. CASE t.op = "scrub"
  <2> DEFINE d == Plain("ArtifactCorrupted")
             e == ArtifactRejected("Corruption")
  <2>1. /\ d \in Events /\ d.type = "ArtifactCorrupted"
        /\ e \in Events /\ e.type = "ArtifactRejected" /\ e.arg = "Corruption"
    BY EventFacts, EventFields DEF Reasons
  <2>2. b = <<d, e>> /\ t.to = "Rejected" BY <1>2, <1>8 DEF Form
  <2>3. status' = "Rejected" BY <1>1, <1>8, <2>2 DEF WrittenStatus, VerdictOps
  <2> HIDE DEF d, e
  <2>4. PICK u : OneLater(v, u, d) /\ OneLater(u, w, e) BY <1>4, <2>1, <2>2
  <2>5. u.found = v.found /\ u.origin = v.origin /\ u.verified = v.verified
    BY <2>1, <2>4 DEF OneLater
  <2>6. /\ w.reason = "Corruption" /\ w.found = v.found
        /\ w.standing = IF w.found = NotScanned THEN "Unobserved" ELSE "Superseded"
        /\ w.origin = v.origin /\ w.verified = v.verified
    BY <2>1, <2>4, <2>5 DEF OneLater
  <2>7. Machine!Tombstone
    BY <2>3, <2>6, MappedState, SameRules DEF Machine!Tombstone, Machine!Rejects, v, w
  <2> QED BY <2>7 DEF Machine!Next
<1>9. t.op = "verify" => \/ b = <<Plain("ProvenanceVerified")>> /\ t.to = t.row
                         \/ /\ t.to = "Rejected"
                            /\ b = <<Plain("ProvenanceRejected"), ArtifactRejected("Provenance")>>
  BY <1>2 DEF Form
<1> QED BY <1>5, <1>6, <1>7, <1>8, <1>9

(* Commits of a scan: recorded only, rejecting, or releasing. *)
LEMMA ScansMap ==
    ASSUME PlanInv, NEW p \in Procs, Commit(p), task[p].op = "scan"
    PROVE  Machine!Next
<1> DEFINE t == task[p]
           b == t.batch
           v == Evidence(stream)
           w == Evidence(stream')
<1>1. /\ stream \in Seq(Events) /\ stream' = stream \o b
      /\ status' = WrittenStatus(t) /\ t.row = status
  BY CommitForm DEF LoadOps
<1>2. PICK pol \in InForce : Form(t.op, t.row, b, t.to, v, pol) BY CommitForm
<1>3. pol \in Policies BY InForcePolicies DEF PlanInv, ReadInv, TypeInv, TypeOK
<1>4. ScanForm(status, b, t.to, v, pol) BY <1>1, <1>2 DEF Form
<1>5. status' = IF t.to = status THEN status ELSE t.to BY <1>1 DEF WrittenStatus, VerdictOps
<1> HIDE DEF b, v, w, t
<1>6. PICK f \in Findings, r \in {"Pass", "Fail"} :
        /\ r = IF EvaluateScanResult(f, pol) = "Clean" THEN "Pass" ELSE "Fail"
        /\ \/ /\ b = ScanBatch(v, f, r) /\ t.to = status
              /\ EvaluateScanResult(f, pol) = "Reject" => ~CanRejectFromScan(status, v.origin)
           \/ /\ b = Append(ScanBatch(v, f, r), ArtifactRejected("Scanner"))
              /\ t.to = "Rejected" /\ CanRejectFromScan(status, v.origin)
              /\ EvaluateScanResult(f, pol) = "Reject"
           \/ /\ b = Append(ScanBatch(v, f, r), ArtifactReleased("Timer"))
              /\ t.to = "Released" /\ status = "Quarantined"
              /\ EvaluateScanResult(f, pol) # "Reject"
              /\ CanReleaseByTimer(status, IF r = "Pass" THEN "Clears" ELSE "Holds",
                                   v.verified, pol)
  BY <1>4 DEF ScanForm
<1> DEFINE c == ScanBatch(v, f, r)
           m == stream \o c
           x == Evidence(m)
           stand == IF r = "Pass" THEN "Clears" ELSE "Holds"
<1>7. /\ m \in Seq(Events)
      /\ x.found = f /\ x.standing = stand
      /\ x.reason = v.reason /\ x.origin = v.origin /\ x.verified = v.verified
  BY <1>1, EvidenceScanned DEF v
<1>8. c \in Seq(Events) BY ScanBatchTypes
<1>9. f # NotScanned BY DEF Findings, NotScanned
<1>10. stand = IF EvaluateScanResult(f, pol) = "Clean" THEN "Clears" ELSE "Holds" BY <1>6
<1>11. ASSUME NEW e \in Events, b = Append(c, e),
              e.type \notin {"ScanCompleted", "PolicyEvaluated"}
       PROVE  OneLater(x, w, e)
  <2> HIDE DEF c
  <2>1. stream' = Append(m, e) BY <1>1, <1>8, <1>11, BatchesAsAppends
  <2> HIDE DEF m
  <2> QED BY <1>7, <1>11, <2>1, EvidenceOneMore DEF w
<1>12. /\ Machine!EvaluateScanResult(f, pol) = EvaluateScanResult(f, pol)
       /\ Machine!CanRejectFromScan(status, v.origin) <=> CanRejectFromScan(status, v.origin)
       /\ Machine!CanReleaseByTimer(status, stand, v.verified, pol)
             <=> CanReleaseByTimer(status, stand, v.verified, pol)
       /\ Machine!NotScanned = NotScanned /\ Machine!Findings = Findings
  BY SameRules
<1>13. CASE /\ b = c /\ t.to = status
            /\ EvaluateScanResult(f, pol) = "Reject" => ~CanRejectFromScan(status, v.origin)
  <2>1. stream' = m BY <1>1, <1>13
  <2>2. w = x BY <2>1 DEF w
  <2> HIDE DEF c, m, x, stand
  <2>3. /\ status' = status /\ w.found = f /\ w.standing = stand
        /\ w.reason = v.reason /\ w.origin = v.origin /\ w.verified = v.verified
    BY <1>5, <1>7, <1>13, <2>2
  <2>4. CASE EvaluateScanResult(f, pol) = "Reject"
    <3>1. stand = "Holds" BY <1>10, <2>4
    <3>2. Machine!RejectingScan(f, pol)
      BY <1>12, <1>13, <2>3, <2>4, <3>1, MappedState DEF Machine!RejectingScan, v, w
    <3> QED BY <1>3, <1>12, <3>2 DEF Machine!Next
  <2>5. CASE EvaluateScanResult(f, pol) # "Reject"
    <3>1. Machine!PassingScan(f, pol)
      BY <1>10, <1>12, <2>3, <2>5, MappedState DEF Machine!PassingScan, v, w
    <3> QED BY <1>3, <1>12, <3>1 DEF Machine!Next
  <2> QED BY <2>4, <2>5
<1>14. CASE /\ b = Append(c, ArtifactRejected("Scanner"))
            /\ t.to = "Rejected" /\ CanRejectFromScan(status, v.origin)
            /\ EvaluateScanResult(f, pol) = "Reject"
  <2> DEFINE e == ArtifactRejected("Scanner")
  <2>1. e \in Events /\ e.type = "ArtifactRejected" /\ e.arg = "Scanner"
    BY EventFacts, EventFields DEF Reasons
  <2> HIDE DEF c, m, x, stand
  <2>2. OneLater(x, w, e) BY <1>11, <1>14, <2>1
  <2> HIDE DEF e
  <2>3. /\ status' = "Rejected" /\ w.found = f /\ w.standing = "Superseded"
        /\ w.reason = "Scanner" /\ w.origin = v.origin /\ w.verified = v.verified
    BY <1>5, <1>7, <1>9, <1>14, <2>1, <2>2 DEF OneLater
  <2>4. Machine!RejectingScan(f, pol)
    BY <1>9, <1>12, <1>14, <2>3, MappedState DEF Machine!RejectingScan, Machine!Rejects, v, w
  <2> QED BY <1>3, <1>12, <2>4 DEF Machine!Next
<1>15. CASE /\ b = Append(c, ArtifactReleased("Timer"))
            /\ t.to = "Released" /\ status = "Quarantined"
            /\ EvaluateScanResult(f, pol) # "Reject"
            /\ CanReleaseByTimer(status, stand, v.verified, pol)
  <2> DEFINE e == ArtifactReleased("Timer")
  <2>1. e \in Events /\ e.type = "ArtifactReleased" /\ e.arg = "Timer"
    BY EventFacts, EventFields DEF ReleaseReasons
  <2> HIDE DEF c, m, x, stand
  <2>2. OneLater(x, w, e) BY <1>11, <1>15, <2>1
  <2> HIDE DEF e
  <2>3. /\ status' = "Released" /\ w.found = f /\ w.standing = stand
        /\ w.reason = v.reason /\ w.origin = "Timer" /\ w.verified = v.verified
    BY <1>5, <1>7, <1>15, <2>1, <2>2 DEF OneLater
  <2>4. Machine!PassingScan(f, pol)
    BY <1>10, <1>12, <1>15, <2>3, MappedState DEF Machine!PassingScan, Machine!Releases, v, w
  <2> QED BY <1>3, <1>12, <2>4 DEF Machine!Next
<1> QED BY <1>6, <1>13, <1>14, <1>15

(* An ingested artifact starts the machine. *)
LEMMA InitMaps == Init => Machine!Init
<1> SUFFICES ASSUME Init PROVE Machine!Init OBVIOUS
<1>0. stream \in Seq(Events) BY TypeInit DEF TypeInv, TypeOK
<1>1. /\ \A i \in 1..Len(stream) :
            stream[i] \in {Plain("ArtifactIngested"), Plain("ArtifactQuarantined")}
      /\ status \in {"None", "Quarantined"}
  BY DEF Init
<1>2. \A i \in 1..Len(stream) : stream[i].type \in {"ArtifactIngested", "ArtifactQuarantined"}
  BY <1>1, EventFields
<1>3. ASSUME NEW ty \in {"ArtifactRejected", "ScanCompleted", "ArtifactReleased"}
      PROVE  Latest(stream, ty) = 0
  <2>1. \A j \in 1..Len(stream) : stream[j].type # ty BY <1>2
  <2>2. 0 \in 0..Len(stream) BY <1>0
  <2> QED BY <1>0, <2>1, <2>2, LatestIs
<1>4. /\ LastRejectionReason(stream) = NoReason /\ LastScanCompleted(stream) = NotScanned
      /\ LatestReleaseOrigin(stream) = NeverReleased
      /\ LatestScanStanding(stream) = "Unobserved"
  BY <1>3 DEF LastRejectionReason, LastScanCompleted, LatestReleaseOrigin, LatestScanStanding,
              LatestArg
<1>5. ProvenanceVerifiedOn(stream) = FALSE BY <1>2 DEF ProvenanceVerifiedOn
<1> QED BY <1>1, <1>4, <1>5, SameRules DEF Machine!Init

(* The lifecycle of concurrent processes implements the sequential         *)
(* machine, through what is read back from the stream: every commit is one *)
(* transition on the artifact's true state and every other step stutters.  *)
(* The passes that judge a row from a page (loosen, tighten, retroactive   *)
(* curation) are excluded, the cascade is not: its stale row is not        *)
(* written.                                                                *)
THEOREM LifecycleImplementsMachine ==
    ASSUME Ops \cap {"loosen", "tighten", "retroCuration"} = {}
    PROVE  Spec => ImplementsMachine
<1>1. PlanInv /\ OpsRunning /\ [Next]_vars => [Machine!Next]_(Machine!machine)
  <2> SUFFICES ASSUME PlanInv, OpsRunning, [Next]_vars PROVE [Machine!Next]_(Machine!machine)
      OBVIOUS
  <2>1. ASSUME NEW p \in Procs, Commit(p) PROVE Machine!Next
    <3>1. task[p].op \in (AllOps \cup {"cascadeRetry"}) \ {"loosen", "tighten", "retroCuration"}
      <4>1. task[p].op \in Ops \cup {"none", "cascadeRetry"} BY DEF OpsRunning
      <4>2. \E pol \in InForce : Form(task[p].op, task[p].row, task[p].batch, task[p].to,
                                      Evidence(stream), pol)
        BY <2>1, CommitForm
      <4>3. task[p].op # "none" BY <4>2 DEF Form
      <4> QED BY <4>1, <4>3, OpsAssumption
    <3> QED BY <2>1, <3>1, OneEventMaps, TwoEventsMap, ScansMap
            DEF AllOps, LoadOps, PassOps
  <2>2. CASE \A p \in Procs : ~Commit(p)
    <3>1. stream' = stream /\ status' = status BY <2>2, OnlyCommitAppends, OnlyCommitWrites
    <3>2. UNCHANGED Machine!machine BY <3>1 DEF Machine!machine
    <3> QED BY <3>2
  <2> QED BY <2>1, <2>2
<1> QED BY <1>1, InitMaps, OpsAlways, PTL DEF Spec, ImplementsMachine, Machine!Spec

=============================================================================
