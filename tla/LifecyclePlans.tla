--------------------------- MODULE LifecyclePlans ---------------------------
(***************************************************************************)
(* What each use case decides from one loaded row, one observation of the  *)
(* stream and the policy it resolved: the events it will append and the    *)
(* status its entity holds afterwards.  A plan with no events is an early  *)
(* return.                                                                 *)
(***************************************************************************)
EXTENDS ArtifactStream

Plan(batch, to) == [batch |-> batch, to |-> to]
NoPlan(row) == Plan(<< >>, row)
PlanIf(condition, batch, to, row) == IF condition THEN Plan(batch, to) ELSE NoPlan(row)

(* maybe_push_became_vulnerable: findings the previous scan did not have. *)
BecameVulnerable(ev, found) ==
    IF ev.found # NotScanned /\ found \notin {"clean", ev.found}
    THEN <<Plain("ArtifactBecameVulnerable")>> ELSE << >>

(* Mutant: the batch carries the previous scan's findings. *)
RejectVerdictPlanStaleFindings(row, ev, found) ==
    LET scan == <<ScanCompleted(ev.found), PolicyEvaluated("Fail")>>
    IN  IF CanRejectFromScan(row, ev.origin)
        THEN Plan(Append(scan, ArtifactRejected("Scanner")), "Rejected")
        ELSE Plan(scan, row)

(* Mutant: only the status is asked, not who released the artifact. *)
RejectVerdictPlanIgnoringOrigin(row, ev, found) ==
    LET scan == <<ScanCompleted(found)>> \o BecameVulnerable(ev, found)
                    \o <<PolicyEvaluated("Fail")>>
    IN  IF row \in AllowedFrom.RejectFromScan
        THEN Plan(Append(scan, ArtifactRejected("Scanner")), "Rejected")
        ELSE Plan(scan, row)

(* handle_reject_verdict: an already-terminal or operator-released         *)
(* artifact only records the scan; the status stays.                       *)
RejectVerdictPlan(row, ev, found) ==
    LET scan == <<ScanCompleted(found)>> \o BecameVulnerable(ev, found)
                    \o <<PolicyEvaluated("Fail")>>
    IN  IF CanRejectFromScan(row, ev.origin)
        THEN Plan(Append(scan, ArtifactRejected("Scanner")), "Rejected")
        ELSE Plan(scan, row)

(* handle_non_rejecting_verdict: records the scan on any status and, on    *)
(* the fast path, releases a held artifact whose window is over, with the  *)
(* authority of the batch itself.                                          *)
NonRejectingVerdictPlan(row, ev, anchored, found, pol, now) ==
    LET passes == EvaluateScanResult(found, pol) = "Clean"
        scan == <<ScanCompleted(found)>> \o BecameVulnerable(ev, found)
                    \o <<PolicyEvaluated(IF passes THEN "Pass" ELSE "Fail")>>
        releases == /\ row = "Quarantined" /\ anchored /\ DeadlinePassed(pol, now)
                    /\ CanReleaseByTimer(row, LatestScanStanding(scan), ev.verified, pol)
    IN  IF releases THEN Plan(Append(scan, ArtifactReleased("Timer")), "Released")
        ELSE Plan(scan, row)

(* record_scan_result. *)
ScanPlan(row, ev, anchored, found, pol, now) ==
    IF EvaluateScanResult(found, pol) = "Reject"
    THEN RejectVerdictPlan(row, ev, found)
    ELSE NonRejectingVerdictPlan(row, ev, anchored, found, pol, now)

(* Mutant: the provenance axis is forgotten. *)
SweepPlanWithoutProvenance(row, ev, pol) ==
    PlanIf(row \in AllowedFrom.Release \ {"Rejected"} /\ HasScanAuthority(ev.standing, pol),
           <<ArtifactReleased("Timer")>>, "Released", row)

(* release_expired, for one candidate.  Neither the window nor the status  *)
(* the candidate query saw is asked again.                                 *)
SweepPlan(row, ev, pol) ==
    PlanIf(CanReleaseByTimer(row, ev.standing, ev.verified, pol),
           <<ArtifactReleased("Timer")>>, "Released", row)

(* record_scan_indeterminate. *)
IndeterminatePlan(row) ==
    PlanIf(row \in AllowedFrom.FailScanIndeterminate,
           <<Plain("ScanIndeterminate")>>, "ScanIndeterminate", row)

(* CurationUseCase::waive: the rejection axis is read from the stream only *)
(* when there is a rejection to override.                                  *)
WaivePlan(row, ev) ==
    PlanIf(CanWaive(row, ev.reason), <<ArtifactReleased("Curator")>>, "Released", row)

(* CurationUseCase::block_one. *)
BlockPlan(row) ==
    PlanIf(row \in AllowedFrom.BlockByCurator,
           <<ArtifactRejected("Curator")>>, "Rejected", row)

(* Mutant: the release arm does not ask for provenance. *)
MayReEvaluateWithoutProvenance(row, ev, to, pol, blocked) ==
    /\ row \in AllowedFrom.ReEvaluate
    /\ IsScanClearable(ev.reason)
    /\ ev.found # NotScanned
    /\ to # "Rejected"
    /\ ~blocked

(* The conjunction of ADR 0041 invariant #6 as the use cases ask it before *)
(* they commit a re-evaluation: a scan-clearable rejection with a recorded *)
(* scan, no active curation block, and the provenance gate on the release  *)
(* arm.                                                                    *)
MayReEvaluate(row, ev, to, pol, blocked) ==
    /\ row \in AllowedFrom.ReEvaluate
    /\ IsScanClearable(ev.reason)
    /\ ev.found # NotScanned
    /\ to # "Rejected"
    /\ ~blocked
    /\ to = "Released" => ProvenanceClears(ev.verified, pol)

(* derive_rejected_outcome's decision for one instant. *)
RejectedOutcome(ev, anchored, pol, now, readable) ==
    DecideRejectedTransition(StoredVerdict(ev.found, readable, pol), anchored, pol, now)

(* The companion event of Artifact::re_evaluate. *)
ReEvaluationCompanion(to) ==
    IF to = "Quarantined" THEN Plain("ArtifactQuarantined")
    ELSE ArtifactReleased("PolicyReEvaluation")

(* CurationUseCase::reevaluate: one instant decides and re-evaluates, and  *)
(* the audit event announces the status the entity reached.                *)
ReevaluatePlan(row, ev, anchored, pol, now, readable, blocked) ==
    LET to == RejectedOutcome(ev, anchored, pol, now, readable)
    IN  PlanIf(MayReEvaluate(row, ev, to, pol, blocked),
               <<ArtifactReEvaluated(to), ReEvaluationCompanion(to)>>, to, row)

(* verify_artifact and apply_verdict.  Off mode and a cleared Required     *)
(* artifact return early; only a verification or a disproof is an event.   *)
VerifyPlan(row, ev, outcome, pol) ==
    IF pol.provenance = "Off" \/ (pol.provenance = "Required" /\ ev.verified)
    THEN NoPlan(row)
    ELSE CASE outcome = "Verified" -> Plan(<<Plain("ProvenanceVerified")>>, row)
           [] outcome = "Rejected" ->
                Plan(<<Plain("ProvenanceRejected"), ArtifactRejected("Provenance")>>, "Rejected")
           [] OTHER -> NoPlan(row)

(* try_tombstone_artifact: both events in one append. *)
TombstonePlan(row) ==
    PlanIf(row \in AllowedFrom.TombstoneFromCorruption,
           <<Plain("ArtifactCorrupted"), ArtifactRejected("Corruption")>>, "Rejected", row)

(* re_evaluate_one_active and commit_tighten. *)
TightenPlan(row, ev, pol, readable) ==
    PlanIf(/\ row \in AllowedFrom.RejectFromScanPolicyRetroactive
           /\ StoredVerdict(ev.found, readable, pol) = "Reject",
           <<ArtifactReEvaluated("Rejected"), ArtifactRejected("ScanPolicyRetroactive")>>,
           "Rejected", row)

(* commit_retroactive_block, once a rule's pass found the artifact blocked. *)
RetroBlockPlan(row) ==
    PlanIf(row \in AllowedFrom.RejectFromRetroactiveCuration,
           <<ArtifactRejected("CurationRetroactive")>>, "Rejected", row)

(* Mutant: the idempotence check is missing. *)
CascadePlanRepeating(row, ev) ==
    PlanIf(row \in AllowedFrom.CascadeProvenanceClearance,
           <<Plain("ProvenanceVerified")>>, row, row)

(* cascade_one: a clearance is appended once, and no status is written. *)
CascadePlan(row, ev) ==
    PlanIf(/\ row \in AllowedFrom.CascadeProvenanceClearance
           /\ ~ev.verified,
           <<Plain("ProvenanceVerified")>>, row, row)

=============================================================================
