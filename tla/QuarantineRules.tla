-------------------------- MODULE QuarantineRules --------------------------
(***************************************************************************)
(* The pure rules of the artifact lifecycle: the quarantine statuses, the  *)
(* declared transition table, the scan, provenance and re-evaluation       *)
(* decisions.  No state: the operators here are what                       *)
(* hort-domain/src/entities/artifact.rs, quarantine_transitions.rs and     *)
(* policy/*.rs compute from their arguments.                               *)
(***************************************************************************)
EXTENDS Naturals

(* QuarantineStatus. *)
Statuses == {"None", "Quarantined", "Released", "Rejected", "ScanIndeterminate"}

(* RejectionReason.  Admin is left out: no production path mints it. *)
Reasons == {"Scanner", "ScanPolicyRetroactive", "Curator",
            "CurationRetroactive", "Provenance", "Corruption"}

(* The projection row does not persist a reason; a stream without an       *)
(* ArtifactRejected has none.                                              *)
NoReason == "NoReason"

(* ReleaseReason (Admin has no minting path) and ReleaseOrigin. *)
ReleaseReasons == {"Timer", "Curator", "PolicyReEvaluation"}
NeverReleased == "NeverReleased"

(* What a scan found, as a policy can tell it apart: nothing, findings     *)
(* below the usual threshold, findings above it.                           *)
Findings == {"clean", "low", "high"}
NotScanned == "unscanned"

(* ScanStanding. *)
Standings == {"Unobserved", "Superseded", "Clears", "Holds"}

-----------------------------------------------------------------------------
(* A resolved scan policy, as far as the lifecycle reads it:               *)
(*   blocks       finding classes whose verdict blocks once the exclusions *)
(*                are applied;                                             *)
(*   raw          finding classes that block by severity counts alone: an  *)
(*                unreadable findings blob leaves only the counts and      *)
(*                exclusions cannot subtract from them;                    *)
(*   enforcement  ScanEnforcement;                                         *)
(*   waived       scan_backends is the empty list;                         *)
(*   provenance   ProvenanceMode;                                          *)
(*   duration     quarantine_duration_secs, in ticks of the clock.         *)
ScanPolicies ==
    [blocks : SUBSET {"low", "high"}, raw : SUBSET {"low", "high"},
     enforcement : {"Reject", "Record"}, waived : BOOLEAN,
     provenance : {"Off", "VerifyIfPresent", "Required"}, duration : Nat]

(* evaluate_scan_result: the verdict over the findings themselves. *)
EvaluateScanResult(found, pol) ==
    IF found \notin pol.blocks THEN "Clean"
    ELSE IF pol.enforcement = "Reject" THEN "Reject" ELSE "FindingsRecorded"

(* evaluate_scan_summary: the verdict over recorded severity counts. *)
EvaluateScanSummary(found, pol) ==
    IF found \notin pol.raw THEN "Clean"
    ELSE IF pol.enforcement = "Reject" THEN "Reject" ELSE "FindingsRecorded"

(* The verdict a re-evaluation derives from stored findings.  An artifact  *)
(* never scanned has no findings, and no findings are clean.               *)
StoredVerdict(found, readable, pol) ==
    IF readable THEN EvaluateScanResult(found, pol) ELSE EvaluateScanSummary(found, pol)

-----------------------------------------------------------------------------
(* quarantine_transitions::classify: the statuses each event may start     *)
(* from.  CompleteProvenance has no source guard.                          *)
AllowedFrom ==
    [RecordCleanScan |-> {"None", "Quarantined"},
     RejectFromScan |-> {"None", "Quarantined", "Released"},
     RejectFromRetroactiveCuration |-> {"Quarantined", "Released"},
     RejectFromScanPolicyRetroactive |-> {"Quarantined", "Released"},
     BlockByCurator |-> {"None", "Quarantined", "Released"},
     TombstoneFromCorruption |-> {"None", "Quarantined", "Released", "ScanIndeterminate"},
     Release |-> {"Quarantined", "ScanIndeterminate", "Rejected"},
     CascadeProvenanceClearance |-> {"Quarantined"},
     FailScanIndeterminate |-> {"None", "Quarantined"},
     ReEvaluate |-> {"Rejected"}]

(* is_scan_clearable: the axes an unattended re-judgement may clear. *)
IsScanClearable(reason) == reason \in {"Scanner", "ScanPolicyRetroactive"}

(* is_curator_overridable: the axes a curator's waive may override. *)
IsCuratorOverridable(reason) == reason \in Reasons \ {"Corruption"}

(* ReleaseOrigin::permits_scan_reblock: an explicit human release outweighs *)
(* a later scan verdict.                                                    *)
PermitsScanReblock(origin) == origin # "Curator"

(* Artifact::reject_from_scan's guard. *)
CanRejectFromScan(status, origin) ==
    /\ status \in AllowedFrom.RejectFromScan
    /\ status = "Released" => PermitsScanReblock(origin)

(* ProvenanceClearance, collapsed to whether it clears a timer release.    *)
(* provenance_clearance_from: only Required mode asks for a verification.  *)
ProvenanceClears(verified, pol) == pol.provenance = "Required" => verified

(* scan_axis_release_authority: some ReleaseAuthorization the timer may    *)
(* carry (ScanSucceeded or ScanCleared, ScanRecorded, ScanWaived).         *)
HasScanAuthority(standing, pol) ==
    \/ standing = "Clears"
    \/ pol.enforcement = "Record" /\ standing \in {"Clears", "Holds"}
    \/ standing = "Unobserved" /\ pol.waived

(* Artifact::release for the timer: the source states, minus Rejected,     *)
(* which admits only the curator's pairing.                                *)
CanReleaseByTimer(status, standing, verified, pol) ==
    /\ status \in AllowedFrom.Release \ {"Rejected"}
    /\ HasScanAuthority(standing, pol)
    /\ ProvenanceClears(verified, pol)

(* Artifact::release for the curator's waive. *)
CanWaive(status, reason) ==
    /\ status \in AllowedFrom.Release
    /\ status = "Rejected" => IsCuratorOverridable(reason)

(* effective_quarantine_deadline <= now.  The anchor is instant 0; an      *)
(* artifact ingested without a hold has none.                              *)
DeadlinePassed(pol, now) == pol.duration <= now

(* decide_rejected_transition over the stored verdict and the deadline;    *)
(* an artifact without an anchor has no deadline and is released at once.  *)
DecideRejectedTransition(verdict, anchored, pol, now) ==
    IF verdict = "Reject" THEN "Rejected"
    ELSE IF anchored /\ ~DeadlinePassed(pol, now) THEN "Quarantined" ELSE "Released"

=============================================================================
