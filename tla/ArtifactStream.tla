--------------------------- MODULE ArtifactStream ---------------------------
(***************************************************************************)
(* The events of one artifact stream, and what the application layer reads *)
(* back from them.  The projection row keeps only a status: the rejection  *)
(* axis, the standing of the latest scan, the origin of the latest release *)
(* and the provenance clearance exist only as reverse scans over the       *)
(* stream (use_cases/scan_history.rs, use_cases/release_clearance.rs).     *)
(***************************************************************************)
EXTENDS QuarantineRules, Sequences

(* A domain event is its type and the one field the lifecycle reads back:  *)
(* the findings of a scan, the result of an evaluation, the author of a    *)
(* release or a rejection, the announced status of a re-evaluation.        *)
Plain(type) == [type |-> type, arg |-> ""]
ScanCompleted(found) == [type |-> "ScanCompleted", arg |-> found]
PolicyEvaluated(result) == [type |-> "PolicyEvaluated", arg |-> result]
ArtifactReleased(reason) == [type |-> "ArtifactReleased", arg |-> reason]
ArtifactRejected(reason) == [type |-> "ArtifactRejected", arg |-> reason]
ArtifactReEvaluated(newStatus) == [type |-> "ArtifactReEvaluated", arg |-> newStatus]

Events ==
    {Plain(t) : t \in {"ArtifactIngested", "ArtifactQuarantined", "ScanIndeterminate",
                       "ArtifactBecameVulnerable", "ProvenanceVerified",
                       "ProvenanceRejected", "ArtifactCorrupted"}}
    \cup {ScanCompleted(f) : f \in Findings}
    \cup {PolicyEvaluated(r) : r \in {"Pass", "Fail"}}
    \cup {ArtifactReleased(r) : r \in ReleaseReasons}
    \cup {ArtifactRejected(r) : r \in Reasons}
    \cup {ArtifactReEvaluated(st) : st \in {"Quarantined", "Released", "Rejected"}}

-----------------------------------------------------------------------------
(* The position of the latest event of a type, 0 when there is none: the   *)
(* reverse scans of scan_history.rs stop at it.                            *)
Positions(s, type) == {i \in 1..Len(s) : s[i].type = type}
Latest(s, type) ==
    CHOOSE i \in 0..Len(s) :
        /\ i > 0 => s[i].type = type
        /\ \A j \in 1..Len(s) : s[j].type = type => j <= i

(* The argument of the latest event of a type, or a default. *)
LatestArg(s, type, default) ==
    IF Latest(s, type) = 0 THEN default ELSE s[Latest(s, type)].arg

(* last_rejection_reason, last_scan_completed, latest_release_origin. *)
LastRejectionReason(s) == LatestArg(s, "ArtifactRejected", NoReason)
LastScanCompleted(s) == LatestArg(s, "ScanCompleted", NotScanned)
LatestReleaseOrigin(s) == LatestArg(s, "ArtifactReleased", NeverReleased)

(* The first PolicyEvaluated after a position is the verdict of the scan   *)
(* recorded there.                                                         *)
VerdictsAfter(s, scan) == {i \in Positions(s, "PolicyEvaluated") : i > scan}
VerdictOf(s, scan) ==
    s[CHOOSE i \in VerdictsAfter(s, scan) : \A j \in VerdictsAfter(s, scan) : i <= j].arg

(* latest_scan_standing: a rejection after the scan supersedes it; else    *)
(* its recorded verdict decides; a scan without a verdict clears only when *)
(* it found nothing.                                                       *)
LatestScanStanding(s) ==
    LET scan == Latest(s, "ScanCompleted")
    IN  IF scan = 0 THEN "Unobserved"
        ELSE IF Latest(s, "ArtifactRejected") > scan THEN "Superseded"
        ELSE IF VerdictsAfter(s, scan) # {}
             THEN IF VerdictOf(s, scan) = "Pass" THEN "Clears" ELSE "Holds"
        ELSE IF s[scan].arg = "clean" THEN "Clears" ELSE "Holds"

(* provenance_clearance_from: any ProvenanceVerified on the stream clears. *)
ProvenanceVerifiedOn(s) == \E i \in 1..Len(s) : s[i].type = "ProvenanceVerified"

(* Everything a decision reads off one observation of the stream. *)
Evidence(s) ==
    [reason |-> LastRejectionReason(s), standing |-> LatestScanStanding(s),
     found |-> LastScanCompleted(s), origin |-> LatestReleaseOrigin(s),
     verified |-> ProvenanceVerifiedOn(s)]

-----------------------------------------------------------------------------
(* The status a stream projects: the one its latest status-bearing event   *)
(* established.                                                            *)
StatusEvents == {"ArtifactQuarantined", "ArtifactReleased", "ArtifactRejected",
                 "ScanIndeterminate"}
LatestStatusEvent(s) ==
    CHOOSE i \in 0..Len(s) :
        /\ i > 0 => s[i].type \in StatusEvents
        /\ \A j \in 1..Len(s) : s[j].type \in StatusEvents => j <= i
EstablishedBy(type) ==
    CASE type = "ArtifactQuarantined" -> "Quarantined"
      [] type = "ArtifactReleased" -> "Released"
      [] type = "ArtifactRejected" -> "Rejected"
      [] type = "ScanIndeterminate" -> "ScanIndeterminate"
ProjectedStatus(s) ==
    IF LatestStatusEvent(s) = 0 THEN "None" ELSE EstablishedBy(s[LatestStatusEvent(s)].type)

=============================================================================
