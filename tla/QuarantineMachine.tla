-------------------------- MODULE QuarantineMachine --------------------------
(***************************************************************************)
(* What the artifact lifecycle promises, as one sequential state machine:  *)
(* every transition is a single step on the artifact's true state.  There  *)
(* is no stream, no row and no process here; the rejection axis, the       *)
(* standing of the latest scan, the origin of the latest release and the   *)
(* provenance clearance are plain state.  ArtifactLifecycle, where they    *)
(* are read back from an event stream by concurrent processes, is checked  *)
(* to implement this machine.                                              *)
(***************************************************************************)
EXTENDS QuarantineRules

CONSTANTS Policies   \* the scan policies an operator may put in force

VARIABLES status,    \* QuarantineStatus
          reason,    \* who rejected it last
          standing,  \* what the latest scan entitles the artifact to
          found,     \* what the latest scan found
          origin,    \* who released it last
          verified   \* a provenance verification is on record

machine == <<status, reason, standing, found, origin, verified>>

Init ==
    /\ status \in {"None", "Quarantined"}
    /\ reason = NoReason
    /\ standing = "Unobserved"
    /\ found = NotScanned
    /\ origin = NeverReleased
    /\ verified = FALSE

(* A rejection by anyone supersedes the scan before it. *)
Rejects(by) ==
    /\ status' = "Rejected"
    /\ reason' = by
    /\ standing' = IF found' = NotScanned THEN "Unobserved" ELSE "Superseded"

Releases(by) == status' = "Released" /\ origin' = by

(* A scan result is recorded in every status.  It rejects where the table  *)
(* and the operator's word allow, and may release a held artifact on its   *)
(* own authority.                                                          *)
RejectingScan(f, pol) ==
    /\ EvaluateScanResult(f, pol) = "Reject"
    /\ found' = f
    /\ IF CanRejectFromScan(status, origin) THEN Rejects("Scanner")
       ELSE standing' = "Holds" /\ UNCHANGED <<status, reason>>
    /\ UNCHANGED <<origin, verified>>

PassingScan(f, pol) ==
    /\ EvaluateScanResult(f, pol) # "Reject"
    /\ found' = f
    /\ standing' = IF EvaluateScanResult(f, pol) = "Clean" THEN "Clears" ELSE "Holds"
    /\ \/ UNCHANGED <<status, origin>>
       \/ /\ status = "Quarantined"
          /\ CanReleaseByTimer(status, standing', verified, pol)
          /\ Releases("Timer")
    /\ UNCHANGED <<reason, verified>>

(* The timer releases on the standing evidence, never on expiry alone. *)
TimerRelease(pol) ==
    /\ CanReleaseByTimer(status, standing, verified, pol)
    /\ Releases("Timer")
    /\ UNCHANGED <<reason, standing, found, verified>>

ScanFails ==
    /\ status \in AllowedFrom.FailScanIndeterminate
    /\ status' = "ScanIndeterminate"
    /\ UNCHANGED <<reason, standing, found, origin, verified>>

Waive ==
    /\ CanWaive(status, reason)
    /\ Releases("Curator")
    /\ UNCHANGED <<reason, standing, found, verified>>

CuratorBlock ==
    /\ status \in AllowedFrom.BlockByCurator
    /\ UNCHANGED <<found, origin, verified>>
    /\ Rejects("Curator")

(* Only a scan-axis rejection is re-judged, and only under a policy whose  *)
(* verdict no longer rejects; the release arm asks for provenance.         *)
ReEvaluate(pol) ==
    /\ status \in AllowedFrom.ReEvaluate /\ IsScanClearable(reason)
    /\ found # NotScanned
    /\ \E readable \in BOOLEAN : StoredVerdict(found, readable, pol) # "Reject"
    /\ \/ status' = "Quarantined" /\ UNCHANGED origin
       \/ ProvenanceClears(verified, pol) /\ Releases("PolicyReEvaluation")
    /\ UNCHANGED <<reason, standing, found, verified>>

(* A disproof rejects from every status and re-labels the rejection there  *)
(* is: CompleteProvenance has no source guard.                             *)
ProvenanceVerdict ==
    /\ UNCHANGED <<found, origin>>
    /\ \/ verified' = TRUE /\ UNCHANGED <<status, reason, standing>>
       \/ Rejects("Provenance") /\ UNCHANGED verified

(* The scrub condemns corrupt bytes whatever the status. *)
Tombstone == UNCHANGED <<found, origin, verified>> /\ Rejects("Corruption")

Next ==
    \/ \E pol \in Policies :
          \/ \E f \in Findings : RejectingScan(f, pol) \/ PassingScan(f, pol)
          \/ TimerRelease(pol)
          \/ ReEvaluate(pol)
    \/ ScanFails \/ Waive \/ CuratorBlock \/ ProvenanceVerdict \/ Tombstone

Spec == Init /\ [][Next]_machine

-----------------------------------------------------------------------------
(* The status, the derived rejection reason, release origin and scan       *)
(* standing range over the values the domain types have.                   *)
TypeOK ==
    /\ status \in Statuses
    /\ reason \in Reasons \cup {NoReason}
    /\ standing \in Standings
    /\ found \in Findings \cup {NotScanned}
    /\ origin \in ReleaseReasons \cup {NeverReleased}
    /\ verified \in BOOLEAN

(* A rejected artifact's axis is known, and no waive, scan or re-judgement *)
(* lifts a rejection while its axis is a corruption                        *)
(* (is_curator_overridable, is_scan_clearable).  Only a later disproof of  *)
(* the provenance gives it another axis.                                   *)
RejectionsStand ==
    /\ status = "Rejected" => reason # NoReason
    /\ reason = "Corruption" => status = "Rejected"

=============================================================================
