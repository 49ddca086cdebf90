---------------------- MODULE QuarantineMachineProofs ----------------------
(***************************************************************************)
(* The sequential machine is well typed and its rejections stand, for      *)
(* every set of policies.                                                  *)
(***************************************************************************)
EXTENDS QuarantineMachine, TLAPS

(* What a rejection leaves behind. *)
LEMMA RejectsFacts ==
    ASSUME TypeOK, NEW by \in Reasons, Rejects(by),
           found' \in Findings \cup {NotScanned}
    PROVE  /\ status' = "Rejected" /\ reason' = by
           /\ status' \in Statuses /\ reason' \in Reasons
           /\ standing' \in Standings
  BY DEF Rejects, Statuses, Standings

(* The reason constants are reasons, and none of them is the missing one. *)
LEMMA ReasonFacts ==
    /\ {"Scanner", "Curator", "Provenance", "Corruption"} \subseteq Reasons
    /\ NoReason \notin Reasons
    /\ \A r : IsScanClearable(r) => r # "Corruption"
    /\ \A r : IsCuratorOverridable(r) => r # "Corruption"
  BY DEF Reasons, NoReason, IsScanClearable, IsCuratorOverridable

MachineInv == TypeOK /\ RejectionsStand

LEMMA MachineInit == Init => MachineInv
  BY DEF Init, MachineInv, TypeOK, RejectionsStand, Statuses, Reasons, NoReason, Standings,
         Findings, NotScanned, ReleaseReasons, NeverReleased

(* Every transition of the entity preserves both. *)
LEMMA MachineStep == MachineInv /\ [Next]_machine => MachineInv'
<1> SUFFICES ASSUME MachineInv, [Next]_machine PROVE MachineInv'
    OBVIOUS
<1> USE DEF MachineInv, RejectionsStand
<1>1. ASSUME NEW pol \in Policies, NEW f \in Findings, RejectingScan(f, pol) PROVE MachineInv'
  <2>1. found' = f /\ origin' = origin /\ verified' = verified
    BY <1>1 DEF RejectingScan
  <2>2. CASE CanRejectFromScan(status, origin)
    <3>1. Rejects("Scanner")
      BY <1>1, <2>2 DEF RejectingScan
    <3> QED
      BY <2>1, <3>1, RejectsFacts, ReasonFacts DEF TypeOK
  <2>3. CASE ~CanRejectFromScan(status, origin)
    BY <1>1, <2>1, <2>3 DEF RejectingScan, TypeOK, Standings
  <2> QED BY <2>2, <2>3
<1>2. ASSUME NEW pol \in Policies, NEW f \in Findings, PassingScan(f, pol) PROVE MachineInv'
  BY <1>2 DEF PassingScan, Releases, TypeOK, Statuses, Standings, ReleaseReasons
<1>3. ASSUME NEW pol \in Policies, TimerRelease(pol) PROVE MachineInv'
  BY <1>3 DEF TimerRelease, CanReleaseByTimer, Releases, TypeOK, Statuses, ReleaseReasons
<1>4. ASSUME NEW pol \in Policies, ReEvaluate(pol) PROVE MachineInv'
  BY <1>4, ReasonFacts DEF ReEvaluate, Releases, TypeOK, Statuses, ReleaseReasons
<1>5. CASE ScanFails
  BY <1>5 DEF ScanFails, AllowedFrom, TypeOK, Statuses
<1>6. CASE Waive
  BY <1>6, ReasonFacts DEF Waive, CanWaive, Releases, TypeOK, Statuses, ReleaseReasons
<1>7. CASE CuratorBlock
  BY <1>7, RejectsFacts, ReasonFacts DEF CuratorBlock, TypeOK
<1>8. CASE ProvenanceVerdict
  BY <1>8, RejectsFacts, ReasonFacts DEF ProvenanceVerdict, TypeOK
<1>9. CASE Tombstone
  BY <1>9, RejectsFacts, ReasonFacts DEF Tombstone, TypeOK
<1>10. CASE UNCHANGED machine
  BY <1>10 DEF machine, TypeOK
<1> QED
  BY <1>1, <1>2, <1>3, <1>4, <1>5, <1>6, <1>7, <1>8, <1>9, <1>10 DEF Next

(* The machine never leaves its types. *)
THEOREM MachineTypeCorrect == Spec => []TypeOK
<1>1. MachineInv => TypeOK BY DEF MachineInv
<1> QED BY <1>1, MachineInit, MachineStep, PTL DEF Spec

(* A rejected artifact's axis is known, and no rejection is lifted while   *)
(* its axis is a corruption, whatever the order of scans, waives,          *)
(* re-judgements and verifications.                                        *)
THEOREM MachineRejectionsStand == Spec => []RejectionsStand
<1>1. MachineInv => RejectionsStand BY DEF MachineInv
<1> QED BY <1>1, MachineInit, MachineStep, PTL DEF Spec

=============================================================================
