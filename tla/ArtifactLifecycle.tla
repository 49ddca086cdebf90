-------------------------- MODULE ArtifactLifecycle --------------------------
(***************************************************************************)
(* One artifact: its event stream, its projection row, and the server,     *)
(* worker and scheduler processes whose use cases read both, decide, and   *)
(* commit behind an optimistic append.                                     *)
(*                                                                         *)
(* Three read disciplines meet here:                                       *)
(*   load   ArtifactAtVersion::load - stream version first, then the row;  *)
(*   pair   ArtifactAtVersion::pair (and cascade_one) - a row from a bulk  *)
(*          page, then the stream version;                                 *)
(*   any    the CAS scrub - a row, then an append with no expected version.*)
(* A commit is one database transaction, so it is one step; every read is  *)
(* a step of its own.  A crash is a process that takes no further step.    *)
(***************************************************************************)
EXTENDS LifecyclePlans, FiniteSets

CONSTANTS Procs,     \* concurrent use-case executions
          Ops,       \* the operations they may run
          Policies,  \* the scan policies an operator may put in force
          Cap,       \* STREAM_EVENT_CAP
          Horizon,   \* the clock's last tick
          Oversized, \* the blob is of MAX_PROVENANCE_READ_BYTES or more
          Changes    \* what may change around the processes

LoadOps == {"scan", "indeterminate", "sweep", "waive", "reevaluate", "block", "verify"}
PassOps == {"loosen", "tighten", "retroCuration", "cascade", "cascadeRetry"}
AllOps == LoadOps \cup PassOps \cup {"scrub"}

(* The operations that commit through commit_scan_result_with_score or     *)
(* commit_provenance_verdict: the row is written only when the status      *)
(* changes, and only from the status that was loaded.                      *)
VerdictOps == {"scan", "verify", "cascade", "cascadeRetry"}

ASSUME OpsAssumption == Ops \subseteq AllOps
ASSUME PoliciesAssumption == Policies \subseteq ScanPolicies /\ Policies # {}
ASSUME CapAssumption == Cap \in Nat \ {0}
ASSUME HorizonAssumption == Horizon \in Nat
ASSUME OversizedAssumption == Oversized \in BOOLEAN
ASSUME ChangesAssumption == Changes \subseteq {"policy", "curation", "bitrot"}

VARIABLES stream,         \* the artifact's events, in stream order
          status,         \* quarantine_status of the projection row
          anchored,       \* quarantine_window_start is set
          policy,         \* the policy in force for the repository
          curationBlock,  \* an active curation rule blocks the artifact
          blobOk,         \* the stored bytes match their content hash
          clock,
          task            \* what each process has read and decided

vars == <<stream, status, anchored, policy, curationBlock, blobOk, clock, task>>
env == <<anchored, policy, curationBlock, blobOk, clock>>

SomePolicy == CHOOSE pol \in Policies : TRUE

(* The local variables of one use-case call: the version and row it read,  *)
(* the policy and instant it works with, the plan it derived.              *)
Idle == [pc |-> "idle", op |-> "none", ver |-> 0, row |-> "None",
         pol |-> SomePolicy, now |-> 0, batch |-> << >>, to |-> "None"]

Tasks == [pc : {"idle", "picked", "read", "derived", "decided"},
          op : AllOps \cup {"none"}, ver : Nat, row : Statuses,
          pol : Policies, now : 0..Horizon, batch : Seq(Events), to : Statuses]

-----------------------------------------------------------------------------
(* Ingest commits the artifact with its hold, or without one. *)
Init ==
    /\ \/ /\ stream = <<Plain("ArtifactIngested"), Plain("ArtifactQuarantined")>>
          /\ status = "Quarantined"
          /\ anchored = TRUE
       \/ /\ stream = <<Plain("ArtifactIngested")>>
          /\ status = "None"
          /\ anchored = FALSE
    /\ policy \in Policies
    /\ curationBlock = FALSE
    /\ blobOk = TRUE
    /\ clock = 0
    /\ task = [p \in Procs |-> Idle]

-----------------------------------------------------------------------------
(* The surroundings: time, operators and bit rot. *)
Tick ==
    /\ clock < Horizon
    /\ clock' = clock + 1
    /\ UNCHANGED <<stream, status, anchored, policy, curationBlock, blobOk, task>>

(* PolicyUseCase mutations end in a projection write. *)
SetPolicy ==
    /\ "policy" \in Changes
    /\ \E pol \in Policies \ {policy} : policy' = pol
    /\ UNCHANGED <<stream, status, anchored, curationBlock, blobOk, clock, task>>

(* A curation rule that blocks the artifact is saved, or removed. *)
SetCuration ==
    /\ "curation" \in Changes
    /\ curationBlock' = ~curationBlock
    /\ UNCHANGED <<stream, status, anchored, policy, blobOk, clock, task>>

BitRot ==
    /\ "bitrot" \in Changes
    /\ blobOk
    /\ blobOk' = FALSE
    /\ UNCHANGED <<stream, status, anchored, policy, curationBlock, clock, task>>

-----------------------------------------------------------------------------
(* Mutant: the expected version is read apart from the capped prefix. *)
SeenVersionUncapped == Len(stream)

(* capped_artifact_read: at most Cap + 1 events come back, and the expected *)
(* version is the position of the last of them.                            *)
SeenVersion == IF Len(stream) > Cap THEN Cap + 1 ELSE Len(stream)

(* over_cap_refusal's condition. *)
OverCap(ver) == ver > Cap

(* The evidence behind a version: the prefix that read returned. *)
EvidenceAt(ver) == Evidence(SubSeq(stream, 1, ver))

(* The plan was derived: commit it, or return early when it is empty. *)
Decide(p, t, plan) ==
    task' = [task EXCEPT ![p] =
               IF plan.batch = << >> THEN Idle
               ELSE [t EXCEPT !.pc = "decided", !.batch = plan.batch, !.to = plan.to]]

(* select_expired: the sweep's candidate query. *)
SelectExpired(p) ==
    /\ "sweep" \in Ops
    /\ task[p].pc = "idle"
    /\ status = "Quarantined" /\ anchored /\ DeadlinePassed(policy, clock)
    /\ task' = [task EXCEPT ![p] = [Idle EXCEPT !.pc = "picked", !.op = "sweep"]]
    /\ UNCHANGED <<stream, status, env>>

(* ArtifactAtVersion::load, first half: the stream and its version.  The   *)
(* scan's handler fixed its instant before that read.                      *)
ReadStream(p, op) ==
    /\ \/ op # "sweep" /\ task[p].pc = "idle"
       \/ op = "sweep" /\ task[p].pc = "picked" /\ task[p].op = "sweep"
    /\ task' = [task EXCEPT ![p] = [Idle EXCEPT !.pc = "read", !.op = op, !.ver = SeenVersion,
                                        !.now = IF op = "scan" THEN clock ELSE 0]]
    /\ UNCHANGED <<stream, status, env>>

(* ArtifactAtVersion::load, second half: the row; then the policy, the     *)
(* derivation and the entity call.  These later reads are taken with the   *)
(* row: a commit between them makes the append fail either way.            *)
LoadRow(p) == [task[p] EXCEPT !.row = status, !.now = 0]

DecideScan(p, found) ==
    /\ task[p].pc = "read" /\ task[p].op = "scan"
    /\ LET t == LoadRow(p) IN
       Decide(p, t, IF OverCap(t.ver) THEN NoPlan(t.row)
                    ELSE ScanPlan(t.row, EvidenceAt(t.ver), anchored, found, policy, task[p].now))
    /\ UNCHANGED <<stream, status, env>>

DecideSweep(p) ==
    /\ task[p].pc = "read" /\ task[p].op = "sweep"
    /\ LET t == LoadRow(p) IN
       Decide(p, t, IF OverCap(t.ver) THEN NoPlan(t.row)
                    ELSE SweepPlan(t.row, EvidenceAt(t.ver), policy))
    /\ UNCHANGED <<stream, status, env>>

DecideIndeterminate(p) ==
    /\ task[p].pc = "read" /\ task[p].op = "indeterminate"
    /\ LET t == LoadRow(p) IN Decide(p, t, IndeterminatePlan(t.row))
    /\ UNCHANGED <<stream, status, env>>

DecideWaive(p) ==
    /\ task[p].pc = "read" /\ task[p].op = "waive"
    /\ LET t == LoadRow(p) IN
       Decide(p, t, IF OverCap(t.ver) /\ t.row = "Rejected" THEN NoPlan(t.row)
                    ELSE WaivePlan(t.row, EvidenceAt(t.ver)))
    /\ UNCHANGED <<stream, status, env>>

DecideBlock(p) ==
    /\ task[p].pc = "read" /\ task[p].op = "block"
    /\ LET t == LoadRow(p) IN Decide(p, t, BlockPlan(t.row))
    /\ UNCHANGED <<stream, status, env>>

DecideReevaluate(p, readable) ==
    /\ task[p].pc = "read" /\ task[p].op = "reevaluate"
    /\ LET t == LoadRow(p) IN
       Decide(p, t, IF OverCap(t.ver) THEN NoPlan(t.row)
                    ELSE ReevaluatePlan(t.row, EvidenceAt(t.ver), anchored, policy, clock,
                                        readable, curationBlock))
    /\ UNCHANGED <<stream, status, env>>

(* Mutant: the verifier trusts whatever bytes the store returns. *)
DecideVerifyUnchecked(p, outcome) ==
    /\ task[p].pc = "read" /\ task[p].op = "verify"
    /\ LET t == LoadRow(p) IN
       Decide(p, t, IF OverCap(t.ver) /\ policy.provenance = "Required" THEN NoPlan(t.row)
                    ELSE VerifyPlan(t.row, EvidenceAt(t.ver), outcome, policy))
    /\ UNCHANGED <<stream, status, env>>

(* read_bounded takes the artifact's bytes through a verifying reader,     *)
(* which compares at the end of the file: a corrupt blob yields no verdict *)
(* unless the read stops at its limit first.  The bytes it returned then   *)
(* need not decide anything, a keyed signature binds to the recorded hash. *)
MayYield(outcome) == ~blobOk /\ ~Oversized => outcome = "Indeterminate"

DecideVerify(p, outcome) ==
    /\ task[p].pc = "read" /\ task[p].op = "verify"
    /\ MayYield(outcome)
    /\ LET t == LoadRow(p) IN
       Decide(p, t, IF OverCap(t.ver) /\ policy.provenance = "Required" THEN NoPlan(t.row)
                    ELSE VerifyPlan(t.row, EvidenceAt(t.ver), outcome, policy))
    /\ UNCHANGED <<stream, status, env>>

-----------------------------------------------------------------------------
(* try_tombstone_artifact: the scrub found a mismatch and loads the row.   *)
DecideScrub(p) ==
    /\ "scrub" \in Ops
    /\ task[p].pc = "idle"
    /\ ~blobOk
    /\ LET t == [Idle EXCEPT !.op = "scrub", !.row = status] IN
       Decide(p, t, TombstonePlan(t.row))
    /\ UNCHANGED <<stream, status, env>>

(* A bulk pass lists its population: list_rejected_for_policy,             *)
(* list_active_for_policy, list_active_for_repo, or the constituent row a  *)
(* cascade looked up.  Policy and instant are fixed for the whole pass.    *)
Listed(op) ==
    \/ op = "loosen" /\ status = "Rejected"
    \/ op = "tighten" /\ status \in {"Quarantined", "Released"}
    \/ op = "retroCuration" /\ status \in {"Quarantined", "Released"} /\ curationBlock
    \/ op = "cascade" /\ status \in AllowedFrom.CascadeProvenanceClearance

ListPage(p, op) ==
    /\ task[p].pc = "idle"
    /\ Listed(op)
    /\ task' = [task EXCEPT ![p] = [Idle EXCEPT !.pc = "picked", !.op = op, !.row = status,
                                        !.pol = policy, !.now = clock]]
    /\ UNCHANGED <<stream, status, env>>

(* ArtifactAtVersion::pair: the stream version is read now, for a row that *)
(* is as old as its page.                                                  *)
Paired(p) == [task[p] EXCEPT !.ver = SeenVersion]

PairTighten(p, readable) ==
    /\ task[p].pc = "picked" /\ task[p].op = "tighten"
    /\ LET t == Paired(p) IN
       Decide(p, t, IF OverCap(t.ver) THEN NoPlan(t.row)
                    ELSE TightenPlan(t.row, EvidenceAt(t.ver), t.pol, readable))
    /\ UNCHANGED <<stream, status, env>>

PairRetroCuration(p) ==
    /\ task[p].pc = "picked" /\ task[p].op = "retroCuration"
    /\ LET t == Paired(p) IN Decide(p, t, RetroBlockPlan(t.row))
    /\ UNCHANGED <<stream, status, env>>

(* cascade_one; its single retry after a conflict keeps the row. *)
PairCascade(p) ==
    /\ task[p].pc = "picked" /\ task[p].op \in {"cascade", "cascadeRetry"}
    /\ LET t == Paired(p) IN
       Decide(p, t, IF OverCap(t.ver) THEN NoPlan(t.row)
                    ELSE CascadePlan(t.row, EvidenceAt(t.ver)))
    /\ UNCHANGED <<stream, status, env>>

(* re_evaluate_one_rejected: the decision, at the instant the pass began. *)
PairLoosen(p, readable) ==
    /\ task[p].pc = "picked" /\ task[p].op = "loosen"
    /\ LET t == Paired(p)
           ev == EvidenceAt(t.ver)
           to == RejectedOutcome(ev, anchored, t.pol, t.now, readable)
       IN  task' = [task EXCEPT ![p] =
                      IF ~OverCap(t.ver) /\ MayReEvaluate(t.row, ev, to, t.pol, curationBlock)
                      THEN [t EXCEPT !.pc = "derived", !.to = to]
                      ELSE Idle]
    /\ UNCHANGED <<stream, status, env>>

(* The arm Artifact::re_evaluate takes at the instant it is called; the    *)
(* provenance clearance it was handed clears on either arm.                *)
ReEvaluateAt(pol, now) ==
    IF anchored /\ ~DeadlinePassed(pol, now) THEN "Quarantined" ELSE "Released"

(* Mutant: the audit event reads the clock again, the entity is handed the *)
(* instant of the pass.                                                    *)
ReEvaluateRejectedSwapped(p) ==
    /\ task[p].pc = "derived"
    /\ LET t == task[p]
           told == ReEvaluateAt(t.pol, clock)
       IN  Decide(p, t, Plan(<<ArtifactReEvaluated(told), ReEvaluationCompanion(t.to)>>, t.to))
    /\ UNCHANGED <<stream, status, env>>

(* commit_re_evaluation up to its commit: the entity re-evaluates against  *)
(* a fresh Utc::now(), the audit event keeps the status the caller passed. *)
ReEvaluateRejected(p) ==
    /\ task[p].pc = "derived"
    /\ LET t == task[p]
           to == ReEvaluateAt(t.pol, clock)
       IN  Decide(p, t, Plan(<<ArtifactReEvaluated(t.to), ReEvaluationCompanion(to)>>, to))
    /\ UNCHANGED <<stream, status, env>>

-----------------------------------------------------------------------------
(* Mutant: any version the stream has reached is accepted. *)
VersionHoldsWhenReached(t) == t.op = "scrub" \/ t.ver <= Len(stream)

(* append_with_conn's version check; the scrub appends with Any. *)
VersionHolds(t) == t.op = "scrub" \/ t.ver = Len(stream)

(* save_verdict_status_in_tx's condition on the row. *)
RowHolds(t) == t.op \in VerdictOps /\ t.to # t.row => status = t.row

(* Mutant: a verdict that changes nothing writes the row it read. *)
WrittenStatusAlways(t) == t.to

(* save_in_tx writes the whole row; a verdict that changes nothing leaves  *)
(* the row alone.                                                          *)
WrittenStatus(t) == IF t.op \in VerdictOps /\ t.to = t.row THEN status ELSE t.to

(* The transaction of the lifecycle port: events and row, or neither. *)
Commit(p) ==
    /\ task[p].pc = "decided"
    /\ VersionHolds(task[p]) /\ RowHolds(task[p])
    /\ stream' = stream \o task[p].batch
    /\ status' = WrittenStatus(task[p])
    /\ task' = [task EXCEPT ![p] = Idle]
    /\ UNCHANGED env

(* A conflict writes nothing.  The call fails or is skipped; only the      *)
(* cascade tries once more.                                                *)
Conflict(p) ==
    /\ task[p].pc = "decided"
    /\ ~(VersionHolds(task[p]) /\ RowHolds(task[p]))
    /\ task' = [task EXCEPT ![p] =
                  IF @.op = "cascade"
                  THEN [@ EXCEPT !.pc = "picked", !.op = "cascadeRetry", !.ver = 0,
                                 !.batch = << >>, !.to = "None"]
                  ELSE Idle]
    /\ UNCHANGED <<stream, status, env>>

-----------------------------------------------------------------------------
Step(p) ==
    \/ SelectExpired(p)
    \/ \E op \in LoadOps \cap Ops : ReadStream(p, op)
    \/ \E found \in Findings : DecideScan(p, found)
    \/ DecideSweep(p)
    \/ DecideIndeterminate(p)
    \/ DecideWaive(p)
    \/ DecideBlock(p)
    \/ \E readable \in BOOLEAN : DecideReevaluate(p, readable)
    \/ \E outcome \in {"Verified", "Rejected", "NoAttestation", "Indeterminate"} :
          DecideVerify(p, outcome)
    \/ DecideScrub(p)
    \/ \E op \in PassOps \cap Ops : ListPage(p, op)
    \/ \E readable \in BOOLEAN : PairTighten(p, readable)
    \/ PairRetroCuration(p)
    \/ PairCascade(p)
    \/ \E readable \in BOOLEAN : PairLoosen(p, readable)
    \/ ReEvaluateRejected(p)
    \/ Commit(p)
    \/ Conflict(p)

Next == Tick \/ SetPolicy \/ SetCuration \/ BitRot \/ \E p \in Procs : Step(p)

Spec == Init /\ [][Next]_vars

(* The shapes of the row, the stream, the calls in flight and the          *)
(* surroundings: every status, event and plan is one the code can write.   *)
TypeOK ==
    /\ stream \in Seq(Events)
    /\ status \in Statuses
    /\ anchored \in BOOLEAN
    /\ policy \in Policies
    /\ curationBlock \in BOOLEAN
    /\ blobOk \in BOOLEAN
    /\ clock \in 0..Horizon
    /\ task \in [Procs -> Tasks]

-----------------------------------------------------------------------------
(* The row is the projection of the stream: whatever interleaving of       *)
(* conditional, unconditional and absent row writes the commits took, the  *)
(* status equals the one the latest status-bearing event established, so a *)
(* rejected row always has its ArtifactRejected (ADR 0039, D6).            *)
StatusIsProjection == status = ProjectedStatus(stream)

(* The contract of ArtifactAtVersion::load: a decision whose version still *)
(* holds was taken on the row as it is now, although the row was read      *)
(* after the version and no lock is held.                                  *)
LoadedRowIsCurrent ==
    \A p \in Procs :
        task[p].pc = "decided" /\ task[p].op \in LoadOps /\ VersionHolds(task[p])
            => task[p].row = status

(* Whether the transition table and the extra conjuncts of the entity      *)
(* methods admit an event on an artifact in a given status with given      *)
(* evidence.  A provenance disproof and a corruption tombstone are         *)
(* admitted everywhere.                                                    *)
Admits(st, ev, e) ==
    CASE e.type = "ArtifactQuarantined" -> st \in AllowedFrom.ReEvaluate /\ IsScanClearable(ev.reason)
      [] e.type = "ScanIndeterminate" -> st \in AllowedFrom.FailScanIndeterminate
      [] e = ArtifactReleased("Timer") -> st \in AllowedFrom.Release \ {"Rejected"}
      [] e = ArtifactReleased("Curator") -> CanWaive(st, ev.reason)
      [] e = ArtifactReleased("PolicyReEvaluation") ->
            st \in AllowedFrom.ReEvaluate /\ IsScanClearable(ev.reason)
      [] e = ArtifactRejected("Scanner") -> CanRejectFromScan(st, ev.origin)
      [] e = ArtifactRejected("Curator") -> st \in AllowedFrom.BlockByCurator
      [] e = ArtifactRejected("CurationRetroactive") ->
            st \in AllowedFrom.RejectFromRetroactiveCuration
      [] e = ArtifactRejected("ScanPolicyRetroactive") ->
            st \in AllowedFrom.RejectFromScanPolicyRetroactive
      [] OTHER -> TRUE

(* Every committed event was admissible on the artifact's status and       *)
(* evidence at the moment of the commit, not merely when it was decided:   *)
(* no lost update (an operator's release outweighing a later scan verdict, *)
(* a waive reaching only overridable axes) survives the optimistic append. *)
CommitsFollowTable ==
    [][\A i \in (Len(stream) + 1)..Len(stream') : Admits(status, Evidence(stream), stream'[i])]_vars

(* The policies that may have been in force when a past decision was taken. *)
InForce == IF "policy" \in Changes THEN Policies ELSE {policy}

(* Every timer release stands on the evidence that preceded it on the      *)
(* stream: scan authority and provenance clearance under a policy that was *)
(* in force (ADR 0007, the fail-closed release predicate).                 *)
TimerReleasesJustified ==
    \A i \in 1..Len(stream) :
        stream[i] = ArtifactReleased("Timer") =>
            LET ev == Evidence(SubSeq(stream, 1, i - 1))
            IN  \E pol \in InForce : /\ HasScanAuthority(ev.standing, pol)
                                     /\ ProvenanceClears(ev.verified, pol)

(* Every release by a curator's re-evaluation met the conjunction of ADR   *)
(* 0041 invariant #6 on provenance.  (The loosen pass takes its instant    *)
(* twice and may release past it when the window ends in between.)         *)
ReEvaluationReleasesJustified ==
    \A i \in 1..Len(stream) :
        stream[i] = ArtifactReleased("PolicyReEvaluation") =>
            \E pol \in InForce : ProvenanceClears(ProvenanceVerifiedOn(SubSeq(stream, 1, i - 1)), pol)

(* The audit event of a re-evaluation announces the status its companion   *)
(* event established, or a hold where there was a release: the loosen pass *)
(* decides at one instant and the entity applies at a later one, and the   *)
(* window may end in between (commit_re_evaluation).  A release it         *)
(* announces is never undone by the entity's own reading of the deadline.  *)
AuditErrsOnHoldsOnly ==
    \A i \in 1..Len(stream) :
        stream[i].type = "ArtifactReEvaluated" =>
            /\ i < Len(stream)
            /\ \/ stream[i].arg = EstablishedBy(stream[i + 1].type)
               \/ stream[i].arg = "Quarantined" /\ stream[i + 1].type = "ArtifactReleased"

(* An artifact condemned for corrupt bytes stays rejected: no later        *)
(* verdict re-labels the rejection with an axis a waive or a re-judgement  *)
(* may lift (try_tombstone_artifact, is_curator_overridable), except that  *)
(* a verification of a blob beyond the read limit may disprove its         *)
(* provenance afterwards, and that axis can be waived.  The two passes     *)
(* that reject from a page are the other exceptions: a tighten or a        *)
(* retroactive-curation page older than the tombstone.                     *)
CorruptionIsFinal ==
    \A i \in 1..Len(stream) :
        stream[i] = ArtifactRejected("Corruption") =>
            \/ status = "Rejected"
            \/ Oversized /\ \E j \in (i + 1)..Len(stream) : stream[j] = ArtifactRejected("Provenance")

(* Under Required provenance a clearance is recorded once, however many    *)
(* verifications and cascades race for it (verify_artifact's early return, *)
(* cascade_one's idempotence).                                             *)
ClearedOnce ==
    (\A pol \in InForce : pol.provenance = "Required")
        => Cardinality(Positions(stream, "ProvenanceVerified")) <= 1

(* The freeze at the event cap: past one event more than the cap, a read   *)
(* no longer reaches the tail and no decision of this module appends any   *)
(* more, be it one that refuses such a stream or one that tolerates it.    *)
(* The corruption tombstone carries no version and still lands, as do the  *)
(* closing events of purge and delete, which this module does not have.    *)
FrozenPastCap ==
    [][Len(stream) > Cap + 1
         => stream' = stream \/ stream'[Len(stream')] = ArtifactRejected("Corruption")]_vars

-----------------------------------------------------------------------------
(* The lifecycle implements the sequential machine: every commit is one    *)
(* atomic transition on the artifact's true state.                         *)
Machine == INSTANCE QuarantineMachine WITH
              reason <- LastRejectionReason(stream),
              standing <- LatestScanStanding(stream),
              found <- LastScanCompleted(stream),
              origin <- LatestReleaseOrigin(stream),
              verified <- ProvenanceVerifiedOn(stream)
ImplementsMachine == Machine!Spec

=============================================================================
