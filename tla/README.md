# Verification of hort

hort is a package registry that holds every artifact it ingests in quarantine until a policy lets
it go. What makes it correct is mostly one thing: **an artifact is delivered only on evidence, and
no race between the many use cases that touch it may change that.** This directory models that
core in TLA+, and the five mechanisms it stands on: the job queue that runs it, the event store
that records it, the policy projection that steers it, the reclaiming of the bytes it is about and
the coalescing of the pulls that bring them. TLC checks small instances; the safety properties the
runs check are all proved with TLAPS for every instance, some of them without the operations with
which they are false (section 4).

Paths below are relative to `src/crates/`.

## 1. The system

hort is a hexagonal Rust program: a pure domain crate (`hort-domain`), use cases (`hort-app`),
adapters (PostgreSQL, object storage, scanners, upstreams), HTTP surfaces per package format, a
server and a worker. Several server and worker processes share one PostgreSQL database and one
content-addressed store (CAS); there is no lock service. Coordination is by optimistic appends to
per-artifact event streams, by conditional row updates and by leased rows of a jobs table.

### Inventory

| Component | State | Operations | Hard behaviour | What makes it correct |
|---|---|---|---|---|
| Quarantine state machine (`hort-domain/src/entities/artifact.rs`, `quarantine_transitions.rs`) | status, rejection axis, window, computed deadline | quarantine, scan verdicts, release, waive, block, re-evaluate, provenance verdict, cascade, tombstone, retroactive rejections | long sequences of verdicts on five axes | a release has scan authority and provenance; an operator's decision outweighs a scanner's; corruption is final |
| Verdicts (`policy/scan.rs`, `policy/re_evaluation.rs`, `entities/scan_policy.rs`) | none (pure) | evaluate findings or counts, decide a rejected artifact's outcome | degraded evidence, boundary of the window | agrees with the entity that applies it |
| Evidence (`use_cases/scan_history.rs`, `release_clearance.rs`) | derived from the stream | scan standing, last rejection, release origin, provenance clearance | order of events on a long stream | never more permissive than the stream's latest word |
| Pairing (`use_cases/mod.rs`, `ArtifactAtVersion`) | a version and a row | `load`, `pair`, capped read | two reads without a lock; the event cap | a decision that commits was taken on the true state |
| Use cases (`quarantine_use_case.rs`, `curation_use_case.rs`, `policy_use_case.rs`, `apply_config_use_case/curation.rs`, `provenance_orchestration.rs`, `provenance_cascade.rs`, `cas_scrub_use_case.rs`) | local variables of a call | read, decide, commit | all of them run concurrently on one artifact | every commit is one transition of the state machine |
| Lifecycle port (`hort-adapters-postgres/src/artifact_lifecycle.rs`, `artifact_repo.rs`, `event_store.rs`) | `events`, `artifacts` | append with expected version + row write in one transaction | three different row-write rules | the row is the projection of the stream |
| Release sweep (`task_handlers/quarantine_release_sweep.rs`, `quarantine_release_candidates.rs`) | attempt cursor | select, attempt, stamp | bounded batch, overlapping and failing ticks | nothing releasable starves |
| Policy stream and projection (`policy_use_case.rs`, `scan_policy_fold.rs`, `policy_projection_repo.rs`) | policy events, projection row, exclusion rows | create, update, archive, reactivate, exclusions | append, then upsert, then enqueue, no transaction (ADR 0060) | the row is never a mixture, an undisturbed call that writes heals it, a call told "done" is on record |
| Event store (`event_store.rs`, `events/chain.rs`, retention, archive, checkpoint, `verify-event-chain`) | hash chain per stream, tombstones, anchored checkpoints | append, seal, emit, verify | unlocked tail reads, append against seal, overlapping emissions | streams are chains, seals remove what was proved, losses are reported, alarms have a cause |
| Job queue (`jobs_repository.rs`, `task_dispatcher.rs`, `task_use_case.rs`) | jobs rows with leases and attempts, executions in memory | enqueue, claim, renew, record, retry, sweep, roll back | stalls past a lease, two executions of a row, starvation | a late worker is fenced, the budget holds, every row ends |
| Ingest, upload sessions | CAS, sessions | put, verify, commit, roll back | bytes first, claim later; caps (ADR 0042) | an artifact in service has its bytes |
| Pull de-duplication (`pull_dedup.rs`, ephemeral stores) | a window per replica, a record per key in the shared store | join, elect, poll, lead, forget | dropped and wedged leaders, an unreliable store, entries owned by nobody (ADR 0020, 0050) | nobody waits for ever, no key stays locked, a disproved answer is not handed on |
| Purge, retention, reference counts (`purge_use_case.rs`, `purge_gc.rs`, `blob_lock.rs`, `refcount_reconcile.rs`) | content references, purge worklist, advisory locks, CAS | expire, prepare, reclaim, complete, reconcile | delete against upload, retries on stale counts, two stores | bytes go only when nobody claims them |
| Notifications (ADR 0061) | delivery cursors | dispatch, retry | lost and repeated deliveries | at-least-once, in order |
| Auth, GitOps apply, promotion, formats, HTTP, CLI, storage and upstream adapters | mostly none of the lifecycle's | | | |

**How the parts interact.** A *scan job* ends in `record_scan_result` or
`record_scan_indeterminate`; a *timer job* in `release_expired`; a curator's HTTP call in
`waive`, `block` or `reevaluate`; a change of policy in a *re-evaluation pass* over rejected
(loosen) and active (tighten) artifacts; a new curation rule in a *retroactive pass*; a
*provenance job* in `verify_artifact` and, from a verified parent, in `cascade_one`; a *scrub* of
the store in a tombstone. All of them follow one pattern: read the artifact's row and stream,
derive evidence, call a method of the entity, commit events and row in one transaction. They
differ in how the version they append with relates to the row they decided on, and that is where
the races are.

`PROJECT.json` lists the hazards with their lines and the properties that cover them.

## 2. Modules

```
QuarantineRules      verdicts, transition table, eligibility (pure)
  ArtifactStream       events; evidence derived from a stream
    LifecyclePlans       per operation: the events and the status it commits
      ArtifactLifecycle    the concurrent system on one artifact
        ArtifactLifecycleProofs    types; the load contract and the table; what the stream
                                   says; the refinement
  QuarantineMachine    the sequential specification
    QuarantineMachineProofs

ReleaseSweep         the timer sweep over many artifacts
  SweepRotation        ... with a history variable for the rotation bound
TightenWalk          the paginated walk of the tighten pass
  BacklogProofs        the bounds of both: batches and artifacts left out

JobQueue             rows, leases, executions, the fence, the abandoned-lease sweep
  JobQueueProofs       the retry budget, the fence, terminal rows
EventChain           appends, seals, checkpoints and the verifier
  EventChainProofs     one chain, losses and alarms, what a seal removes
PolicyProjection     the policy stream, its rows and the passes it owes
  PolicyProjectionProofs   rows follow the stream; what a call that succeeds leaves
BlobReclaim          uploads, rejections and the purge over shared blobs
  BlobReclaimProofs    who loses bytes, and who is told so
PullDedup            coalesced pulls of one key on several replicas
  PullDedupProofs      entries, silence, disproved answers, the lock

MCPolicies, MCArtifactLifecycle, MCSweepRotation, MCJobQueue, MCEventChain,
MCPolicyProjection, MCBlobReclaim, MCPullDedup
```

### QuarantineRules

The pure part of the domain. Findings are `clean`, `low` or `high`: two severities are enough for a
policy that tolerates some findings and not others. A policy is a record: the findings it rejects
(`blocks`), the findings it rejects when only counts are available and exclusions cannot be applied
(`raw`), whether a verdict rejects or is only recorded, whether scanning is waived, the provenance
mode and the quarantine duration. `AllowedFrom` is the transition table of
`quarantine_transitions.rs`; `IsScanClearable`, `IsCuratorOverridable`, `PermitsScanReblock`,
`CanRejectFromScan`, `CanReleaseByTimer`, `CanWaive` are the conjuncts the entity methods add.
The window starts at instant 0, so a deadline is the policy's duration; it is *computed* from the
policy in force at each use and never stored, as in the code.

### ArtifactStream

Events carry what later decisions read: a scan its findings, a policy verdict its result, a
rejection its axis, a release its reason, a re-evaluation the status it announces. The evidence
operators (`LatestScanStanding`, `LastRejectionReason`, `LatestReleaseOrigin`,
`ProvenanceVerifiedOn`) are the functions of `scan_history.rs` and `release_clearance.rs`.
`ProjectedStatus` is not code: it is the reference reading of a stream, which
`StatusIsProjection` compares with the row the code maintains.

### LifecyclePlans

One operator per operation: given the row, the evidence and the policy, the batch of events and
the status it would commit, or no plan when the code returns early. The whole handler is in the
plan: the policy verdict recorded next to a scan, the `ArtifactBecameVulnerable` announcement, the
companion of a re-evaluation.

### ArtifactLifecycle

Variables: `stream` and `status` (the two stores), `anchored` (a window start is set), `policy`,
`curationBlock`, `blobOk`, `clock` (the surroundings) and `task`, one record of local variables per
process. A call is a sequence of steps, one per read and one for the commit:

| Discipline | Operations | Steps | Code |
|---|---|---|---|
| load | scan, indeterminate, sweep, waive, block, reevaluate, verify | (`SelectExpired`) `ReadStream`, `Decide…`, `Commit`/`Conflict` | `ArtifactAtVersion::load`: version first, row second |
| pair | loosen, tighten, retroCuration, cascade | `ListPage`, `Pair…`, (`ReEvaluateRejected`), `Commit`/`Conflict` | `ArtifactAtVersion::pair`: row from a page, version now |
| any | scrub | `DecideScrub`, `Commit` | `try_tombstone_artifact`: no expected version |

- A commit is one PostgreSQL transaction, hence one step. `VersionHolds` is the append's version
  check; `RowHolds` and `WrittenStatus` are the three ways a row is written: unconditionally
  (`save_in_tx`), conditionally on the loaded status (`save_verdict_status_in_tx`), not at all (a
  verdict that changes nothing).
- The row load and what follows it before the commit (policy, clearance, curation) are one step.
  A commit to the same stream between those reads makes the append lose either way, and the
  policy's staleness is kept, since the policy may change between the decision and the commit.
- Only the cascade retries, once, with the same row (`cascadeRetry`).
- A crash is a process that takes no further step: nothing but the commit is durable.
- `OverCap` and `SeenVersion` are the capped read. Operations that refuse an over-cap stream, that
  tolerate it, and those that only refuse it when they need its evidence are told apart.
- `readable` is whether a findings blob can be read; if not, the verdict falls back to counts.
- `MayYield` is `read_bounded`: the verifying reader compares at the end of the file, so corrupt
  bytes end a verification without a verdict, unless the blob is longer than the read limit
  (`MAX_PROVENANCE_READ_BYTES`, 16 MiB). The constant `Oversized` says which the artifact's blob is;
  for one beyond the limit every outcome is possible, since a keyed signature is checked against
  the recorded hash and not against the bytes read.
- The `Changes` constant names which surroundings move in a run.

### QuarantineMachine

What the lifecycle promises: one artifact, no processes, each operation one atomic transition on
the true status and evidence. `ArtifactLifecycle!ImplementsMachine` maps the stream to that
evidence and states the implementation. The machine has no run of its own: the `refinement` run
holds the lifecycle against it, and `QuarantineMachineProofs` proves what it promises. A disproof
of the provenance re-labels any rejection, a corruption included: `complete_provenance` has no
source guard.

### ReleaseSweep and SweepRotation

Many artifacts, each with a hold (`Open`, `Due`, `Over`) and its two gates, which the surroundings
move freely. A tick captures its instant (`StartTick`), then asks for a batch (`SelectExpired`): the
query answers later, ordered by the attempt stamps of that moment (never attempted first) and
window start, while its cutoffs come from the instant and from durations read before the scan; of a
hold that has moved in between it may know or not (`moved`, `Found`). The tick attempts the
candidates one by one and stamps the whole batch with its instant. A failing query or a conflicting commit ends a tick without stamping; the stamp itself may fail and is
shrugged off. Two ticks may overlap: the CronJob's concurrency policy covers only the enqueuing
pod, and an operator may invoke the task. Stamps are only compared, so they are renumbered densely
and the state space stays finite. `SweepRotation` adds a history variable that counts, for the
candidates of `Watched`, the batches that left one out although it was waiting when their tick
began, and `Rotation`, the most it may be with no failed tick: each of S sweepers may leave it out
once per full batch of the others, S(S - 1)/2 more come from sweepers that were overtaken, and
S - 1 more from queries that were out when the candidate was last attempted.

### TightenWalk

The loop of `run_policy_re_evaluation_pass` over `list_active_for_policy`: `OFFSET`/`LIMIT` pages
in id order over a set that shrinks as the pass re-holds artifacts, the cursor advancing by what
stayed. `seen`, `steady` and `departed` are history variables.

### JobQueue

`row` is the jobs table (status, attempts, `locked_by`, and `locked_until` as *unset*, *ahead* or
*past*; for a running row *past* means past lease and grace), `execs` the claimed rows workers hold
in memory with the attempt the claim charged. `Claim` is the claiming statement: one slot for the
oldest eligible row, the others by priority. An execution waits for a permit (`queued`), runs, and
records its outcome through the fence (`Fenced`); the write may also fail. Renewal runs only
between the start and the return of the handler, as `LeaseRenewalGuard` lives in `dispatch_one`.
`RequeueAbandoned` is the sweep for one row, `ResolveUnmappable` the close-out of a row that does
not project, `RefuseUnauthorized` the check of the requester before the handler. `EnqueueTask`,
`AppendTaskInvoked` and `DeleteJob` are the three steps of `TaskUseCase::enqueue`. A worker may
crash (and forget) or stall (and come back). An id is used again once nothing refers to it: the
model runs for ever on a few rows, and priority starvation is a real behaviour of it.

### EventChain

`rows` are the events of each stream: position, hash, previous hash, and whether the event is
terminal for its category. A hash is a fresh number, so equality of hashes is identity of events;
what the canonical encoding covers is outside. An append is two steps, the unlocked tail read and
the insert with the unique index. The retention sweep lists, proves, stages and removes, each by
statements of its own; its closing checkpoint and the scheduled one are two emitters that may
overlap. `cps` is the anchor store: an object that lands on the key of another replaces it.
Of a seal, the DELETE and the COMMIT are one step (`Seal`): the stream's lock is held across both.
`verify-event-chain` takes its four readings in the order of the code and reports as `roll_up`
does. `LoseTail` is the outside: events disappear, and the verifier must say so.

### PolicyProjection

`stream` is the policy's events after `PolicyCreated`, `row` and `exclRows` the two projections,
`calls` the mutations in progress, `queued` the passes, `enforced` what the artifacts were last
evaluated against. A policy is one gate field, one other, the archived flag and a version. A call
reads the row (`remove_exclusion` also the exclusion rows, after it). An update that changes no
field of that row, stale as the row may be, is told Ok at once (`AnswerFromRow`); any other call appends at the row's version,
re-derives everything from the stream on a refusal, appends once more, then writes its rows and
enqueues, one step each; any step may fail. The fold (`Folded`) is a recursive function over the
events, used by both the code's paths (`ApplyBatch`, `FoldStream`) and the properties.

### BlobReclaim

Artifacts, the blobs they name (`Targets`), the edges of `content_references`, the CAS, and the
workers. An upload is `Put`, `LockBlobs`, `Commit`: bytes first, claim later. One that contradicts
its digest is `PutRefused`, `LookForRow`, `Rollback`, without a lock. Verdicts change the
status: a rejected row is released (`Waive`) or, by a re-evaluation inside its window, held again
(`Requarantine`), and neither gives it its edges back; a rejection's `delete_by_source` follows its commit (`unswept`) and may be lost. The purge
is `ListPending`, then per artifact `Resume`, `Refuse` or `Prepare` (retire the row, drop the edges,
write the worklist: one transaction), then per blob `Defer`, `Superseded` or `Grant` with
`DeleteBlob` under the advisory lock, `Mark`, and last `Complete`. The lock ends with its
transaction, whose connection may die alone while storage deletes (`LoseLock`). `Crash` releases
the lock as well and
sends the worker through the boot repair (`ScanDrift`, `Restore`, `DropStale`, `Verdict`), which
applies what it scanned however long ago that was. `gapped` (bytes gone before the claim),
`condemned` and `reinstated` (rejected; released since) and `freed` are history variables.

### PullDedup

One key. `record` is its entry in the ephemeral store: the cluster's lock while it says *in
flight*, a cache of the leader's answer (or failure) afterwards. `layerA` says, per replica, whose
channel its map points to, `call` how far each call is, `beating` whose heartbeat runs. A call is
used once; its name is the channel it would open and the answer its fetch would bring. Durations
are left out: any timer may fire at any time, except that a record does not expire while a
heartbeat extends it (`Evict` is the fault in which it does). `Drop` is a future dropped at an
await with what `LeaderGuard::drop` does, `Crash` a replica's death, `StoreFails` a store that
answers an error for a write that may have taken effect. `disproved`, `barred` and `late` are
history variables.

## 3. Runs

All runs check for deadlock but `event_chain`, `policy_projection` (and `reapply`), `blob_reclaim` and
`pull_dedup`, whose behaviours end when the bounded events, verdicts, faults and calls are used
up. Every module with several processes has a type invariant, `TypeOK`; the runs list it where a theorem states it, and
elsewhere list only what could go wrong in the code (adding `TypeOK` to those configurations passes).
Where nothing else is said two processes run on one
artifact; any of them may run any operation of the run, repeatedly, so two is enough for every
race between two calls, and `Cap` ends the behaviours the way the code ends them: it freezes the
stream.

| Run | Checks | Shows |
|---|---|---|
| `release_authority` | `TypeOK`, `TimerReleasesJustified`, `FrozenPastCap` | timer releases stand on evidence, under four kinds of policy; a stream past the cap is frozen |
| `curator_decisions` | `LoadedRowIsCurrent`, `ReEvaluationReleasesJustified`, `CorruptionIsFinal`, `CommitsFollowTable` | no lost update between curator, scanner, verifier and scrub; a curator's re-evaluation never skips provenance; the unconditional tombstone wins every race, for a blob within the read limit |
| `bulk_passes` | `StatusIsProjection`, `AuditErrsOnHoldsOnly`, `ClearedOnce` | stale pages never separate row and stream; one clearance, whoever races for it; the loosen pass, which reads the clock twice, announces at worst a hold that turned into a release |
| `refinement` | `ImplementsMachine` | the loading operations, the cascade and the scrub are atomic transitions, also with a blob beyond the read limit |
| `release_sweep` | `RotationBound`, `ReleasableServed`, `BackstopServed` | no starvation with overlapping, late and failing ticks; the documented rotation bound, and what overlap, late queries and failures add to it; the bound is reached |
| `tighten_churn` | `MissesBounded`, `WalkEnds` | the walk ends; it misses nothing over the set it shrinks itself, and at most one artifact per departure others cause |
| `job_queue` | `BudgetHolds`, `ClosedByItsExecution`, `TerminalStays`, `EveryJobEnds` | the fence holds against stalled and crashed workers, both ways of spending the retry budget share it, and no row is stranded or starved |
| `event_chain` | `OneChain`, `LossIsReported`, `AlarmsAreExplained`, `SealsWhatWasProved`, `SweepAnchorsItsSeals` | unlocked appends make one chain, a seal never removes an event its proof did not cover, a loss is not laundered by later checkpoints, and every alarm beside a running system has a cause that is named |
| `policy_projection` | `RowIsStreamPrefix`, `AloneCallHeals`, `IntentRecorded` | rows lag but never mix; the next undisturbed call that the row does not answer repairs them; nobody is told "done" for something the stream did not say since the call began, or since the row that answered it |
| `reapply` | `ReapplyRecovers` (violated) | what `enqueue_re_evaluation` says of a lost enqueue does not hold: re-applying the policy is answered from the row and enqueues nothing |
| `blob_reclaim` | `LossExplained`, `ZeroIsDeleted`, `BytesGoUnclaimed` | count-under-lock then delete excludes every claim for as long as the lock lives; retained evidence without edges keeps its bytes, also when it is held again; an artifact's first `ArtifactPurged` with zero references means the bytes were deleted; a rollback never takes the bytes of an artifact that was in service with that content when it looked |
| `pull_dedup` | `EntryHasLeader`, `SilenceExplained`, `DisprovedNotInherited`, `LockTakenOnlyBy`, `CallsEnd`, `LockReleased` | whatever is dropped, dies or fails, no call waits for ever and no key stays locked; windows are told their outcome; a disproved answer is not handed to a later call |

### Behaviours the code allows

Where a comment or a document says more than the code does, the property states what the code
keeps and the exception is listed here. Each was a counterexample of a stronger property; the
stronger form is given so that it can be checked again.

*Artifact lifecycle.*

- The loosen pass decides at its own instant and the entity applies at a fresh one
  (`policy_use_case.rs:2324`). When the window ends in between, a re-quarantine that needed no
  provenance becomes a release, and the audit event still announces the hold
  (`AuditErrsOnHoldsOnly` without its second case fails), although `policy_use_case.rs:2157` says "release fires only on the
  full conjunction" (add `"loosen"` to the operations of `curator_decisions`:
  `ReEvaluationReleasesJustified` fails).
- The tighten pass judges a row from its page and re-labels a tombstone that landed since with a
  scan axis, which a waive may lift; `artifact.rs:1401` says a corruption is refused
  (`"tighten"` in `curator_decisions`: `CorruptionIsFinal` fails). The retroactive-curation pass
  re-labels it the same way (`"retroCuration"` with `"scrub"` and `"waive"`; met while proving
  `CorruptionStays`). The loosen pass has the same stale page (`CommitsFollowTable` fails when it
  races a waive).
- A verification of a corrupt blob of 16 MiB or more meets no integrity error: `read_bounded` stops
  at its limit (`provenance_cascade.rs:988`) and `VerifyingReader` compares at the end of the file
  only (`hort-adapters-storage/src/integrity.rs:71-95`). Its comment says that "a larger artifact
  simply hashes wrong and is rejected by the verifier", but the keyed cosign verifier checks the
  signature against the recorded hash and may answer either way. A disproof then re-labels a
  corruption tombstone with the provenance axis, which a waive lifts (`CorruptionIsFinal` without
  its `Oversized` case fails in `curator_decisions` with `Oversized = TRUE`).
- The sweep does not look at the status again after it selected a candidate: a scan failure that
  commits in between does not stop the timer if an earlier scan gave authority, although
  `docs/compliance/ISO27001.md:237` says `scan_indeterminate` is "never timer-released".
- `offset += stayed` counts only what the pass itself took out: an artifact that leaves behind the
  cursor through another use case makes the next page skip one, though `artifact_repo.rs:1148`
  says the window is "skip- and duplicate-free across pages". `MissesBounded` is what holds.
- `OverCapStream::Tolerate` is documented to lose its append on every stream past the cap, but on
  a stream of exactly cap + 1 events the truncated read still ends at the true tail; hence the
  `+ 1` in `FrozenPastCap`.

- A sweep tick fixes its instant and selects afterwards (`quarantine_release_sweep.rs:170-171`): a
  late query of a second sweeper leaves out a candidate that was attempted since it began. With two
  sweepers, two candidates and a batch of one a candidate is left out of four batches, one more than
  when instant and selection coincide.

*Job queue.*

- The compensating delete of `TaskUseCase::enqueue` matches a pending row, also one that was
  claimed, run and rescheduled inside the append window: "nothing ran and nothing is owed an audit
  event" (`task_use_case.rs:488`) is then not so.
- Rows that wait for a permit are not renewed: a busy live worker's rows are swept, though
  `task_dispatcher.rs:166` says a merely slow worker is never swept. The fence makes it harmless.
- When the same worker claims a row again, the renewal of its first execution extends the lease of
  the second: `locked_by` and the status are all `RENEW_LEASE_SQL` compares.

*Event store.*

- Two overlapping emissions take one sequence number, which `chain.rs:750` calls single-valued by
  construction: the verifier reports a fork, or, when both land in one second, the later object
  replaces the earlier and what only that one anchored is anchored no more. The shipped schedules
  coincide once a week.
- An append that read the tail before a seal inserts at the next position of an emptied stream.
  `event_store.rs:865` says the verifier reads it as "a `SealedGap` followed by live events"; it
  reports a position gap, that is, broken. It is one of the causes `AlarmsAreExplained` names, and
  so is a stream begun and anchored between the verifier's listing and its reading of the anchors.
- A seal justifies the absence of a stream by its id alone: a loss is reported until the stream is
  sealed, and not after.

*Policy projection.*

- `update_policy` compares the command with the row and returns Ok when nothing differs
  (`policy_use_case.rs:906-914`), also when the row is behind its stream. After an update that set a
  field was appended and its row write lost, one that sets it back is told Ok and the stream never
  says so; the row stays behind. Hence `Asked` in `IntentRecorded` and the exception of
  `AloneCallHeals`.
- A gate change whose row write failed is repaired by any later mutation that writes, but only a
  mutation that appends nothing, or a gate field of its own, schedules the pass: an update of
  another field brings the gate into force unevaluated. `policy_use_case.rs:941` treats the two
  cases as exclusive.
- A lost enqueue is said to be recovered by re-applying the policy (`policy_use_case.rs:460`); the
  row is up to date by then and answers (run `reapply`). The next mutation that changes a gate field
  does enqueue a pass.
- The upsert is unconditional: of two overlapping calls the slower one leaves the row at the older
  version until the next call heals it. Hence `alone` in `AloneCallHeals`.

*Bytes.*

- An upload whose bytes are already stored skips the write, and its transaction never asks storage
  again: a sweep that counts before the claim deletes them under the new artifact. `blob_lock.rs`
  says of the lock that "both sides taking this lock is the whole mechanism"; the put is outside.
- A waiver (or a loosened policy) releases an artifact whose edges the rejection deleted; until a
  worker boots, a purge of an artifact that shares the bytes deletes them. So it does when a
  re-evaluation inside the window holds the artifact again (`artifact.rs:2035-2050`) and the timer
  releases it: the boot repair leaves held rows alone (`refcount_reconcile.rs:163-179`), so not even
  a boot during the hold restores its edges.
- The blob's lock is held by a transaction that stays open across `storage.delete`
  (`purge_use_case.rs:845`); when its connection dies, the lock is gone and the delete goes on. An
  upload that claims the bytes then loses them (`BytesGoUnclaimed` without its second premise
  fails).
- `protected_claimants` asks for rows in service: a rejected artifact that was deleted as well
  claims nothing, and its evidence bytes go with a sibling's purge, though
  `purge_use_case.rs:229` says "the row retires, the blob stays".
- A refused upload's rollback takes no lock: an upload of the same bytes that is between its put
  and its row, or gets its row between the rollback's look and its delete, loses them
  (`BytesGoUnclaimed` without its premise fails), though `ports/storage.rs:135` allows the delete only if
  no row references the blob. So does an artifact whose *metadata* blob the bytes are: the look asks
  for content only (`Overtaken` counts it; met while proving `LossExplained`).
- The boot repair applies what it scanned: it may give an edge to an artifact purged since, whose
  bytes are then never reclaimed. A sweep with an old page may purge an artifact a second time.
- `mark_purge_ref_complete` names the artifact and the blob but not the worklist: with three sweeps on
  one artifact, one that still holds the first worklist checkpoints a blob of the second as settled
  (`ZeroIsDeleted` without `~row[a].purged` fails with three workers; met while proving it).

*Pull de-duplication.*

- A window's followers never see it closed: each holds a sender of its own, so the `Closed` arm
  (`pull_dedup.rs:1016`) is not reached, and the followers of a dropped leader wait out
  `follower_wait`. So does a caller that joins between the send and the removal of the entry
  (`SilenceExplained` without its exceptions fails).
- Two calls that read the same expired failure both `put` their lock and both lead:
  `pull_dedup.rs:1142` says that "no other caller can have raced". The same put may replace the
  lock of a leader elected since (`LockTakenOnlyBy` names it).
- `forget` reasons that no answer is cached in Layer A (`pull_dedup.rs:773`); a leader between its
  terminal write and its send still hands the answer out. `DisprovedNotInherited` therefore speaks
  of answers whose leader was through.
- A poll that finds the record gone returns an error; `pull_dedup.rs:1461` says it re-attempts
  election. Retrying is left to the client.
- A heartbeat extends whatever record is under its key, a successor's lock and an expired failure
  included.

### Bounds

- `Cap` (200 in the code) is 4 to 9: the number of events the longest interesting story of the run
  needs (ingest, hold, scan, verdict, rejection, waive, a second scan), plus the cap itself being
  reached, so that both sides of it are exercised.
- `Horizon` 1: before and after the deadline; policies with duration 0 and 1 exist.
- Policies: strict with required provenance, lenient, record-only, scanning waived, and a lenient
  one with required provenance (`MCPolicies`).
- `SweepRotation`: two artifacts, one of which never gets its provenance, two sweepers, batch 1 (a
  batch always leaves somebody out), one fault. The waits of one of the two are counted (`Watched`);
  `RotationBound` is reached, without a fault: four batches.
- `TightenWalk`: up to five artifacts, pages of two, two moves of others or I/O faults: two page
  boundaries with an event at each.
- `JobQueue`: an audited row of low priority and an urgent one whose successors may keep coming,
  both workers' batches of one, so that the reserved slot decides; cap 2 (a retry and the cap), one
  permit, one stall: a stalled and a live execution of one row at the same time.
- `EventChain`: one stream, two events in batches of up to two, two appenders, one sweep, up to
  three checkpoints (two emissions can overlap and a third follow), one loss, one verification.
  Two streams with two checkpoints were checked as well. Behaviours are followed up to the end of
  the verification, which nothing reads.
- `PolicyProjection`: two writers, every update of the two fields, three events, one exclusion, one
  fault: a failed call, its repair and a call racing it.
- `BlobReclaim`: an artifact with content and metadata, stored; an upload that shares the content;
  two workers, one rejection (`MaxRejections`; what lifts it and the timer are not bounded), one
  fault (a failed call, a lost lock, a refused upload or a crash with its boot repair). Uploads
  enter as held (`Entry`). The metadata blob is what makes a purge stop between two blobs.
- `PullDedup`: two calls on one replica (a leader and a follower, or two leaders), a third on
  another, two faults. The safety properties were also checked with four calls.
- Symmetry: appenders of `EventChain`, writers of `PolicyProjection`, workers of `BlobReclaim` and
  processes of `ArtifactLifecycle` are interchangeable; symmetry is not used in liveness runs.

### Fairness

- `ReleaseSweep!Fairness`: the CronJob keeps enqueuing ticks and a running tick goes on; nothing is
  assumed of the surroundings. Failing ticks are finitely many (`MaxFaults`): a tick that fails for
  ever serves nobody.
- `TightenWalk!FairWalkSpec`: the pass keeps running until it ends; others move artifacts finitely
  often.
- `JobQueue!FairSpec`: workers poll (`Claim`, `RequeueAbandoned`), handlers return, time passes
  (`LeasePasses`) and stalls end. Nothing is assumed of enqueues, permits or renewals: a handler's
  start needs no fairness of its own, because an execution that is never started lets its lease
  pass.
- `PullDedup!FairSpec`: timers fire, records expire, and a call goes on where it waits for nobody.
  That a fetch returns is not assumed, nor that a poll sees the record at a good moment. That every
  call to the ephemeral store returns, with an answer or an error, is assumed (`Proceed` is weakly
  fair), and the code does not enforce it: `pull_dedup.rs` puts no bound on its store calls and the
  Redis adapter sets no command timeout (`hort-adapters-ephemeral-redis/src/store.rs:156-173`). With a
  store that hangs, `CallsEnd` and `LockReleased` are not claimed.

Liveness is stated as "infinitely often" over actors that come and go: a job, a call or a candidate
that is pending for ever violates it.

## 4. Proofs

All proofs are for arbitrary sets of processes, workers, operations, policies, streams, artifacts
and calls and for every bound, from the assumptions named in the modules that declare the
constants. Populations that are counted are finite: `Artifacts` and `Sweepers` of `ReleaseSweep`,
`Ids` of `TightenWalk`. The inductive
invariants of the larger proofs were checked by TLC before they were proved.

| Theorem | States | Restriction |
|---|---|---|
| `MachineTypeCorrect`, `MachineRejectionsStand` | `TypeOK`, `RejectionsStand` | |
| `TypeCorrect`, `LoadContract` | `TypeOK`, `LoadedRowIsCurrent` | |
| `LoadedCommitsFollowTable` | `CommitsFollowTable` | no paged pass |
| `RowsFollowStreams`, `TimerIsJustified`, `FreezeHolds`, `ClearanceOnce` | `StatusIsProjection`, `TimerReleasesJustified`, `FrozenPastCap`, `ClearedOnce` | |
| `AuditIsTrue` | `AuditErrsOnHoldsOnly` | |
| `ReEvaluationIsJustified` | `ReEvaluationReleasesJustified` | no loosen |
| `CorruptionStays` | `CorruptionIsFinal` | no tighten, no retroactive curation |
| `LifecycleImplementsMachine` | `ImplementsMachine` | no loosen, tighten, retroactive curation |
| `BudgetProved`, `FenceProved`, `TerminalProved` | `BudgetHolds`, `ClosedByItsExecution`, `TerminalStays` | |
| `AppendsMakeOneChain`, `LossesAreReported`, `AlarmsHaveExplanations`, `SealsAreProved`, `SealsAreAnchored` | `OneChain`, `LossIsReported`, `AlarmsAreExplained`, `SealsWhatWasProved`, `SweepAnchorsItsSeals` | |
| `LossesAreExplained`, `ZeroMeansDeleted`, `PurgesTakeUnclaimedBytes` | `LossExplained`, `ZeroIsDeleted`, `BytesGoUnclaimed` | |
| `EntriesHaveLeaders`, `SilenceIsExplained`, `DisprovedStaysAway`, `LockIsKept` | `EntryHasLeader`, `SilenceExplained`, `DisprovedNotInherited`, `LockTakenOnlyBy` | |
| `RowFollowsStream`, `AloneCallHealsTheRow`, `IntentIsRecorded` | `RowIsStreamPrefix`, `AloneCallHeals`, `IntentRecorded` | |
| `RotationBounded`, `WalkMissesBounded` | `RotationBound`, `MissesBounded` | |

`PolicyProjectionProofs` also proves the module's `TypeOK`. A restriction names operations that are not in `Ops`. Each is there because the property is false
with them; section 3 has the behaviour.

### The lifecycle

`ArtifactLifecycleProofs` has three parts, the second to the fourth item below.

- `QuarantineMachineProofs`. `RejectionsStand` (a rejected artifact's axis is known, and nothing
  lifts a rejection while its axis is a corruption) is not inductive alone: a waive keeps a
  corruption only because the status and the axis agree, so the invariant is `MachineInv`, types and
  `RejectionsStand` together, with one step per action.
- *Types.* The plan a call carries must consist of events, and its target of
  statuses; the outcome between the loosen pass's decision and its commit must be one of the two a
  re-evaluation has (`DerivedOutcomes`). `TypeInv` is `TypeOK` with that, and there is a lemma per
  plan.
- *The optimistic read.* `LoadContract` holds with the bulk passes and the scrub running. The
  argument is that of `ArtifactAtVersion::load`: a version is read before the row, the stream only
  grows, and every commit appends at least one event; so a version that still holds means no commit
  since that read, hence the same row. `CallsOK` says what a call in flight knows: the version it
  read is at most the stream's length, and if it is equal then the row it holds is the current one.
  For `LoadedCommitsFollowTable`, every plan is admissible on the row and evidence it was derived
  from (a lemma per plan), and by the load contract those are the current ones at the commit; the
  scrub's tombstone is admissible everywhere.
- *The stream's evidence* takes the load contract from the row to the stream. Its invariant is
  `PlanInv`: `ReadInv` of the load contract and `PlansHold`, by which a call whose version still
  holds carries the plan its use case derives from the *whole* stream under a policy that was in
  force (`Derives`). A truncated read cannot break it, since a plan made past the cap loses its
  append or, one event past it, is of an operation that still saw the tail. TLC checked `PlanInv`
  on the instances of `bulk_passes` and `curator_decisions`.
  - A first group of lemmas says what each evidence function makes of a stream with a batch
    appended: the latest scan, the last rejection, the release origin, the clearance, and which
    earlier positions keep theirs. With them a property of every position of the stream needs to be
    shown for the appended positions only, and there `PlansHold` gives the plan. So go
    `TimerIsJustified`, `AuditIsTrue`, `ReEvaluationIsJustified` and `ClearanceOnce`;
    `RowsFollowStreams` compares the row a commit writes with the projection of its batch, for the
    three row-write rules.
  - `AuditIsTrue` covers the loosen pass, which takes its instant twice: a call that derived a
    release did so past the deadline, and the clock does not go back (`CallsForthright`).
    `ReEvaluationIsJustified` excludes it.
  - `CorruptionStays` has an invariant of its own, `CondemnedInv`: a condemned stream has a
    rejected row whose last axis is the corruption, the scrub condemns only bytes that are gone for
    good, and a verifier that still holds its version read its bytes before they rotted; or the
    blob is beyond the read limit and a disproof followed the tombstone.
  - `LifecycleImplementsMachine`: the initial state maps to the machine's, every commit is one
    step of the machine on the mapped state, and every other step stutters. `OneEventMaps`, `TwoEventsMap` and `ScansMap` compute the
    mapped evidence after a batch; there is a step per operation. The cascade may run although it
    pairs a row from a page: the row only decides whether it appends, and a clearance is a step of
    the machine whatever the status, which it leaves alone.

### The mechanisms below it

- `JobQueueProofs`. Attempts only grow while a row exists and an execution's attempt is at most its
  row's, so a claim charges an attempt no execution holds, and of the executions of a row one at
  most passes the fence. `QueueInv` adds `LateOnlyAtCap`: an execution whose row was closed under
  it at its own attempt was closed by the sweep at the cap, where no retry is granted. Without it a
  late failure could put a closed row up again. `ClosingStep` is the lemma both action properties
  follow from.
- `EventChainProofs`. `ChainInv` has a part per actor. A *quiet* stream (not sealed, nothing lost)
  only grows, and a hash is minted once; so the tail an append read is still a row of the stream
  when it inserts, the unique index admits the insert only at the next position, and the chain
  continues (`RowsFit`, `AppendsFit`, `Chained`). The same two facts carry what the sweep proved to
  its seal (`SweepFits`), an anchored head to every later reading (`AnchorsFit`), a lost hash to
  its absence from whatever is read later (`LostFits`), and all of it to the verifier's report
  (`VerifyFits`, which contains `LossIsReported` and `AlarmsAreExplained`). That a chain has no
  hole below any of its rows is an argument by the least missing position, in place of an
  induction.
- `BlobReclaimProofs`. The results need each other. What the count under the lock showed stays true
  until the delete, because each writer of a claim waits for the lock (`GrantsFit`); no edges mean
  no claim only because whoever is in service has its edges, or claims its bytes by its status, or
  was released since it was rejected (`EdgesFit`, `DropsFit`, `StandingFits`; a re-evaluation moves
  an artifact between the second and the third); and a sweep that works from a copy of a
  worklist knows no more than the worklist says (`CopiesFit`). `ReclaimInv` adds the uploads
  (`UploadsFit`), the rollbacks' looks (`LooksFit`) and the two invariants themselves. Checking an
  earlier form of it with TLC and three workers is how the last exception listed under *Bytes* was
  found.
- `PullDedupProofs`. `DedupInv` says of everything that holds an answer (a record, a channel, a
  result) that its leader is *through*: past its terminal write, so that it never writes it again;
  a disproved answer therefore stays away once it is gone. A follower's channel belongs to a call
  that had not sent when it joined, or the follower is known to be late.
- `PolicyProjectionProofs`. The fold is a recursive function over the events, and the library's
  induction is out of reach; that the function exists, that its value is determined, and what one
  more event or batch makes of it are shown by the least position at which they would fail. From
  there no further induction is needed. `IInv` says that the row *stands on* the stream (it is the
  fold of the prefix its version names) and, per stage, what a call in flight knows: the policy it
  will write stands on the stream as well, past the append its intent is on record since the call
  began, a call the row answered has it on record at the version of that row, and a call nobody overlapped is at the stream's head (`CallFacts`, `Overlap`). An append
  is admitted only at the stream's length, so a batch folded onto what the call read is the fold of
  the longer stream.

### The walks over a backlog

Both bounds are in `BacklogProofs`, and both rest on counting: cardinalities of parts, unions and
images of finite sets, and the position of an element in a finite set of naturals. TLC checked
`WalkInv` on the instance of `tighten_churn`.

- `WalkMissesBounded`. The invariant `WalkInv` has a *frontier*, an id up to which the walk has
  gone: the steady artifacts below it that were not seen are no more than the departures, and so is
  the sum of those and of the rows by which the cursor is ahead of the rows left below the frontier.
  An artifact that leaves below the frontier costs a row there and pays with a departure; listing a page moves the frontier
  behind its last row, and what the page skipped is what the cursor was ahead. A short page reaches the end
  of the population, so at the end everything lies below the frontier.
- `RotationBounded`. `SweepInv` gives every candidate a *debt* (`Debt`): a threshold instant, not
  before the candidate's own stamp; a set D of other artifacts stamped past it, g full batches of
  them; and the set F of running ticks past it that left the candidate out. A sweeper is *fresh*
  when its stamp, now or next, is past the threshold. A tick that leaves the candidate out joins F;
  its batch is full and outside D, because nothing in it is stamped later than the candidate. When
  the first of F ends, its batch joins D and F starts again. A tick that was overtaken takes a
  batch out of D when it ends, but from then on its sweeper is fresh. With n fresh sweepers,
  n g + |F| + n(n - 1)/2 and the faults therefore never fall below the count of the batches the
  debt accounts for, and D and one more batch fit beside the candidate in the backlog. A query that
  is out with an instant not past the threshold (`Late`) is in no debt: when it answers without the
  candidate, that batch is excused. Every late query and every excused batch has a sweeper of its
  own, other than the one that attempted the candidate last (`Excused`), which is where the S - 1 of
  `Rotation` come from; `Accounts` adds the two.
  Renumbering the instants keeps every comparison with a threshold (`Renumbering`, `Settle`), so
  each step is judged on the instants before it.

### Only model-checked

- All liveness properties (`ReleasableServed`, `BackstopServed`, `WalkEnds`, `EveryJobEnds`,
  `CallsEnd`, `LockReleased`): fairness and `ENABLED` are beyond this prover.
- What remains of the restricted theorems when an excluded pass runs: `StatusIsProjection` and
  `ClearedOnce` are proved with every pass; the others fail with the passes they exclude.

## 5. What is not modelled

- In the modelled components: `repair_provenance_misrejection` (an operator's repair);
  `quarantine_artifact`, which has no production caller (ingest commits the hold: `Init`); the
  built-in default used when no policy matches a repository, which is one more policy value;
  effects after the commit (cache invalidation, notifications, score deltas; the content
  references a rejection deletes are in `BlobReclaim`);
  CVE matching and exclusion expiry, which only change what findings a policy `blocks`.
- The scrub looks one row up by checksum: that other artifacts sharing the bytes are left for
  later is outside a one-artifact model.
- Signature cryptography and attestation fetching: a verification's outcome is chosen freely,
  except that corrupt bytes within the read limit give none, since they are read through a verifying
  reader to its end. The
  clearance from uploaded signature material is the same event as a verification.
- Job queue: several kinds with handlers of their own (one kind stands for all), the batch
  enqueues, the starvation alarm.
- Event store: the encoding the hash covers, signatures, the retention stream's own chain (the
  staging of a tombstone may fail), `--stream` selections, the backfill baseline.
- Policies: `create_policy` (whose stream may be left without a row), names, resolution.
- Bytes: which artifacts a retention policy selects, the tag exemption, object stores that answer
  late. The progress of the purge was not checked: a fair instance with two workers is too large.
- Pull de-duplication: records another version wrote (read as expired by an election, skipped by a
  poll), the classes of failures and their TTLs, the keys.
- Upload sessions and notification delivery: planned; they share no state with the parts above.
- The components marked `not_modelled` in PROJECT.json.

## 6. Plan

Done, in this order: the rules and the sequential machine; the concurrent lifecycle with its three
read disciplines; the sweep; the tighten walk; the load contract; the job queue; the event chain;
the policy projection; the reclaiming of blobs; pull de-duplication; the proofs about the job
queue, the pull de-duplication, the event chain and the reclaiming of blobs; the properties of the
whole stream and the refinement; the proofs about the policy projection and the two walks.

What would come next:

1. Upload sessions (ADR 0042): the cap is never exceeded.
2. Notification delivery (ADR 0061): at-least-once, in order, across restarts.
3. Composition: the lifecycle with the policy projection, so that a pass runs on a row that may
   lag its stream; corruption of a blob that several artifacts share.
