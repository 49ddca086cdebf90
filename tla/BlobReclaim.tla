---------------------------- MODULE BlobReclaim ----------------------------
(***************************************************************************)
(* Who may destroy content-addressed bytes.  Artifacts share blobs; an     *)
(* edge of content_references is an artifact's claim on one.  An ingest    *)
(* stores its bytes first and records its claim in a later transaction.    *)
(* A rejection drops the artifact's edges after it committed; rejected and *)
(* held artifacts claim their bytes by their status instead.  The purge    *)
(* retires an artifact and drops its edges into a durable worklist, then   *)
(* deletes every blob nobody else claims, re-counting the claims under the *)
(* blob's advisory lock.  Each worker first reconciles the edges at boot   *)
(* and sweeps only if every repair was applied.                            *)
(***************************************************************************)
EXTENDS Naturals, FiniteSets

CONSTANTS
    Artifacts,
    Hashes,
    Targets,     \* [Artifacts -> the blobs it names: content and metadata]
    Content,     \* [Artifacts -> its content among them]
    Entry,       \* statuses an upload is committed with, by the repository's policy
    Stored,      \* artifacts ingested and released before the model starts
    Workers,
    MaxRejections, \* bound: rejections, and with them the verdicts that lift one
    MaxFaults    \* bound: failed calls of a sweep, crashes, lost locks and refused uploads

ASSUME ReclaimAssumption ==
    /\ Targets \in [Artifacts -> (SUBSET Hashes) \ {{}}]
    /\ Content \in [Artifacts -> Hashes] /\ \A a \in Artifacts : Content[a] \in Targets[a]
    /\ Entry \subseteq {"held", "released"}
    /\ Stored \subseteq Artifacts
    /\ IsFiniteSet(Artifacts) /\ IsFiniteSet(Hashes)
    /\ MaxRejections \in Nat /\ MaxFaults \in Nat

VARIABLES
    cas,      \* the blobs in storage
    row,      \* [Artifacts -> the artifacts row and what its stream says of a purge]
    edges,    \* content_references, as <<artifact, blob>>
    ingest,   \* [Artifacts -> how far the upload that creates the row is]
    unswept,  \* rejected artifacts whose edges the rejection has yet to drop
    worklist, \* [Artifacts -> artifact_purge_worklist, by blob]
    worker,   \* [Workers -> a worker's place in its boot repair or its sweep]
    refused,  \* [Hashes -> how far an upload that failed its verification is]
    rejections, faults, \* counters for the bounds
    gapped,   \* history: artifacts whose bytes went before their claim, to a rollback
              \* or to a purge that had lost its lock
    condemned,  \* history: artifacts that were rejected
    reinstated, \* history: artifacts released since
    freed     \* history: <<artifact, blob>> the current worklist had deleted

vars == <<cas, row, edges, ingest, unswept, worklist, worker, refused, rejections, faults,
          gapped, condemned, reinstated, freed>>

NoArtifact == "none"
NoHash == "none"
NoWork == [h \in {} |-> h]

(* service: live; retired by the purge, which appends nothing, so that a   *)
(* verdict that read the live row may still commit; gone, when the stream  *)
(* has moved on as well.  item: an ArtifactExpired or ArtifactDeleted.     *)
Rows == [status : {"absent", "held", "released", "rejected"},
         service : {"live", "retired", "gone"}, item : BOOLEAN, purged : BOOLEAN]
Work == [left : 0..Cardinality(Artifacts), done : BOOLEAN]
Places == {"boot", "repair", "closed", "idle", "page", "refs", "granted", "unlocked", "mark"}

(* A worker's memory: the repairs it scanned and whether one failed, the   *)
(* page it listed, the artifact in hand with its copy of the worklist, the *)
(* blobs it has yet to settle and the blob it is settling.                 *)
Booting == [pc |-> "boot", restore |-> {}, drop |-> {}, clean |-> TRUE, page |-> {},
            item |-> NoArtifact, copy |-> NoWork, rest |-> {}, hash |-> NoHash]

(* known: history, the artifacts in service that have this content when    *)
(* the rollback looks for them.                                            *)
NotRefused == [at |-> "none", known |-> {}]

Init ==
    /\ cas = UNION {Targets[a] : a \in Stored}
    /\ row = [a \in Artifacts |->
                [status |-> IF a \in Stored THEN "released" ELSE "absent",
                 service |-> "live", item |-> FALSE, purged |-> FALSE]]
    /\ edges = {e \in Stored \X Hashes : e[2] \in Targets[e[1]]}
    /\ ingest = [a \in Artifacts |-> IF a \in Stored THEN "done" ELSE "none"]
    /\ unswept = {}
    /\ worklist = [a \in Artifacts |-> NoWork]
    /\ worker = [w \in Workers |-> [Booting EXCEPT !.pc = "idle"]]
    /\ refused = [h \in Hashes |-> NotRefused]
    /\ rejections = 0 /\ faults = 0
    /\ gapped = {} /\ condemned = {} /\ reinstated = {} /\ freed = {}

Exists(a) == row[a].status # "absent"
Live(a) == Exists(a) /\ row[a].service = "live"
EdgesOf(a) == {e \in edges : e[1] = a}

(* is_gc_protected: the row is retained scan evidence.                     *)
Protected(a) == row[a].status \in {"held", "rejected"}

(* The advisory lock of a blob, held to the end of the transaction that    *)
(* took it: an ingest about to commit, or a granted reclaim.               *)
Locked(h) ==
    \/ \E a \in Artifacts : ingest[a] = "locked" /\ h \in Targets[a]
    \/ \E w \in Workers : worker[w].pc = "granted" /\ worker[w].hash = h

Fault == faults < MaxFaults /\ faults' = faults + 1
-----------------------------------------------------------------------------
(* Ingest.  StoragePort::put leaves bytes it already holds as they are;    *)
(* the claim follows in commit_transition_with_enqueues, which takes the   *)
(* blob locks last and never asks storage again.                           *)

Put(a) ==
    /\ ingest[a] = "none"
    /\ ingest' = [ingest EXCEPT ![a] = "put"]
    /\ cas' = cas \cup Targets[a]
    /\ UNCHANGED <<row, edges, unswept, worklist, worker, refused, rejections, faults, gapped, condemned, reinstated, freed>>

LockBlobs(a) ==
    /\ ingest[a] = "put"
    /\ \A h \in Targets[a] : ~Locked(h)
    /\ ingest' = [ingest EXCEPT ![a] = "locked"]
    /\ UNCHANGED <<cas, row, edges, unswept, worklist, worker, refused, rejections, faults, gapped, condemned, reinstated, freed>>

Commit(a) ==
    /\ ingest[a] = "locked"
    /\ ingest' = [ingest EXCEPT ![a] = "done"]
    /\ \E s \in Entry : row' = [row EXCEPT ![a].status = s]
    /\ edges' = edges \cup {<<a, h>> : h \in Targets[a]}
    /\ UNCHANGED <<cas, unswept, worklist, worker, refused, rejections, faults, gapped, condemned, reinstated, freed>>

(* The transaction fails and the client tries again; the bytes stay.       *)
FailIngest(a) ==
    /\ ingest[a] \in {"put", "locked"}
    /\ ingest' = [ingest EXCEPT ![a] = "none"]
    /\ gapped' = gapped \ {a}
    /\ UNCHANGED <<cas, row, edges, unswept, worklist, worker, refused, rejections, faults, condemned, reinstated, freed>>
-----------------------------------------------------------------------------
(* An upload that contradicts its declared or published digest leaves no   *)
(* row: rollback_unreferenced_cas looks for one in service that has this   *)
(* content, and deletes the blob if there is none.  It takes no lock.      *)

PutRefused(h) ==
    /\ refused[h].at = "none" /\ \E a \in Artifacts : Content[a] = h
    /\ Fault
    /\ cas' = cas \cup {h}
    /\ refused' = [refused EXCEPT ![h].at = "put"]
    /\ UNCHANGED <<row, edges, ingest, unswept, worklist, worker, rejections, gapped, condemned, reinstated, freed>>

(* Mutant: the row of the blob is not looked for.                          *)
SharedNever(h) == FALSE

(* find_by_checksum.                                                       *)
Shared(h) == \E a \in Artifacts : Live(a) /\ Content[a] = h

(* A failed lookup counts as a blob that is shared.                        *)
LookForRow(h) ==
    /\ refused[h].at = "put"
    /\ \/ /\ ~Shared(h)
          /\ refused' = [refused EXCEPT ![h] = [at |-> "unshared",
                                               known |-> {a \in Artifacts : Live(a) /\ Content[a] = h}]]
       \/ refused' = [refused EXCEPT ![h] = NotRefused]
    /\ UNCHANGED <<cas, row, edges, ingest, unswept, worklist, worker, rejections, faults, gapped, condemned, reinstated, freed>>

(* The uploads under way, those that got their row since the look, and the *)
(* artifacts that have the blob as metadata, which the look passes over.   *)
Overtaken(h) ==
    {a \in Artifacts \ refused[h].known : h \in Targets[a] \cap cas /\ (ingest[a] \in {"put", "locked"} \/ Live(a))}

Rollback(h) ==
    /\ refused[h].at = "unshared"
    /\ cas' = cas \ {h}
    /\ gapped' = gapped \cup Overtaken(h)
    /\ refused' = [refused EXCEPT ![h] = NotRefused]
    /\ UNCHANGED <<row, edges, ingest, unswept, worklist, worker, rejections, faults, condemned, reinstated, freed>>
-----------------------------------------------------------------------------
(* Verdicts read a live row and commit on the stream version they read.    *)

Decide(a, from, to) ==
    /\ row[a].status \in from /\ row[a].service \in {"live", "retired"}
    /\ row' = [row EXCEPT ![a].status = to,
                          ![a].service = IF @ = "retired" THEN "gone" ELSE @]
    /\ UNCHANGED <<cas, edges, ingest, worklist, worker, refused, faults, gapped, freed>>

Release(a) ==
    /\ Decide(a, {"held"}, "released")
    /\ reinstated' = reinstated \cup ({a} \cap condemned)
    /\ UNCHANGED <<unswept, rejections, condemned>>

Reject(a) ==
    /\ rejections < MaxRejections /\ rejections' = rejections + 1
    /\ Decide(a, {"held", "released"}, "rejected")
    /\ unswept' = unswept \cup {a}
    /\ condemned' = condemned \cup {a}
    /\ UNCHANGED reinstated

(* A waiver or a loosened policy releases the row, or, while its window is *)
(* still open, a re-evaluation holds it again.  None restores the edges.   *)
Waive(a) ==
    /\ Decide(a, {"rejected"}, "released")
    /\ reinstated' = reinstated \cup {a}
    /\ UNCHANGED <<unswept, rejections, condemned>>

Requarantine(a) ==
    /\ Decide(a, {"rejected"}, "held")
    /\ UNCHANGED <<unswept, rejections, condemned, reinstated>>

(* delete_by_source, after the rejection committed.                        *)
SweepRejected(a) ==
    /\ a \in unswept
    /\ unswept' = unswept \ {a}
    /\ edges' = edges \ EdgesOf(a)
    /\ UNCHANGED <<cas, row, ingest, worklist, worker, refused, rejections, faults, gapped, condemned, reinstated, freed>>

(* It fails, or the process dies first: logged, never retried.             *)
LoseSweep(a) ==
    /\ a \in unswept
    /\ unswept' = unswept \ {a}
    /\ UNCHANGED <<cas, row, edges, ingest, worklist, worker, refused, rejections, faults, gapped, condemned, reinstated, freed>>

(* A caller deletes the artifact, whatever its status.                     *)
Delete(a) ==
    /\ Live(a)
    /\ row' = [row EXCEPT ![a].service = "gone", ![a].item = TRUE]
    /\ UNCHANGED <<cas, edges, ingest, unswept, worklist, worker, refused, rejections, faults, gapped, condemned, reinstated, freed>>

(* The retention sweep appends ArtifactExpired without a version check, so *)
(* a rejection may land between its evaluation and the append.             *)
Expire(a) ==
    /\ Live(a) /\ row[a].status # "held" /\ ~row[a].item
    /\ row' = [row EXCEPT ![a].item = TRUE]
    /\ UNCHANGED <<cas, edges, ingest, unswept, worklist, worker, refused, rejections, faults, gapped, condemned, reinstated, freed>>
-----------------------------------------------------------------------------
(* The boot repair: restore the edges of released artifacts in service,    *)
(* drop those of rejected ones.  What it scanned is applied as scanned.    *)

Missing == {e \in Artifacts \X Hashes :
              /\ Live(e[1]) /\ ~Protected(e[1])
              /\ e[2] \in Targets[e[1]] /\ e \notin edges}
Stale == {a \in Artifacts : row[a].status = "rejected" /\ EdgesOf(a) # {}}

Step(w, r) ==
    /\ worker' = [worker EXCEPT ![w] = r]
    /\ UNCHANGED <<ingest, unswept, refused, rejections, condemned, reinstated>>

ScanDrift(w) ==
    /\ worker[w].pc = "boot"
    /\ Step(w, [worker[w] EXCEPT !.restore = Missing, !.drop = Stale,
                                 !.pc = IF Missing = {} /\ Stale = {} THEN "idle" ELSE "repair"])
    /\ UNCHANGED <<cas, row, edges, worklist, faults, gapped, freed>>

(* Mutant: a repair writes the edge without the blob's lock.               *)
RestoreUnlocked(w, e) ==
    /\ worker[w].pc = "repair"
    /\ edges' = edges \cup {e}
    /\ Step(w, [worker[w] EXCEPT !.restore = @ \ {e}])
    /\ UNCHANGED <<cas, row, worklist, faults, gapped, freed>>

(* upsert_row waits for the blob's lock like any other claim.              *)
Restore(w, e) ==
    /\ worker[w].pc = "repair"
    /\ ~Locked(e[2])
    /\ edges' = edges \cup {e}
    /\ Step(w, [worker[w] EXCEPT !.restore = @ \ {e}])
    /\ UNCHANGED <<cas, row, worklist, faults, gapped, freed>>

DropStale(w, a) ==
    /\ worker[w].pc = "repair"
    /\ edges' = edges \ EdgesOf(a)
    /\ Step(w, [worker[w] EXCEPT !.drop = @ \ {a}])
    /\ UNCHANGED <<cas, row, worklist, faults, gapped, freed>>

RepairFails(w, e) ==
    /\ worker[w].pc = "repair"
    /\ Step(w, [worker[w] EXCEPT !.restore = @ \ {e}, !.clean = FALSE])
    /\ UNCHANGED <<cas, row, edges, worklist, faults, gapped, freed>>

(* reconcile_gate_verdict: a pass that skipped a repair keeps the purge    *)
(* closed until the next boot.                                             *)
Verdict(w) ==
    /\ worker[w].pc = "repair" /\ worker[w].restore = {} /\ worker[w].drop = {}
    /\ Step(w, [worker[w] EXCEPT !.pc = IF worker[w].clean THEN "idle" ELSE "closed"])
    /\ UNCHANGED <<cas, row, edges, worklist, faults, gapped, freed>>
-----------------------------------------------------------------------------
(* The purge sweep.                                                        *)

Pending(a) == Exists(a) /\ row[a].item /\ ~row[a].purged /\ ~Protected(a)

ListPending(w) ==
    /\ worker[w].pc = "idle"
    /\ \E a \in Artifacts : Pending(a)
    /\ Step(w, [worker[w] EXCEPT !.pc = "page", !.page = {a \in Artifacts : Pending(a)}])
    /\ UNCHANGED <<cas, row, edges, worklist, faults, gapped, freed>>

(* Leave the artifact in hand for a later sweep, go on with the page.      *)
Dropped(w) ==
    [worker[w] EXCEPT !.pc = IF worker[w].page = {} THEN "idle" ELSE "page",
                      !.item = NoArtifact, !.copy = NoWork, !.rest = {}, !.hash = NoHash]

Taken(w, a, work) ==
    [worker[w] EXCEPT !.pc = "refs", !.page = @ \ {a}, !.item = a, !.copy = work,
                      !.rest = {h \in DOMAIN work : ~work[h].done}]

Retired(a) == [row EXCEPT ![a].service = IF @ = "live" THEN "retired" ELSE @]

(* How many edges name the blob once artifact a has let go of its own.     *)
RefsWithout(a, h) == Cardinality({e \in edges : e[2] = h /\ e[1] # a})

(* The blobs a fresh worklist lists: those of the edges just deleted, else *)
(* what the row and its metadata name.                                     *)
Released(a) == IF EdgesOf(a) = {} THEN Targets[a] ELSE {e[2] : e \in EdgesOf(a)}

FreshWork(a) == [h \in Released(a) |-> [left |-> RefsWithout(a, h), done |-> FALSE]]

(* purge_artifact_refs: resume the worklist there is; else, unless the row *)
(* turned into evidence since the page was read, retire it, drop its edges *)
(* and record what to do about every blob, in one transaction.             *)
Resume(w, a) ==
    /\ worker[w].pc = "page"
    /\ worklist[a] # NoWork
    /\ row' = Retired(a)
    /\ Step(w, Taken(w, a, worklist[a]))
    /\ UNCHANGED <<cas, edges, worklist, faults, gapped, freed>>

Refuse(w, a) ==
    /\ worker[w].pc = "page"
    /\ worklist[a] = NoWork /\ Protected(a)
    /\ Step(w, [worker[w] EXCEPT !.page = @ \ {a}, !.pc = IF worker[w].page = {a} THEN "idle" ELSE "page"])
    /\ UNCHANGED <<cas, row, edges, worklist, faults, gapped, freed>>

Prepare(w, a) ==
    /\ worker[w].pc = "page"
    /\ worklist[a] = NoWork /\ ~Protected(a)
    /\ row' = Retired(a)
    /\ edges' = edges \ EdgesOf(a)
    /\ worklist' = [worklist EXCEPT ![a] = FreshWork(a)]
    /\ Step(w, Taken(w, a, FreshWork(a)))
    /\ UNCHANGED <<cas, faults, gapped, freed>>

(* Mutant: the second reading counts edges only.                           *)
ClaimsByEdge(h) == Cardinality({e \in edges : e[2] = h})

(* A second reading of the claims, under the blob's lock: the edges that   *)
(* name it, else the evidence in service that needs no edge.               *)
ProtectedClaimants(h) == Cardinality({a \in Artifacts : Live(a) /\ Protected(a) /\ h \in Targets[a]})

Claims(h) ==
    LET refs == Cardinality({e \in edges : e[2] = h})
    IN IF refs > 0 THEN refs ELSE ProtectedClaimants(h)

(* begin_blob_reclaim for a blob the worklist says nobody claims.  The     *)
(* lock is tried, never waited for.                                        *)
Reclaiming(w, h) == worker[w].pc = "refs" /\ worker[w].copy[h].left = 0

Defer(w, h) ==
    /\ Reclaiming(w, h) /\ Locked(h)
    /\ Step(w, Dropped(w))
    /\ UNCHANGED <<cas, row, edges, worklist, faults, gapped, freed>>

(* Mutant: the count read under the lock stays in memory.                  *)
NotRefreshed(a, h, n) == worklist

(* refresh_worklist_refs; a row another sweep has cleared away is an error.*)
Refreshed(a, h, n) == [worklist EXCEPT ![a][h].left = n]

Superseded(w, h) ==
    LET a == worker[w].item
    IN /\ Reclaiming(w, h) /\ ~Locked(h) /\ Claims(h) > 0
       /\ IF h \in DOMAIN worklist[a]
          THEN /\ worklist' = Refreshed(a, h, Claims(h))
               /\ Step(w, [worker[w] EXCEPT !.pc = "mark", !.hash = h, !.copy[h].left = Claims(h)])
          ELSE /\ Step(w, Dropped(w))
               /\ UNCHANGED worklist
       /\ UNCHANGED <<cas, row, edges, faults, gapped, freed>>

Grant(w, h) ==
    /\ Reclaiming(w, h) /\ ~Locked(h) /\ Claims(h) = 0
    /\ Step(w, [worker[w] EXCEPT !.pc = "granted", !.hash = h])
    /\ UNCHANGED <<cas, row, edges, worklist, faults, gapped, freed>>

Listed == {e \in Artifacts \X Hashes : e[2] \in DOMAIN worklist[e[1]]}

(* The transaction's connection dies while storage works: the lock is gone *)
(* and the delete goes on.                                                 *)
LoseLock(w) ==
    /\ worker[w].pc = "granted"
    /\ Fault
    /\ Step(w, [worker[w] EXCEPT !.pc = "unlocked"])
    /\ UNCHANGED <<cas, row, edges, worklist, gapped, freed>>

(* Who loses the blob unclaimed as yet: an upload that has put its bytes;  *)
(* without the lock also one that has claimed them since.                  *)
Bereft(w, h) ==
    {a \in Artifacts : /\ h \in Targets[a] \cap cas
                       /\ \/ ingest[a] = "put"
                          \/ worker[w].pc = "unlocked" /\ (ingest[a] = "locked" \/ Live(a))}

(* StoragePort::delete; a missing blob counts as deleted.                  *)
DeleteBlob(w) ==
    LET h == worker[w].hash
    IN /\ worker[w].pc \in {"granted", "unlocked"}
       /\ cas' = cas \ {h}
       /\ gapped' = gapped \cup Bereft(w, h)
       /\ freed' = freed \cup ({<<worker[w].item, h>>} \cap Listed)
       /\ Step(w, [worker[w] EXCEPT !.pc = "mark"])
       /\ UNCHANGED <<row, edges, worklist, faults>>

(* mark_purge_ref_complete, for the blob just settled or for one the       *)
(* worklist says is still claimed, which is kept without asking.           *)
Mark(w, h) ==
    LET a == worker[w].item
    IN /\ \/ worker[w].pc = "mark" /\ h = worker[w].hash
          \/ worker[w].pc = "refs" /\ worker[w].copy[h].left > 0
       /\ IF h \in DOMAIN worklist[a]
          THEN /\ worklist' = [worklist EXCEPT ![a][h].done = TRUE]
               /\ Step(w, [worker[w] EXCEPT !.pc = "refs", !.hash = NoHash, !.rest = @ \ {h}])
          ELSE /\ Step(w, Dropped(w))
               /\ UNCHANGED worklist
       /\ UNCHANGED <<cas, row, edges, faults, gapped, freed>>

(* complete_artifact_purge: the events state the worker's copy and must    *)
(* agree with the worklist, every blob of which is checkpointed.           *)
Agrees(w, a) ==
    /\ worklist[a] # NoWork
    /\ \A h \in DOMAIN worklist[a] : worklist[a][h].done
    /\ DOMAIN worklist[a] = DOMAIN worker[w].copy
    /\ \A h \in DOMAIN worklist[a] : worklist[a][h].left = worker[w].copy[h].left

Complete(w) ==
    LET a == worker[w].item
    IN /\ worker[w].pc = "refs" /\ worker[w].rest = {}
       /\ \/ /\ Agrees(w, a)
             /\ row' = [row EXCEPT ![a].purged = TRUE, ![a].service = "gone"]
             /\ worklist' = [worklist EXCEPT ![a] = NoWork]
             /\ freed' = {f \in freed : f[1] # a}
          \/ /\ ~Agrees(w, a)
             /\ UNCHANGED <<row, worklist, freed>>
       /\ Step(w, Dropped(w))
       /\ UNCHANGED <<cas, edges, faults, gapped>>

(* A call of the sweep fails: the artifact is left for a later sweep.      *)
Stumble(w) ==
    /\ worker[w].pc \in {"refs", "granted", "unlocked", "mark"}
    /\ Fault
    /\ Step(w, Dropped(w))
    /\ UNCHANGED <<cas, row, edges, worklist, gapped, freed>>

(* The worker dies, a granted lock with it, and boots again.               *)
Crash(w) ==
    /\ worker[w].pc # "boot"
    /\ Fault
    /\ Step(w, Booting)
    /\ UNCHANGED <<cas, row, edges, worklist, gapped, freed>>
-----------------------------------------------------------------------------
Upload(a) == Put(a) \/ LockBlobs(a) \/ Commit(a) \/ FailIngest(a)
Judge(a) == Release(a) \/ Reject(a) \/ Waive(a) \/ Requarantine(a) \/ SweepRejected(a) \/ LoseSweep(a)

Repair(w) ==
    \/ ScanDrift(w) \/ Verdict(w)
    \/ \E e \in worker[w].restore : Restore(w, e) \/ RepairFails(w, e)
    \/ \E a \in worker[w].drop : DropStale(w, a)

Sweep(w) ==
    \/ ListPending(w) \/ LoseLock(w) \/ DeleteBlob(w) \/ Complete(w)
    \/ \E a \in worker[w].page : Resume(w, a) \/ Refuse(w, a) \/ Prepare(w, a)
    \/ \E h \in worker[w].rest : Defer(w, h) \/ Superseded(w, h) \/ Grant(w, h) \/ Mark(w, h)

Next ==
    \/ \E a \in Artifacts : Upload(a) \/ Judge(a) \/ Delete(a) \/ Expire(a)
    \/ \E h \in Hashes : PutRefused(h) \/ LookForRow(h) \/ Rollback(h)
    \/ \E w \in Workers : Repair(w) \/ Sweep(w) \/ Stumble(w) \/ Crash(w)

Spec == Init /\ [][Next]_vars
-----------------------------------------------------------------------------
IsWorklist(f) == DOMAIN f \subseteq Hashes /\ \A h \in DOMAIN f : f[h] \in Work

(* The type invariant: rows, edges, worklists and the workers' memory have *)
(* their shapes; in particular no claim count is negative and a worker     *)
(* settles only blobs its copy of the worklist lists.                      *)
TypeOK ==
    /\ cas \subseteq Hashes
    /\ row \in [Artifacts -> Rows]
    /\ edges \subseteq Artifacts \X Hashes
    /\ ingest \in [Artifacts -> {"none", "put", "locked", "done"}]
    /\ unswept \subseteq Artifacts
    /\ \A a \in Artifacts : IsWorklist(worklist[a])
    /\ \A w \in Workers :
         /\ worker[w].pc \in Places
         /\ worker[w].restore \subseteq Artifacts \X Hashes
         /\ worker[w].drop \subseteq Artifacts /\ worker[w].page \subseteq Artifacts
         /\ worker[w].item \in Artifacts \cup {NoArtifact}
         /\ IsWorklist(worker[w].copy) /\ worker[w].rest \subseteq DOMAIN worker[w].copy
         /\ worker[w].hash \in Hashes \cup {NoHash}
    /\ refused \in [Hashes -> [at : {"none", "put", "unshared"}, known : SUBSET Artifacts]]
    /\ rejections \in 0..MaxRejections /\ faults \in 0..MaxFaults
    /\ gapped \subseteq Artifacts /\ condemned \subseteq Artifacts /\ reinstated \subseteq condemned
    /\ freed \subseteq Artifacts \X Hashes

(* The purge deletes no blob an edge names: between the count under the    *)
(* lock and the delete no upload and no repair gets a claim in.  Only the  *)
(* rollback of a refused upload, which does not lock, and a purge whose    *)
(* connection died under its delete take claimed bytes.                    *)
BytesGoUnclaimed ==
    [][\A h \in cas \ cas' :
         refused'[h] = refused[h] /\ (\A w \in Workers : worker[w].pc = "unlocked" => worker[w].hash # h)
         => \A e \in edges : e[2] # h]_vars

(* An artifact in service has its bytes, retained evidence without edges   *)
(* included, also when a re-evaluation holds it again, but for the windows *)
(* the code leaves open: the bytes of an upload may go between its put and *)
(* its claim, to the rollback of a refused upload that looked before the   *)
(* claim, or to a purge that lost its lock before it; that rollback does   *)
(* not find an artifact whose metadata the bytes are; and an artifact      *)
(* released since it was rejected (waived, or by the timer of a hold that  *)
(* a re-evaluation gave it) has no edges until the next boot repair.       *)
LossExplained ==
    \A a \in Artifacts :
        Live(a) /\ ~(Targets[a] \subseteq cas) => a \in gapped \/ a \in reinstated

(* A worklist never lets ArtifactPurged state that nobody claimed a blob   *)
(* unless a sweep of this artifact had the blob deleted.  It speaks of the *)
(* first purge: a sweep with an old page may prepare a second one, and a   *)
(* third that still holds the first worklist checkpoints blobs of the new. *)
ZeroIsDeleted ==
    \A a \in Artifacts : \A h \in DOMAIN worklist[a] :
        worklist[a][h].done /\ worklist[a][h].left = 0 /\ ~row[a].purged => <<a, h>> \in freed

=============================================================================
