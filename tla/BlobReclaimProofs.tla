------------------------- MODULE BlobReclaimProofs -------------------------
(***************************************************************************)
(* Who loses bytes, and who is told so, for any artifacts, blobs and       *)
(* number of workers and whatever faults.                                  *)
(*                                                                         *)
(* The three results rest on one another through the granted lock.  What   *)
(* the count under the lock showed stays true until the delete, since each *)
(* writer of a claim waits for the lock; and no edges mean no claim only   *)
(* because whoever is in service has its edges, unless it was rejected     *)
(* once, and then claims its bytes by its status until it is released.     *)
(***************************************************************************)
EXTENDS BlobReclaim, FiniteSetTheorems, TLAPS

WorkItem == [left : Nat, done : BOOLEAN]
WorkLists == UNION {[S -> WorkItem] : S \in SUBSET Hashes}
Memory == [pc : Places, restore : SUBSET (Artifacts \X Hashes), drop : SUBSET Artifacts,
           clean : BOOLEAN, page : SUBSET Artifacts, item : Artifacts \cup {NoArtifact},
           copy : WorkLists, rest : SUBSET Hashes, hash : Hashes \cup {NoHash}]

Busy == {"refs", "granted", "unlocked", "mark"}

(* A worker in the middle of an artifact settles blobs its copy lists. *)
InHand(m) ==
    /\ m.rest \subseteq DOMAIN m.copy
    /\ m.pc \in Busy => m.item \in Artifacts
    /\ m.pc \in {"granted", "unlocked", "mark"} => m.hash \in m.rest

Shapes ==
    /\ row \in [Artifacts -> Rows]
    /\ edges \subseteq Artifacts \X Hashes
    /\ ingest \in [Artifacts -> {"none", "put", "locked", "done"}]
    /\ unswept \subseteq Artifacts
    /\ worklist \in [Artifacts -> WorkLists]
    /\ worker \in [Workers -> Memory] /\ \A w \in Workers : InHand(worker[w])
    /\ refused \in [Hashes -> [at : {"none", "put", "unshared"}, known : SUBSET Artifacts]]

(* Whose edges may go while it is in service. *)
Lapsed(a) == a \in condemned

(* A rejected row is known to be, and so is one released since. *)
StandingFits == \A a \in Artifacts :
    /\ row[a].status = "absent" => a \notin condemned
    /\ row[a].status = "rejected" => a \in condemned
    /\ row[a].status = "released" /\ a \in condemned => a \in reinstated

UploadsFit == \A a \in Artifacts :
    /\ ingest[a] # "done" => ~Exists(a)
    /\ ingest[a] \in {"put", "locked"} => Targets[a] \subseteq cas \/ a \in gapped
DropsFit ==
    /\ \A a \in unswept : Lapsed(a)
    /\ \A w \in Workers : \A a \in worker[w].drop : Lapsed(a)
EdgesFit == \A a \in Artifacts :
    Live(a) /\ ~Lapsed(a) => \A h \in Targets[a] : <<a, h>> \in edges
LooksFit == \A h \in Hashes : refused[h].known = {}

(* What the count showed of the blob of worker w. *)
Unclaimed(h) ==
    /\ \A e \in edges : e[2] # h
    /\ \A a \in Artifacts : h \in Targets[a] => ingest[a] # "locked" /\ (Live(a) => a \in reinstated)
GrantsFit == \A w \in Workers : worker[w].pc = "granted" => Unclaimed(worker[w].hash)

(* What worker w knows of the first purge of the artifact in hand. *)
CopyFits(w, a) ==
    /\ DOMAIN worklist[a] # {}
    /\ \A h \in DOMAIN worklist[a] :
         /\ h \in DOMAIN worker[w].copy /\ worker[w].copy[h].left > 0 => worklist[a][h].left > 0
         /\ worker[w].pc = "mark" /\ worker[w].hash = h => worklist[a][h].left > 0 \/ <<a, h>> \in freed
CopiesFit == \A w \in Workers : \A a \in Artifacts :
    worker[w].pc \in Busy /\ worker[w].item = a /\ ~row[a].purged => CopyFits(w, a)

ReclaimInv ==
    /\ Shapes /\ UploadsFit /\ DropsFit /\ StandingFits /\ EdgesFit /\ LooksFit /\ GrantsFit /\ CopiesFit
    /\ LossExplained /\ ZeroIsDeleted

-----------------------------------------------------------------------------
(* What a worklist is. *)
LEMMA WorkListShape ==
    \A f : f \in WorkLists <=> DOMAIN f \subseteq Hashes /\ f \in [DOMAIN f -> WorkItem]
BY DEF WorkLists

(* No worklist, and a worker that boots. *)
LEMMA Blank ==
    /\ NoWork \in WorkLists /\ DOMAIN NoWork = {}
    /\ \A f \in WorkLists : DOMAIN f = {} => f = NoWork
    /\ Booting \in Memory /\ InHand(Booting) /\ Booting.pc = "boot" /\ Booting.drop = {}
<1>1. NoWork \in WorkLists /\ DOMAIN NoWork = {}
  BY WorkListShape DEF NoWork
<1>2. \A f \in WorkLists : DOMAIN f = {} => f = NoWork
  BY WorkListShape DEF NoWork
<1> QED BY <1>1, <1>2 DEF Booting, Memory, InHand, Places, Busy, NoArtifact, NoHash

(* Counts are numbers, and a count of zero means that there is nothing. *)
LEMMA Counting ==
    ASSUME Shapes
    PROVE  /\ \A S \in SUBSET edges : Cardinality(S) \in Nat /\ (Cardinality(S) = 0 => S = {})
           /\ \A S \in SUBSET Artifacts : Cardinality(S) \in Nat /\ (Cardinality(S) = 0 => S = {})
<1>1. IsFiniteSet(Artifacts \X Hashes) /\ IsFiniteSet(Artifacts)
  BY ReclaimAssumption, FS_Product
<1>2. edges \subseteq Artifacts \X Hashes
  BY DEF Shapes
<1> QED BY <1>1, <1>2, FS_Subset, FS_CardinalityType, FS_EmptySet

(* The invariant holds of what was stored before. *)
LEMMA ReclaimInit == Init => ReclaimInv
<1> SUFFICES ASSUME Init PROVE ReclaimInv
  OBVIOUS
<1>1. Shapes
  <2>1. [Booting EXCEPT !.pc = "idle"] \in Memory /\ InHand([Booting EXCEPT !.pc = "idle"])
    BY Blank DEF Booting, Memory, InHand, Places, Busy
  <2>2. row \in [Artifacts -> Rows]
    BY DEF Init, Rows
  <2> QED BY <2>1, <2>2, Blank, ReclaimAssumption DEF Init, Shapes, NotRefused
<1>2. UploadsFit /\ StandingFits /\ EdgesFit /\ LossExplained
  BY ReclaimAssumption DEF Init, UploadsFit, StandingFits, EdgesFit, LossExplained, Exists, Live, Lapsed
<1>3. \A w \in Workers : worker[w].pc = "idle" /\ worker[w].drop = {}
  BY DEF Init, Booting
<1>4. DropsFit /\ GrantsFit /\ CopiesFit
  BY <1>3 DEF Init, DropsFit, GrantsFit, CopiesFit, Busy
<1>5. LooksFit /\ ZeroIsDeleted
  BY Blank DEF Init, LooksFit, ZeroIsDeleted, NotRefused
<1> QED BY <1>1, <1>2, <1>4, <1>5 DEF ReclaimInv

-----------------------------------------------------------------------------
(* Worker w now remembers r. *)
LEMMA Remembers ==
    ASSUME Shapes, NEW w \in Workers, NEW r \in Memory, InHand(r), worker' = [worker EXCEPT ![w] = r]
    PROVE  /\ worker' \in [Workers -> Memory] /\ \A v \in Workers : InHand(worker'[v])
           /\ worker'[w] = r /\ \A v \in Workers \ {w} : worker'[v] = worker[v]
BY DEF Shapes

(* What a worker remembers when it leaves the artifact in hand. *)
LEMMA DroppedShape ==
    ASSUME Shapes, NEW w \in Workers
    PROVE  /\ Dropped(w) \in Memory /\ InHand(Dropped(w)) /\ Dropped(w).pc \in {"idle", "page"}
           /\ Dropped(w).drop = worker[w].drop
<1>1. worker[w] \in Memory
  BY DEF Shapes
<1> DEFINE d == Dropped(w)
<1>2. PICK pc \in {"idle", "page"} : pc = IF worker[w].page = {} THEN "idle" ELSE "page"
  OBVIOUS
<1>3. d = [worker[w] EXCEPT !.pc = pc, !.item = NoArtifact, !.copy = NoWork, !.rest = {},
                            !.hash = NoHash]
  BY <1>2 DEF Dropped
<1>4. d \in Memory BY <1>1, <1>2, <1>3, Blank DEF Memory, Places
<1>5. d.pc = pc /\ d.rest = {} /\ d.copy = NoWork /\ d.drop = worker[w].drop
  BY <1>1, <1>3 DEF Memory
<1> HIDE DEF d
<1>6. InHand(d) BY <1>2, <1>5 DEF InHand, Busy
<1> QED BY <1>2, <1>4, <1>5, <1>6 DEF d

(* What a worker remembers when it takes an artifact from its page. *)
LEMMA TakenShape ==
    ASSUME Shapes, NEW w \in Workers, NEW a \in Artifacts, NEW work \in WorkLists
    PROVE  /\ Taken(w, a, work) \in Memory /\ InHand(Taken(w, a, work))
           /\ Taken(w, a, work).pc = "refs" /\ Taken(w, a, work).drop = worker[w].drop
           /\ Taken(w, a, work).item = a /\ Taken(w, a, work).copy = work
<1>1. worker[w] \in Memory
  BY DEF Shapes
<1>2. PICK rest \in SUBSET Hashes : rest = {h \in DOMAIN work : ~work[h].done}
  BY WorkListShape
<1> DEFINE r == [worker[w] EXCEPT !.pc = "refs", !.page = @ \ {a}, !.item = a, !.copy = work, !.rest = rest]
<1>3. Taken(w, a, work) = r
  BY <1>2 DEF Taken
<1>4. r \in Memory
  BY <1>1 DEF Memory, Places
<1>5. r.pc = "refs" /\ r.drop = worker[w].drop /\ r.item = a /\ r.copy = work /\ r.rest = rest
  BY <1>1 DEF Memory
<1>6. rest \subseteq DOMAIN work
  BY <1>2
<1>7. InHand(r)
  BY <1>5, <1>6 DEF InHand
<1> HIDE DEF r
<1> QED BY <1>3, <1>4, <1>5, <1>7

(* A fresh worklist lists a blob or more, none settled. *)
LEMMA FreshShape ==
    ASSUME Shapes, NEW a \in Artifacts
    PROVE  /\ FreshWork(a) \in WorkLists /\ DOMAIN FreshWork(a) # {}
           /\ \A h \in DOMAIN FreshWork(a) : ~FreshWork(a)[h].done
<1>1. Released(a) \subseteq Hashes /\ Released(a) # {}
  <2>1. Targets[a] \subseteq Hashes /\ Targets[a] # {}
    BY ReclaimAssumption
  <2>2. \A e \in EdgesOf(a) : e[2] \in Hashes
    BY DEF EdgesOf, Shapes
  <2> DEFINE S == EdgesOf(a)
  <2>3. {e[2] : e \in S} \subseteq Hashes /\ (S # {} => {e[2] : e \in S} # {})
    <3> HIDE DEF S
    <3> QED BY <2>2 DEF S
  <2> QED BY <2>1, <2>3 DEF Released
<1>2. \A h : RefsWithout(a, h) \in Nat
  BY Counting DEF RefsWithout
<1>3. FreshWork(a) \in [Released(a) -> WorkItem] /\ DOMAIN FreshWork(a) = Released(a)
  BY <1>2 DEF FreshWork, WorkItem
<1> QED BY <1>1, <1>3, WorkListShape DEF FreshWork

(* An entry of a worklist changes. *)
LEMMA EntryShape ==
    ASSUME NEW f \in WorkLists, NEW h \in DOMAIN f, NEW x \in WorkItem
    PROVE  [f EXCEPT ![h] = x] \in WorkLists /\ DOMAIN [f EXCEPT ![h] = x] = DOMAIN f
BY WorkListShape

(* What the boot repair makes a worker remember. *)
LEMMA RepairShape ==
    ASSUME Shapes, NEW w \in Workers, Repair(w)
    PROVE  \E r \in Memory : /\ InHand(r) /\ Step(w, r) /\ r.pc \in {"idle", "repair", "closed"}
                             /\ r.drop \subseteq worker[w].drop \cup Stale
<1>1. worker[w] \in Memory /\ InHand(worker[w])
  BY DEF Shapes
<1> DEFINE Fine(r) == /\ r \in Memory /\ InHand(r) /\ Step(w, r) /\ r.pc \in {"idle", "repair", "closed"}
                      /\ r.drop \subseteq worker[w].drop \cup Stale
<1> SUFFICES \E r : Fine(r)
  OBVIOUS
<1>2. CASE ScanDrift(w)
  <2>1. Missing \in SUBSET (Artifacts \X Hashes) /\ Stale \in SUBSET Artifacts
    BY DEF Missing, Stale
  <2> DEFINE r == [worker[w] EXCEPT !.restore = Missing, !.drop = Stale,
                                 !.pc = IF Missing = {} /\ Stale = {} THEN "idle" ELSE "repair"]
  <2>2. Step(w, r)
    BY <1>2 DEF ScanDrift
  <2>3. r \in Memory /\ InHand(r) /\ r.pc \in {"idle", "repair", "closed"} /\ r.drop = Stale
    BY <2>1, <1>1 DEF Memory, InHand, Places, Busy
  <2> QED BY <2>2, <2>3
<1>3. CASE Verdict(w)
  <2> DEFINE r == [worker[w] EXCEPT !.pc = IF worker[w].clean THEN "idle" ELSE "closed"]
  <2>1. Step(w, r)
    BY <1>3 DEF Verdict
  <2>2. r \in Memory /\ InHand(r) /\ r.pc \in {"idle", "repair", "closed"} /\ r.drop = worker[w].drop
    BY <1>1 DEF Memory, InHand, Places, Busy
  <2> QED BY <2>1, <2>2
<1>4. ASSUME NEW e \in worker[w].restore, Restore(w, e) \/ RepairFails(w, e)
      PROVE  \E r : Fine(r)
  <2>1. PICK c \in BOOLEAN : Step(w, [worker[w] EXCEPT !.restore = @ \ {e}, !.clean = c])
    <3>1. CASE Restore(w, e)
      <4>1. [worker[w] EXCEPT !.restore = @ \ {e}] = [worker[w] EXCEPT !.restore = @ \ {e}, !.clean = worker[w].clean]
        BY <1>1 DEF Memory
      <4>2. worker[w].clean \in BOOLEAN
        BY <1>1 DEF Memory
      <4> QED BY <3>1, <4>1, <4>2 DEF Restore
    <3>2. CASE RepairFails(w, e)
      BY <3>2 DEF RepairFails
    <3> QED BY <1>4, <3>1, <3>2
  <2> DEFINE r == [worker[w] EXCEPT !.restore = @ \ {e}, !.clean = c]
  <2>2. worker[w].pc = "repair"
    BY <1>4 DEF Restore, RepairFails
  <2>3. r \in Memory /\ InHand(r) /\ r.pc = "repair" /\ r.drop = worker[w].drop
    BY <1>1, <2>2 DEF Memory, InHand, Places, Busy
  <2> QED BY <2>1, <2>3
<1>5. ASSUME NEW a \in worker[w].drop, DropStale(w, a)
      PROVE  \E r : Fine(r)
  <2> DEFINE r == [worker[w] EXCEPT !.drop = @ \ {a}]
  <2>1. Step(w, r) /\ worker[w].pc = "repair"
    BY <1>5 DEF DropStale
  <2>2. r \in Memory /\ InHand(r) /\ r.pc = "repair" /\ r.drop \subseteq worker[w].drop
    BY <1>1, <2>1 DEF Memory, InHand, Places, Busy
  <2> QED BY <2>1, <2>2
<1> QED BY <1>2, <1>3, <1>4, <1>5 DEF Repair

(* How many claim a blob is a number. *)
LEMMA ClaimsCount ==
    ASSUME Shapes, NEW h
    PROVE  /\ Claims(h) \in Nat
           /\ Claims(h) = 0 => /\ \A e \in edges : e[2] # h
                               /\ \A a \in Artifacts : Live(a) /\ Protected(a) => h \notin Targets[a]
<1> DEFINE E == {e \in edges : e[2] = h}
           P == {a \in Artifacts : Live(a) /\ Protected(a) /\ h \in Targets[a]}
<1>1. Cardinality(E) \in Nat /\ (Cardinality(E) = 0 => E = {})
  <2>1. E \in SUBSET edges
    OBVIOUS
  <2> QED BY <2>1, Counting
<1>2. Cardinality(P) \in Nat /\ (Cardinality(P) = 0 => P = {})
  <2>1. P \in SUBSET Artifacts
    OBVIOUS
  <2> QED BY <2>1, Counting
<1>3. Claims(h) = IF Cardinality(E) > 0 THEN Cardinality(E) ELSE Cardinality(P)
  BY DEF Claims, ProtectedClaimants
<1>4. Claims(h) \in Nat /\ (Claims(h) = 0 => E = {} /\ P = {})
  <2> HIDE DEF E, P
  <2> QED BY <1>1, <1>2, <1>3
<1> QED BY <1>4

(* Worker w remembers r after a step of its sweep. *)
Swept(w, r) ==
    /\ r \in Memory /\ InHand(r) /\ Step(w, r) /\ r.drop \subseteq worker[w].drop
    /\ r.pc = "granted" => Grant(w, r.hash)

(* What the purge makes a worker remember. *)
LEMMA SweepShape ==
    ASSUME Shapes, NEW w \in Workers, Sweep(w) \/ Stumble(w) \/ Crash(w)
    PROVE  \E r : Swept(w, r)
<1>1. worker[w] \in Memory /\ InHand(worker[w]) /\ worker[w].page \subseteq Artifacts
      /\ worker[w].rest \subseteq DOMAIN worker[w].copy
  BY DEF Shapes, Memory, InHand
<1>2. ASSUME Step(w, Dropped(w)) PROVE \E r : Swept(w, r)
  BY <1>2, DroppedShape DEF Swept
<1>3. CASE Stumble(w) \/ Complete(w) \/ \E h \in worker[w].rest : Defer(w, h)
  BY <1>2, <1>3 DEF Stumble, Complete, Defer
<1>4. CASE Crash(w)
  BY <1>4, Blank DEF Crash, Swept
<1>5. CASE ListPending(w)
  <2> DEFINE r == [worker[w] EXCEPT !.pc = "page", !.page = {a \in Artifacts : Pending(a)}]
  <2>1. Step(w, r)
    BY <1>5 DEF ListPending
  <2>2. PICK p \in SUBSET Artifacts : p = {a \in Artifacts : Pending(a)}
    OBVIOUS
  <2>3. r = [worker[w] EXCEPT !.pc = "page", !.page = p]
    BY <2>2
  <2>4. r \in Memory /\ InHand(r) /\ r.pc = "page" /\ r.drop = worker[w].drop
    <3> HIDE DEF r
    <3> QED BY <1>1, <2>3 DEF Memory, InHand, Places, Busy
  <2> HIDE DEF r
  <2> QED BY <2>1, <2>4 DEF Swept
<1>6. CASE DeleteBlob(w)
  <2> DEFINE r == [worker[w] EXCEPT !.pc = "mark"]
  <2>1. Step(w, r) /\ worker[w].pc \in {"granted", "unlocked"}
    BY <1>6 DEF DeleteBlob
  <2>2. r \in Memory /\ InHand(r) /\ r.pc = "mark" /\ r.drop = worker[w].drop
    BY <1>1, <2>1 DEF Memory, InHand, Places, Busy
  <2> QED BY <2>1, <2>2 DEF Swept
<1>12. CASE LoseLock(w)
  <2> DEFINE r == [worker[w] EXCEPT !.pc = "unlocked"]
  <2>1. Step(w, r) /\ worker[w].pc = "granted"
    BY <1>12 DEF LoseLock
  <2>2. r \in Memory /\ InHand(r) /\ r.pc = "unlocked" /\ r.drop = worker[w].drop
    BY <1>1, <2>1 DEF Memory, InHand, Places, Busy
  <2> QED BY <2>1, <2>2 DEF Swept
<1>7. ASSUME NEW a \in worker[w].page, Resume(w, a) \/ Prepare(w, a)
      PROVE  \E r : Swept(w, r)
  <2>1. a \in Artifacts /\ worklist[a] \in WorkLists /\ FreshWork(a) \in WorkLists
    BY <1>1, FreshShape DEF Shapes
  <2>2. PICK work \in WorkLists : Step(w, Taken(w, a, work))
    BY <1>7, <2>1 DEF Resume, Prepare
  <2> QED BY <2>1, <2>2, TakenShape DEF Swept
<1>8. ASSUME NEW a \in worker[w].page, Refuse(w, a)
      PROVE  \E r : Swept(w, r)
  <2> DEFINE r == [worker[w] EXCEPT !.page = @ \ {a}, !.pc = IF worker[w].page = {a} THEN "idle" ELSE "page"]
  <2>1. Step(w, r)
    BY <1>8 DEF Refuse
  <2>2. r \in Memory /\ InHand(r) /\ r.pc \in {"idle", "page"} /\ r.drop = worker[w].drop
    BY <1>1 DEF Memory, InHand, Places, Busy
  <2> QED BY <2>1, <2>2 DEF Swept
<1>9. ASSUME NEW h \in worker[w].rest, Grant(w, h)
      PROVE  \E r : Swept(w, r)
  <2> DEFINE r == [worker[w] EXCEPT !.pc = "granted", !.hash = h]
  <2>1. Step(w, r) /\ worker[w].pc = "refs"
    BY <1>9 DEF Grant, Reclaiming
  <2>2. r \in Memory /\ InHand(r) /\ r.hash = h /\ r.drop = worker[w].drop
    BY <1>1, <2>1 DEF Memory, InHand, Places, Busy
  <2>3. Grant(w, r.hash)
    BY <1>9, <2>2
  <2> QED BY <2>1, <2>2, <2>3 DEF Swept
<1>10. ASSUME NEW h \in worker[w].rest, Superseded(w, h)
       PROVE  \E r : Swept(w, r)
  <2>1. PICK n \in Nat : n = Claims(h)
    BY ClaimsCount
  <2> DEFINE r == [worker[w] EXCEPT !.pc = "mark", !.hash = h, !.copy[h].left = n]
  <2>2. CASE Step(w, Dropped(w))
    BY <2>2, <1>2
  <2>3. CASE Step(w, r)
    <3>1. worker[w].copy \in WorkLists /\ h \in DOMAIN worker[w].copy /\ h \in Hashes /\ worker[w].pc = "refs"
      BY <1>1, <1>10 DEF Superseded, Reclaiming, Memory
    <3>2. worker[w].copy[h] \in WorkItem
      BY <3>1, WorkListShape
    <3>3. [worker[w].copy[h] EXCEPT !.left = n] \in WorkItem
      BY <3>2 DEF WorkItem
    <3> DEFINE c == [worker[w].copy EXCEPT ![h] = [worker[w].copy[h] EXCEPT !.left = n]]
    <3>4. c \in WorkLists /\ DOMAIN c = DOMAIN worker[w].copy
      BY <3>1, <3>3, EntryShape
    <3>5. r = [worker[w] EXCEPT !.pc = "mark", !.hash = h, !.copy = c]
      BY <1>1 DEF Memory
    <3>6. r \in Memory /\ InHand(r) /\ r.pc = "mark" /\ r.drop = worker[w].drop
      <4> HIDE DEF c, r
      <4> QED BY <1>1, <3>1, <3>4, <3>5 DEF Memory, InHand, Places, Busy
    <3> HIDE DEF r
    <3> QED BY <2>3, <3>6 DEF Swept
  <2> QED BY <1>10, <2>1, <2>2, <2>3 DEF Superseded
<1>11. ASSUME NEW h \in worker[w].rest, Mark(w, h)
       PROVE  \E r : Swept(w, r)
  <2> DEFINE r == [worker[w] EXCEPT !.pc = "refs", !.hash = NoHash, !.rest = @ \ {h}]
  <2>1. CASE Step(w, Dropped(w))
    BY <2>1, <1>2
  <2>2. CASE Step(w, r)
    <3>1. worker[w].pc \in {"mark", "refs"}
      BY <1>11 DEF Mark
    <3>2. r \in Memory /\ InHand(r) /\ r.pc = "refs" /\ r.drop = worker[w].drop
      BY <1>1, <3>1 DEF Memory, InHand, Places, Busy, NoHash
    <3> QED BY <2>2, <3>2 DEF Swept
  <2> QED BY <1>11, <2>1, <2>2 DEF Mark
<1> QED BY <1>3, <1>4, <1>5, <1>6, <1>7, <1>8, <1>9, <1>10, <1>11, <1>12 DEF Sweep

-----------------------------------------------------------------------------
(* Who moves: the actions of Next by their actor. *)
ByArtifact(a) == Upload(a) \/ Judge(a) \/ Delete(a) \/ Expire(a)
ByRollback(h) == PutRefused(h) \/ LookForRow(h) \/ Rollback(h)
ByWorker(w) == Repair(w) \/ Sweep(w) \/ Stumble(w) \/ Crash(w)

LEMMA Actors ==
    ASSUME [Next]_vars
    PROVE  \/ UNCHANGED vars
           \/ \E a \in Artifacts : ByArtifact(a)
           \/ \E h \in Hashes : ByRollback(h)
           \/ \E w \in Workers : ByWorker(w)
BY DEF Next, ByArtifact, ByRollback, ByWorker

(* The row of a becomes x: no row returns to service, no purge is undone,  *)
(* and only commits and verdicts change a status.                          *)
RowWritten(a, x) ==
    /\ x \in Rows /\ row' = [row EXCEPT ![a] = x]
    /\ x.service = "live" => row[a].service = "live"
    /\ row[a].purged => x.purged
    /\ x.status # row[a].status => Commit(a) \/ Release(a) \/ Reject(a) \/ Waive(a) \/ Requarantine(a)

LEMMA RowWriters ==
    ASSUME Shapes, [Next]_vars
    PROVE  row' = row \/ \E a \in Artifacts : \E x : RowWritten(a, x)
<1>0. \A a \in Artifacts : row[a] \in Rows
  BY DEF Shapes
<1>1. ASSUME NEW a \in Artifacts, NEW x \in Rows, row' = [row EXCEPT ![a] = x], x.status = row[a].status,
             x.service \in {row[a].service, "retired", "gone"}, row[a].purged => x.purged
      PROVE  \E y : RowWritten(a, y)
  BY <1>1 DEF RowWritten
<1>2. ASSUME NEW a \in Artifacts, Commit(a)
      PROVE  \E y : RowWritten(a, y)
  <2>1. PICK s \in Entry : row' = [row EXCEPT ![a].status = s]
    BY <1>2 DEF Commit
  <2>2. s \in {"held", "released"}
    BY ReclaimAssumption
  <2> DEFINE x == [row[a] EXCEPT !.status = s]
  <2>3. x \in Rows /\ x.service = row[a].service /\ x.purged = row[a].purged
    BY <2>2, <1>0 DEF Rows
  <2>4. row' = [row EXCEPT ![a] = x]
    BY <2>1
  <2> HIDE DEF x
  <2> QED BY <2>3, <2>4, <1>2 DEF RowWritten
<1>3. ASSUME NEW a \in Artifacts, Release(a) \/ Reject(a) \/ Waive(a) \/ Requarantine(a)
      PROVE  \E y : RowWritten(a, y)
  <2>1. PICK s \in {"released", "rejected", "held"} :
            row' = [row EXCEPT ![a].status = s, ![a].service = IF @ = "retired" THEN "gone" ELSE @]
    BY <1>3 DEF Release, Reject, Waive, Requarantine, Decide
  <2> DEFINE x == [row[a] EXCEPT !.status = s, !.service = IF @ = "retired" THEN "gone" ELSE @]
  <2>2. x \in Rows /\ x.service \in {row[a].service, "gone"} /\ x.purged = row[a].purged
    BY <1>0 DEF Rows
  <2>3. row' = [row EXCEPT ![a] = x]
    BY <2>1, <1>0 DEF Rows
  <2> HIDE DEF x
  <2> QED BY <2>2, <2>3, <1>3 DEF RowWritten
<1>4. ASSUME NEW a \in Artifacts, Delete(a) \/ Expire(a)
      PROVE  \E y : RowWritten(a, y)
  <2> DEFINE x == [row[a] EXCEPT !.service = "gone", !.item = TRUE]
             z == [row[a] EXCEPT !.item = TRUE]
  <2>1. /\ x \in Rows /\ x.status = row[a].status /\ x.service = "gone" /\ x.purged = row[a].purged
        /\ z \in Rows /\ z.status = row[a].status /\ z.service = row[a].service /\ z.purged = row[a].purged
    BY <1>0 DEF Rows
  <2>2. row' = [row EXCEPT ![a] = x] \/ row' = [row EXCEPT ![a] = z]
    BY <1>0, <1>4 DEF Delete, Expire, Rows
  <2> HIDE DEF x, z
  <2> QED BY <1>1, <2>1, <2>2
<1>5. ASSUME NEW a \in Artifacts, row' = Retired(a)
      PROVE  \E y : RowWritten(a, y)
  <2> DEFINE x == [row[a] EXCEPT !.service = IF @ = "live" THEN "retired" ELSE @]
  <2>1. x \in Rows /\ x.status = row[a].status /\ x.service \in {row[a].service, "retired"} /\ x.purged = row[a].purged
    BY <1>0 DEF Rows
  <2>2. row' = [row EXCEPT ![a] = x]
    BY <1>0, <1>5 DEF Retired, Rows
  <2> HIDE DEF x
  <2> QED BY <1>1, <2>1, <2>2
<1>6. ASSUME NEW a \in Artifacts, row' = [row EXCEPT ![a].purged = TRUE, ![a].service = "gone"]
      PROVE  \E y : RowWritten(a, y)
  <2> DEFINE x == [row[a] EXCEPT !.purged = TRUE, !.service = "gone"]
  <2>1. x \in Rows /\ x.status = row[a].status /\ x.service = "gone" /\ x.purged
    BY <1>0 DEF Rows
  <2>2. row' = [row EXCEPT ![a] = x]
    BY <1>0, <1>6 DEF Rows
  <2> HIDE DEF x
  <2> QED BY <1>1, <2>1, <2>2
<1>7. ASSUME NEW a \in Artifacts, ByArtifact(a)
      PROVE  row' = row \/ \E y : RowWritten(a, y)
  BY <1>7, <1>2, <1>3, <1>4 DEF ByArtifact, Upload, Judge, Put, LockBlobs, FailIngest, SweepRejected, LoseSweep
<1>8. ASSUME NEW h \in Hashes, ByRollback(h)
      PROVE  row' = row
  BY <1>8 DEF ByRollback, PutRefused, LookForRow, Rollback
<1>9. ASSUME NEW w \in Workers, ByWorker(w)
      PROVE  row' = row \/ \E a \in Artifacts : \E y : RowWritten(a, y)
  <2>1. worker[w].page \subseteq Artifacts /\ (worker[w].pc \in Busy => worker[w].item \in Artifacts)
    BY DEF Shapes, Memory, InHand
  <2>2. CASE \E a \in worker[w].page : Resume(w, a) \/ Prepare(w, a)
    BY <2>1, <2>2, <1>5 DEF Resume, Prepare
  <2>3. CASE Complete(w)
    BY <2>1, <2>3, <1>6 DEF Complete, Busy
  <2>4. CASE \/ Repair(w) \/ Stumble(w) \/ Crash(w) \/ ListPending(w) \/ LoseLock(w) \/ DeleteBlob(w)
             \/ \E a \in worker[w].page : Refuse(w, a)
             \/ \E h \in worker[w].rest : Defer(w, h) \/ Superseded(w, h) \/ Grant(w, h) \/ Mark(w, h)
    BY <2>4 DEF Repair, ScanDrift, Verdict, Restore, RepairFails, DropStale, Stumble, Crash, ListPending,
                LoseLock, DeleteBlob, Refuse, Defer, Superseded, Grant, Mark
  <2> QED BY <1>9, <2>2, <2>3, <2>4 DEF ByWorker, Sweep
<1>10. CASE UNCHANGED vars
  BY <1>10 DEF vars
<1> QED BY <1>7, <1>8, <1>9, <1>10, Actors

LEMMA RowMoves ==
    ASSUME Shapes, [Next]_vars
    PROVE  /\ row' \in [Artifacts -> Rows]
           /\ \A a \in Artifacts :
                /\ row'[a].service = "live" => row[a].service = "live"
                /\ row[a].purged => row'[a].purged
                /\ row'[a].status # row[a].status => Commit(a) \/ Release(a) \/ Reject(a) \/ Waive(a) \/ Requarantine(a)
<1>1. row \in [Artifacts -> Rows]
  BY DEF Shapes
<1>2. CASE row' = row
  BY <1>1, <1>2
<1>3. ASSUME NEW a \in Artifacts, NEW x, RowWritten(a, x)
      PROVE  /\ row' \in [Artifacts -> Rows]
             /\ \A b \in Artifacts :
                  /\ row'[b].service = "live" => row[b].service = "live"
                  /\ row[b].purged => row'[b].purged
                  /\ row'[b].status # row[b].status => Commit(b) \/ Release(b) \/ Reject(b) \/ Waive(b) \/ Requarantine(b)
  <2>1. row' = [row EXCEPT ![a] = x] /\ x \in Rows
    BY <1>3 DEF RowWritten
  <2>2. row' \in [Artifacts -> Rows] /\ row'[a] = x /\ \A b \in Artifacts \ {a} : row'[b] = row[b]
    BY <1>1, <2>1
  <2> QED BY <1>3, <2>2 DEF RowWritten
<1> QED BY <1>2, <1>3, RowWriters

(* A worker's step leaves the uploads, verdicts and refusals alone. *)
LEMMA WorkerSteps ==
    ASSUME Shapes, NEW w \in Workers, ByWorker(w)
    PROVE  \E r \in Memory :
             /\ InHand(r) /\ Step(w, r) /\ r.drop \subseteq worker[w].drop \cup Stale
             /\ r.pc = "granted" => Grant(w, r.hash)
BY RepairShape, SweepShape DEF ByWorker, Swept

(* Who moves an upload. *)
LEMMA UploadMoves ==
    ASSUME Shapes, [Next]_vars
    PROVE  /\ ingest' \in [Artifacts -> {"none", "put", "locked", "done"}]
           /\ \A a \in Artifacts : ingest'[a] # ingest[a] => Upload(a)
           /\ reinstated \subseteq reinstated' /\ condemned \subseteq condemned'
           /\ \A a \in gapped : a \notin gapped' => FailIngest(a)
<1>0. ingest \in [Artifacts -> {"none", "put", "locked", "done"}]
  BY DEF Shapes
<1>1. ASSUME NEW a \in Artifacts, Upload(a)
      PROVE  /\ ingest' \in [Artifacts -> {"none", "put", "locked", "done"}]
             /\ \A b \in Artifacts : ingest'[b] # ingest[b] => Upload(b)
             /\ reinstated \subseteq reinstated' /\ condemned \subseteq condemned'
             /\ \A b \in gapped : b \notin gapped' => FailIngest(b)
  <2>1. PICK s \in {"none", "put", "locked", "done"} : ingest' = [ingest EXCEPT ![a] = s]
    BY <1>1 DEF Upload, Put, LockBlobs, Commit, FailIngest
  <2>2. reinstated' = reinstated /\ condemned' = condemned /\ (gapped' = gapped \/ (FailIngest(a) /\ gapped' = gapped \ {a}))
    BY <1>1 DEF Upload, Put, LockBlobs, Commit, FailIngest
  <2>3. \A b \in Artifacts \ {a} : ingest'[b] = ingest[b]
    BY <2>1, <1>0
  <2>4. ingest' \in [Artifacts -> {"none", "put", "locked", "done"}]
    BY <2>1, <1>0
  <2> QED BY <1>1, <2>2, <2>3, <2>4
<1>2. ASSUME NEW a \in Artifacts, Judge(a) \/ Delete(a) \/ Expire(a)
      PROVE  /\ ingest' = ingest /\ gapped' = gapped
             /\ reinstated \subseteq reinstated' /\ condemned \subseteq condemned'
  BY <1>2 DEF Judge, Delete, Expire, Release, Reject, Waive, Requarantine, Decide, SweepRejected, LoseSweep
<1>3. ASSUME NEW h \in Hashes, ByRollback(h)
      PROVE  ingest' = ingest /\ reinstated' = reinstated /\ condemned' = condemned /\ gapped \subseteq gapped'
  BY <1>3 DEF ByRollback, PutRefused, LookForRow, Rollback
<1>4. ASSUME NEW w \in Workers, ByWorker(w)
      PROVE  ingest' = ingest /\ reinstated' = reinstated /\ condemned' = condemned /\ gapped \subseteq gapped'
  <2>1. ingest' = ingest /\ reinstated' = reinstated /\ condemned' = condemned
    BY <1>4, WorkerSteps DEF Step
  <2>2. gapped \subseteq gapped'
    BY <1>4 DEF ByWorker, Repair, ScanDrift, Verdict, Restore, RepairFails, DropStale, Stumble, Crash, Sweep,
                ListPending, LoseLock, DeleteBlob, Complete, Resume, Refuse, Prepare, Defer, Superseded, Grant, Mark
  <2> QED BY <2>1, <2>2
<1>5. CASE UNCHANGED vars
  BY <1>0, <1>5 DEF vars
<1> QED BY <1>0, <1>1, <1>2, <1>3, <1>4, <1>5, Actors DEF ByArtifact

(* Who moves a refused upload: its look finds nobody or ends it. *)
LEMMA RefusedMoves ==
    ASSUME Shapes, LooksFit, [Next]_vars
    PROVE  /\ refused' \in [Hashes -> [at : {"none", "put", "unshared"}, known : SUBSET Artifacts]]
           /\ LooksFit'
<1>0. refused \in [Hashes -> [at : {"none", "put", "unshared"}, known : SUBSET Artifacts]]
  BY DEF Shapes
<1>1. ASSUME NEW h \in Hashes, ByRollback(h)
      PROVE  \E s \in {"none", "put", "unshared"} : refused' = [refused EXCEPT ![h] = [at |-> s, known |-> {}]]
  <2>1. CASE PutRefused(h)
    <3>1. refused' = [refused EXCEPT ![h] = [refused[h] EXCEPT !.at = "put"]]
      BY <2>1, <1>0 DEF PutRefused
    <3>2. refused[h].known = {}
      BY DEF LooksFit
    <3>3. [refused[h] EXCEPT !.at = "put"] = [at |-> "put", known |-> {}]
      BY <3>2, <1>0
    <3> QED BY <3>1, <3>3
  <2>2. CASE LookForRow(h)
    <3>1. ~Shared(h) => {a \in Artifacts : Live(a) /\ Content[a] = h} = {}
      BY DEF Shared
    <3> QED BY <2>2, <3>1 DEF LookForRow, NotRefused
  <2>3. CASE Rollback(h)
    BY <2>3 DEF Rollback, NotRefused
  <2> QED BY <1>1, <2>1, <2>2, <2>3 DEF ByRollback
<1>2. CASE refused' = refused
  BY <1>0, <1>2 DEF LooksFit
<1>3. CASE \E h \in Hashes : \E s \in {"none", "put", "unshared"} : refused' = [refused EXCEPT ![h] = [at |-> s, known |-> {}]]
  <2>1. PICK h \in Hashes, s \in {"none", "put", "unshared"} : refused' = [refused EXCEPT ![h] = [at |-> s, known |-> {}]]
    BY <1>3
  <2> DEFINE x == [at |-> s, known |-> {}]
  <2>2. x \in [at : {"none", "put", "unshared"}, known : SUBSET Artifacts] /\ x.known = {}
    OBVIOUS
  <2>3. refused' = [refused EXCEPT ![h] = x]
    BY <2>1
  <2> HIDE DEF x
  <2> QED BY <1>0, <2>2, <2>3 DEF LooksFit
<1>4. ASSUME NEW a \in Artifacts, ByArtifact(a) PROVE refused' = refused
  BY <1>4 DEF ByArtifact, Upload, Put, LockBlobs, Commit, FailIngest, Judge, Delete, Expire, Release, Reject, Waive, Requarantine,
              Decide, SweepRejected, LoseSweep
<1>5. ASSUME NEW w \in Workers, ByWorker(w) PROVE refused' = refused
  BY <1>5, WorkerSteps DEF Step
<1>6. CASE UNCHANGED vars
  BY <1>2, <1>6 DEF vars
<1> QED BY <1>1, <1>2, <1>3, <1>4, <1>5, <1>6, Actors

(* Whose edges a rejection has yet to drop. *)
LEMMA UnsweptMoves ==
    ASSUME Shapes, [Next]_vars
    PROVE  unswept' \subseteq Artifacts /\ \A a \in unswept' : a \in unswept \/ Reject(a)
<1>0. unswept \subseteq Artifacts
  BY DEF Shapes
<1>1. ASSUME NEW a \in Artifacts, ByArtifact(a)
      PROVE  unswept' \subseteq unswept \/ (Reject(a) /\ unswept' = unswept \cup {a})
  BY <1>1 DEF ByArtifact, Upload, Put, LockBlobs, Commit, FailIngest, Judge, Delete, Expire, Release, Reject, Waive, Requarantine,
              Decide, SweepRejected, LoseSweep
<1>2. ASSUME NEW h \in Hashes, ByRollback(h) PROVE unswept' = unswept
  BY <1>2 DEF ByRollback, PutRefused, LookForRow, Rollback
<1>3. ASSUME NEW w \in Workers, ByWorker(w) PROVE unswept' = unswept
  BY <1>3, WorkerSteps DEF Step
<1>4. CASE UNCHANGED vars
  BY <1>0, <1>4 DEF vars
<1> QED BY <1>0, <1>1, <1>2, <1>3, <1>4, Actors

(* Who takes bytes away. *)
LEMMA BytesGo ==
    ASSUME Shapes, [Next]_vars, NEW h, h \in cas, h \notin cas'
    PROVE  \/ h \in Hashes /\ Rollback(h)
           \/ \E w \in Workers : DeleteBlob(w) /\ worker[w].hash = h
<1>1. ASSUME NEW a \in Artifacts, ByArtifact(a) PROVE cas \subseteq cas'
  BY <1>1 DEF ByArtifact, Upload, Put, LockBlobs, Commit, FailIngest, Judge, Delete, Expire, Release, Reject, Waive, Requarantine,
              Decide, SweepRejected, LoseSweep
<1>2. ASSUME NEW g \in Hashes, ByRollback(g) PROVE cas \subseteq cas' \/ (Rollback(g) /\ cas' = cas \ {g})
  BY <1>2 DEF ByRollback, PutRefused, LookForRow, Rollback
<1>3. ASSUME NEW w \in Workers, ByWorker(w) PROVE cas' = cas \/ (DeleteBlob(w) /\ cas' = cas \ {worker[w].hash})
  BY <1>3 DEF ByWorker, Repair, ScanDrift, Verdict, Restore, RepairFails, DropStale, Stumble, Crash, Sweep,
                ListPending, LoseLock, DeleteBlob, Complete, Resume, Refuse, Prepare, Defer, Superseded, Grant, Mark
<1>4. CASE UNCHANGED vars
  BY <1>4 DEF vars
<1> QED BY <1>1, <1>2, <1>3, <1>4, Actors

(* Who records a claim: a commit that holds the blob's lock, or a repair   *)
(* that waited for it.                                                     *)
LEMMA EdgesCome ==
    ASSUME Shapes, [Next]_vars
    PROVE  /\ edges' \subseteq Artifacts \X Hashes
           /\ \A e \in edges' \ edges :
                \/ \E a \in Artifacts : \E h \in Targets[a] : Commit(a) /\ e = <<a, h>>
                \/ ~Locked(e[2]) /\ ingest' = ingest
<1>0. edges \subseteq Artifacts \X Hashes /\ \A w \in Workers : worker[w].restore \subseteq Artifacts \X Hashes
  BY DEF Shapes, Memory
<1>1. ASSUME NEW a \in Artifacts, ByArtifact(a)
      PROVE  edges' \subseteq edges \/ (Commit(a) /\ edges' = edges \cup {<<a, h>> : h \in Targets[a]})
  BY <1>1 DEF ByArtifact, Upload, Put, LockBlobs, Commit, FailIngest, Judge, Delete, Expire, Release, Reject, Waive, Requarantine,
              Decide, SweepRejected, LoseSweep
<1>2. \A a \in Artifacts : Targets[a] \subseteq Hashes
  BY ReclaimAssumption
<1>3. ASSUME NEW h \in Hashes, ByRollback(h) PROVE edges' = edges
  BY <1>3 DEF ByRollback, PutRefused, LookForRow, Rollback
<1>4. ASSUME NEW w \in Workers, ByWorker(w)
      PROVE  edges' \subseteq edges \/ \E e \in worker[w].restore : ~Locked(e[2]) /\ edges' = edges \cup {e} /\ ingest' = ingest
  BY <1>4 DEF ByWorker, Repair, ScanDrift, Verdict, Restore, RepairFails, DropStale, Stumble, Crash, Sweep, Step,
                ListPending, LoseLock, DeleteBlob, Complete, Resume, Refuse, Prepare, Defer, Superseded, Grant, Mark
<1>5. CASE UNCHANGED vars
  BY <1>0, <1>5 DEF vars
<1> QED BY <1>0, <1>1, <1>2, <1>3, <1>4, <1>5, Actors DEF ByArtifact

(* Who takes a claim away. *)
LEMMA EdgesGo ==
    ASSUME Shapes, [Next]_vars, NEW e, e \in edges, e \notin edges'
    PROVE  \/ e[1] \in unswept
           \/ \E w \in Workers : e[1] \in worker[w].drop
           \/ row' = Retired(e[1])
<1>1. ASSUME NEW a \in Artifacts, ByArtifact(a)
      PROVE  edges \subseteq edges' \/ (a \in unswept /\ edges' = edges \ EdgesOf(a))
  BY <1>1 DEF ByArtifact, Upload, Put, LockBlobs, Commit, FailIngest, Judge, Delete, Expire, Release, Reject, Waive, Requarantine,
              Decide, SweepRejected, LoseSweep
<1>2. ASSUME NEW h \in Hashes, ByRollback(h) PROVE edges' = edges
  BY <1>2 DEF ByRollback, PutRefused, LookForRow, Rollback
<1>3. ASSUME NEW w \in Workers, ByWorker(w)
      PROVE  \/ edges \subseteq edges'
             \/ \E a : edges' = edges \ EdgesOf(a) /\ (a \in worker[w].drop \/ row' = Retired(a))
  BY <1>3 DEF ByWorker, Repair, ScanDrift, Verdict, Restore, RepairFails, DropStale, Stumble, Crash, Sweep,
                ListPending, LoseLock, DeleteBlob, Complete, Resume, Refuse, Prepare, Defer, Superseded, Grant, Mark
<1>4. CASE UNCHANGED vars
  BY <1>4 DEF vars
<1> QED BY <1>1, <1>2, <1>3, <1>4, Actors DEF EdgesOf

(* What a step makes of a worklist: a first one, or the same blobs, with   *)
(* counts refreshed or blobs checkpointed.                                 *)
Kept(a) ==
    /\ DOMAIN worklist'[a] = DOMAIN worklist[a]
    /\ \A h \in DOMAIN worklist[a] :
         /\ worklist[a][h].left > 0 => worklist'[a][h].left > 0
         /\ worklist'[a][h].done /\ worklist'[a][h].left = 0 =>
              \/ worklist[a][h].done
              \/ \E w \in Workers : worker[w].item = a /\ h \in worker[w].rest /\ Mark(w, h)

(* An entry is rewritten. *)
LEMMA Rewritten ==
    ASSUME Shapes, NEW a \in Artifacts, NEW h \in DOMAIN worklist[a], NEW x \in WorkItem,
           worklist' = [worklist EXCEPT ![a] = [worklist[a] EXCEPT ![h] = x]]
    PROVE  /\ worklist' \in [Artifacts -> WorkLists]
           /\ \A b \in Artifacts \ {a} : worklist'[b] = worklist[b]
           /\ DOMAIN worklist'[a] = DOMAIN worklist[a] /\ worklist'[a][h] = x
           /\ \A g \in DOMAIN worklist[a] \ {h} : worklist'[a][g] = worklist[a][g]
<1>1. worklist \in [Artifacts -> WorkLists]
  BY DEF Shapes
<1> DEFINE f == [worklist[a] EXCEPT ![h] = x]
<1>2. f \in WorkLists /\ DOMAIN f = DOMAIN worklist[a]
  BY <1>1, EntryShape
<1>3. f[h] = x /\ \A g \in DOMAIN worklist[a] \ {h} : f[g] = worklist[a][g]
  BY <1>1
<1>4. worklist' = [worklist EXCEPT ![a] = f]
  OBVIOUS
<1> HIDE DEF f
<1>5. worklist' \in [Artifacts -> WorkLists] /\ worklist'[a] = f /\ \A b \in Artifacts \ {a} : worklist'[b] = worklist[b]
  BY <1>1, <1>2, <1>4
<1> QED BY <1>2, <1>3, <1>5

LEMMA WorklistMoves ==
    ASSUME Shapes, [Next]_vars
    PROVE  /\ worklist' \in [Artifacts -> WorkLists]
           /\ \A a \in Artifacts : ~row'[a].purged =>
                (worklist[a] = NoWork /\ worklist'[a] = FreshWork(a)) \/ Kept(a)
           /\ \A f \in freed : f[1] \in Artifacts /\ ~row'[f[1]].purged => f \in freed'
<1> DEFINE Goal == /\ worklist' \in [Artifacts -> WorkLists]
                   /\ \A a \in Artifacts : ~row'[a].purged =>
                        (worklist[a] = NoWork /\ worklist'[a] = FreshWork(a)) \/ Kept(a)
                   /\ \A f \in freed : f[1] \in Artifacts /\ ~row'[f[1]].purged => f \in freed'
<1>0. worklist \in [Artifacts -> WorkLists] /\ row \in [Artifacts -> Rows]
  BY DEF Shapes
<1>1. ASSUME worklist' = worklist, freed \subseteq freed' PROVE Goal
  <2>1. \A a \in Artifacts : Kept(a)
    BY <1>1 DEF Kept
  <2> QED BY <1>0, <1>1, <2>1
<1>2. ASSUME NEW a \in Artifacts, ByArtifact(a) PROVE worklist' = worklist /\ freed' = freed
  BY <1>2 DEF ByArtifact, Upload, Put, LockBlobs, Commit, FailIngest, Judge, Delete, Expire, Release, Reject, Waive, Requarantine,
              Decide, SweepRejected, LoseSweep
<1>3. ASSUME NEW h \in Hashes, ByRollback(h) PROVE worklist' = worklist /\ freed' = freed
  BY <1>3 DEF ByRollback, PutRefused, LookForRow, Rollback
<1>4. ASSUME NEW w \in Workers, ByWorker(w) PROVE Goal
  <2>0. /\ worker[w].page \subseteq Artifacts /\ (worker[w].pc \in Busy => worker[w].item \in Artifacts)
    BY DEF Shapes, Memory, InHand
  <2>1. CASE \/ Repair(w) \/ Stumble(w) \/ Crash(w) \/ ListPending(w) \/ LoseLock(w) \/ DeleteBlob(w)
             \/ \E a \in worker[w].page : Refuse(w, a) \/ Resume(w, a)
             \/ \E h \in worker[w].rest : Defer(w, h) \/ Grant(w, h)
    <3>1. worklist' = worklist /\ freed \subseteq freed'
      BY <2>1 DEF Repair, ScanDrift, Verdict, Restore, RepairFails, DropStale, Stumble, Crash, ListPending,
                LoseLock, DeleteBlob, Refuse, Resume, Defer, Grant
    <3> QED BY <3>1, <1>1
  <2>2. ASSUME NEW a \in worker[w].page, Prepare(w, a) PROVE Goal
    <3>1. /\ worklist' = [worklist EXCEPT ![a] = FreshWork(a)] /\ worklist[a] = NoWork
          /\ freed' = freed /\ a \in Artifacts
      BY <2>0, <2>2 DEF Prepare
    <3>2. FreshWork(a) \in WorkLists
      BY <3>1, FreshShape
    <3>3. worklist' \in [Artifacts -> WorkLists] /\ worklist'[a] = FreshWork(a) /\ \A b \in Artifacts \ {a} : worklist'[b] = worklist[b]
      BY <3>1, <3>2, <1>0
    <3>4. \A b \in Artifacts \ {a} : Kept(b)
      BY <3>3 DEF Kept
    <3> QED BY <3>1, <3>3, <3>4
  <2>3. ASSUME NEW h \in worker[w].rest, Superseded(w, h) PROVE Goal
    <3> DEFINE a == worker[w].item
    <3>1. CASE worklist' = worklist
      BY <2>3, <3>1, <1>1 DEF Superseded
    <3>2. CASE h \in DOMAIN worklist[a]
      <4>1. a \in Artifacts /\ worklist[a] \in WorkLists
        BY <2>0, <2>3, <1>0 DEF Superseded, Reclaiming, Busy
      <4>2. worklist[a][h] \in WorkItem
        BY <4>1, <3>2, WorkListShape
      <4>3. PICK n \in Nat : n = Claims(h) /\ n > 0
        BY <2>3, ClaimsCount DEF Superseded
      <4>4. worklist' = [worklist EXCEPT ![a] = [worklist[a] EXCEPT ![h] = [worklist[a][h] EXCEPT !.left = n]]] /\ freed' = freed
        BY <2>3, <3>2, <4>1, <4>3 DEF Superseded, Refreshed
      <4> DEFINE x == [worklist[a][h] EXCEPT !.left = n]
      <4>5. x \in WorkItem /\ x.left = n
        BY <4>2 DEF WorkItem
      <4>6. worklist' = [worklist EXCEPT ![a] = [worklist[a] EXCEPT ![h] = x]]
        BY <4>4
      <4> HIDE DEF x, a
      <4>7. /\ worklist' \in [Artifacts -> WorkLists]
            /\ \A b \in Artifacts \ {a} : worklist'[b] = worklist[b]
            /\ DOMAIN worklist'[a] = DOMAIN worklist[a] /\ worklist'[a][h] = x
            /\ \A g \in DOMAIN worklist[a] \ {h} : worklist'[a][g] = worklist[a][g]
        BY <4>1, <4>5, <4>6, <3>2, Rewritten
      <4>8. \A b \in Artifacts : Kept(b)
        BY <4>3, <4>5, <4>7 DEF Kept
      <4> QED BY <4>4, <4>7, <4>8
    <3> QED BY <2>3, <3>1, <3>2 DEF Superseded
  <2>4. ASSUME NEW h \in worker[w].rest, Mark(w, h) PROVE Goal
    <3> DEFINE a == worker[w].item
    <3>1. CASE worklist' = worklist
      BY <2>4, <3>1, <1>1 DEF Mark
    <3>2. CASE h \in DOMAIN worklist[a]
      <4>1. a \in Artifacts /\ worklist[a] \in WorkLists
        BY <2>0, <2>4, <1>0 DEF Mark, Busy
      <4>2. worklist[a][h] \in WorkItem
        BY <4>1, <3>2, WorkListShape
      <4>4. worklist' = [worklist EXCEPT ![a] = [worklist[a] EXCEPT ![h] = [worklist[a][h] EXCEPT !.done = TRUE]]] /\ freed' = freed
        BY <2>4, <3>2, <4>1 DEF Mark
      <4> DEFINE x == [worklist[a][h] EXCEPT !.done = TRUE]
      <4>5. x \in WorkItem /\ x.left = worklist[a][h].left
        BY <4>2 DEF WorkItem
      <4>6. worklist' = [worklist EXCEPT ![a] = [worklist[a] EXCEPT ![h] = x]]
        BY <4>4
      <4>7. /\ worklist' \in [Artifacts -> WorkLists]
            /\ \A b \in Artifacts \ {a} : worklist'[b] = worklist[b]
            /\ DOMAIN worklist'[a] = DOMAIN worklist[a] /\ worklist'[a][h] = x
            /\ \A g \in DOMAIN worklist[a] \ {h} : worklist'[a][g] = worklist[a][g]
        <5> HIDE DEF x, a
        <5> QED BY <4>1, <4>5, <4>6, <3>2, Rewritten
      <4>8. \A b \in Artifacts \ {a} : Kept(b)
        <5> HIDE DEF x, a
        <5> QED BY <4>7 DEF Kept
      <4>9. worker[w].item = a /\ h \in worker[w].rest /\ Mark(w, h)
        BY <2>4
      <4>10. Kept(a)
        <5> HIDE DEF x, a
        <5> QED BY <4>5, <4>7, <4>9 DEF Kept
      <4> HIDE DEF x, a
      <4> QED BY <4>4, <4>7, <4>8, <4>10
    <3> QED BY <2>4, <3>1, <3>2 DEF Mark
  <2>5. CASE Complete(w)
    <3> DEFINE a == worker[w].item
    <3>1. CASE worklist' = worklist /\ freed' = freed
      BY <3>1, <1>1
    <3>2. CASE /\ row' = [row EXCEPT ![a].purged = TRUE, ![a].service = "gone"]
               /\ worklist' = [worklist EXCEPT ![a] = NoWork]
               /\ freed' = {f \in freed : f[1] # a}
      <4>1. a \in Artifacts
        BY <2>0, <2>5 DEF Complete, Busy
      <4>2. row'[a].purged
        BY <3>2, <4>1, <1>0 DEF Rows
      <4>3. worklist' \in [Artifacts -> WorkLists] /\ \A b \in Artifacts \ {a} : worklist'[b] = worklist[b]
        BY <3>2, <4>1, <1>0, Blank
      <4>4. \A b \in Artifacts \ {a} : Kept(b)
        BY <4>3 DEF Kept
      <4> QED BY <3>2, <4>2, <4>3, <4>4
    <3> QED BY <2>5, <3>1, <3>2 DEF Complete
  <2> QED BY <1>4, <2>1, <2>2, <2>3, <2>4, <2>5 DEF ByWorker, Sweep
<1>5. CASE UNCHANGED vars
  BY <1>1, <1>5 DEF vars
<1> QED BY <1>1, <1>2, <1>3, <1>4, <1>5, Actors

(* Who changes what a worker remembers: itself. *)
LEMMA WorkerMoves ==
    ASSUME Shapes, [Next]_vars
    PROVE  /\ worker' \in [Workers -> Memory] /\ \A w \in Workers : InHand(worker'[w])
           /\ \A w \in Workers :
                \/ worker'[w] = worker[w]
                \/ /\ ByWorker(w)
                   /\ worker'[w].drop \subseteq worker[w].drop \cup Stale
                   /\ worker'[w].pc = "granted" => Grant(w, worker'[w].hash)
<1>0. worker \in [Workers -> Memory] /\ \A w \in Workers : InHand(worker[w])
  BY DEF Shapes
<1>1. ASSUME NEW w \in Workers, ByWorker(w)
      PROVE  /\ worker' \in [Workers -> Memory] /\ \A v \in Workers : InHand(worker'[v])
             /\ \A v \in Workers \ {w} : worker'[v] = worker[v]
             /\ worker'[w].drop \subseteq worker[w].drop \cup Stale
             /\ worker'[w].pc = "granted" => Grant(w, worker'[w].hash)
  <2>1. PICK r \in Memory : /\ InHand(r) /\ Step(w, r) /\ r.drop \subseteq worker[w].drop \cup Stale
                            /\ r.pc = "granted" => Grant(w, r.hash)
    BY <1>1, WorkerSteps
  <2>2. worker' = [worker EXCEPT ![w] = r]
    BY <2>1 DEF Step
  <2>3. /\ worker' \in [Workers -> Memory] /\ \A v \in Workers : InHand(worker'[v])
        /\ worker'[w] = r /\ \A v \in Workers \ {w} : worker'[v] = worker[v]
    BY <2>1, <2>2, Remembers
  <2> QED BY <2>1, <2>3
<1>2. ASSUME NEW a \in Artifacts, ByArtifact(a) PROVE worker' = worker
  BY <1>2 DEF ByArtifact, Upload, Put, LockBlobs, Commit, FailIngest, Judge, Delete, Expire, Release, Reject, Waive, Requarantine,
              Decide, SweepRejected, LoseSweep
<1>3. ASSUME NEW h \in Hashes, ByRollback(h) PROVE worker' = worker
  BY <1>3 DEF ByRollback, PutRefused, LookForRow, Rollback
<1>4. CASE worker' = worker
  BY <1>0, <1>4
<1>5. CASE UNCHANGED vars
  BY <1>4, <1>5 DEF vars
<1> QED BY <1>1, <1>2, <1>3, <1>4, <1>5, Actors

LEMMA ShapesKept == ReclaimInv /\ [Next]_vars => Shapes'
<1> SUFFICES ASSUME ReclaimInv, [Next]_vars PROVE Shapes'
  OBVIOUS
<1>1. Shapes /\ LooksFit
  BY DEF ReclaimInv
<1> QED BY <1>1, RowMoves, EdgesCome, UploadMoves, UnsweptMoves, WorklistMoves, WorkerMoves, RefusedMoves
       DEF Shapes

-----------------------------------------------------------------------------
(* Who lapsed stays so, and whoever is in service was so before, or was    *)
(* just committed.                                                         *)
LEMMA ServiceMoves ==
    ASSUME ReclaimInv, [Next]_vars, NEW a \in Artifacts
    PROVE  /\ Lapsed(a) => Lapsed(a)'
           /\ Live(a)' => Live(a) \/ Commit(a)
           /\ Live(a)' /\ ~Lapsed(a)' /\ Live(a) => ~Lapsed(a)
           /\ Exists(a)' => Exists(a) \/ Commit(a)
<1>1. Shapes /\ condemned \subseteq condemned'
  BY UploadMoves DEF ReclaimInv
<1>2. /\ row'[a].service = "live" => row[a].service = "live"
      /\ row'[a].status # row[a].status => Commit(a) \/ row[a].status # "absent"
  BY <1>1, RowMoves DEF Release, Reject, Waive, Requarantine, Decide
<1> QED BY <1>1, <1>2 DEF Lapsed, Live, Exists

(* Who is rejected, and who is released for it. *)
LEMMA CondemnedMoves ==
    ASSUME Shapes, [Next]_vars
    PROVE  \A a \in condemned' : a \in condemned \/ Reject(a)
<1>1. ASSUME NEW a \in Artifacts, ByArtifact(a)
      PROVE  condemned' = condemned \/ (Reject(a) /\ condemned' = condemned \cup {a})
  BY <1>1 DEF ByArtifact, Upload, Put, LockBlobs, Commit, FailIngest, Judge, Delete, Expire, Release, Reject, Waive, Requarantine,
              Decide, SweepRejected, LoseSweep
<1>2. ASSUME NEW h \in Hashes, ByRollback(h) PROVE condemned' = condemned
  BY <1>2 DEF ByRollback, PutRefused, LookForRow, Rollback
<1>3. ASSUME NEW w \in Workers, ByWorker(w) PROVE condemned' = condemned
  BY <1>3, WorkerSteps DEF Step
<1>4. CASE UNCHANGED vars
  BY <1>4 DEF vars
<1> QED BY <1>1, <1>2, <1>3, <1>4, Actors

(* A verdict on a: the status it leaves, and the histories it writes. *)
LEMMA Judged ==
    ASSUME Shapes, NEW a \in Artifacts
    PROVE  /\ Release(a) => row[a].status = "held" /\ row'[a].status = "released" /\ (a \in condemned => a \in reinstated')
           /\ Reject(a) => row'[a].status = "rejected" /\ a \in condemned'
           /\ Waive(a) => row[a].status = "rejected" /\ row'[a].status = "released" /\ a \in reinstated'
           /\ Requarantine(a) => row[a].status = "rejected" /\ row'[a].status = "held"
<1>1. row \in [Artifacts -> Rows]
  BY DEF Shapes
<1>2. \A from, to : Decide(a, from, to) => row[a].status \in from /\ row'[a].status = to
  BY <1>1 DEF Decide, Rows
<1> QED BY <1>2 DEF Release, Reject, Waive, Requarantine

LEMMA StandingKept == ReclaimInv /\ [Next]_vars => StandingFits'
<1> SUFFICES ASSUME ReclaimInv, [Next]_vars, NEW a \in Artifacts
             PROVE  /\ row'[a].status = "absent" => a \notin condemned'
                    /\ row'[a].status = "rejected" => a \in condemned'
                    /\ row'[a].status = "released" /\ a \in condemned' => a \in reinstated'
  BY DEF StandingFits
<1>1. /\ Shapes /\ reinstated \subseteq reinstated' /\ condemned \subseteq condemned'
      /\ row[a].status = "absent" => a \notin condemned
      /\ row[a].status = "rejected" => a \in condemned
      /\ row[a].status = "released" /\ a \in condemned => a \in reinstated
  BY UploadMoves DEF ReclaimInv, StandingFits
<1>2. ASSUME Commit(a) PROVE row[a].status = "absent" /\ row'[a].status \in {"held", "released"} /\ condemned' = condemned
  <2>1. row[a].status = "absent"
    BY <1>2 DEF ReclaimInv, UploadsFit, Exists, Commit
  <2>2. row \in [Artifacts -> Rows]
    BY <1>1 DEF Shapes
  <2> QED BY <1>2, <2>1, <2>2, ReclaimAssumption DEF Commit, Rows
<1>3. a \in condemned' => a \in condemned \/ Reject(a)
  BY <1>1, CondemnedMoves
<1>4. row'[a].status # row[a].status => Commit(a) \/ Release(a) \/ Reject(a) \/ Waive(a) \/ Requarantine(a)
  BY <1>1, RowMoves
<1> QED BY <1>1, <1>2, <1>3, <1>4, Judged

(* The row an upload waits for is not there, and its bytes are, or went. *)
LEMMA UploadsKept == ReclaimInv /\ [Next]_vars => UploadsFit'
<1> SUFFICES ASSUME ReclaimInv, [Next]_vars, NEW a \in Artifacts
             PROVE  /\ ingest'[a] # "done" => ~Exists(a)'
                    /\ ingest'[a] \in {"put", "locked"} => Targets[a] \subseteq cas' \/ a \in gapped'
  BY DEF UploadsFit
<1>1. /\ Shapes /\ ingest \in [Artifacts -> {"none", "put", "locked", "done"}]
      /\ ingest[a] # "done" => ~Exists(a)
      /\ ingest[a] \in {"put", "locked"} => Targets[a] \subseteq cas \/ a \in gapped
  BY DEF ReclaimInv, UploadsFit, Shapes
<1>2. ingest'[a] # "done" => ~Exists(a)'
  <2>1. Commit(a) => ingest'[a] = "done"
    BY <1>1 DEF Commit
  <2>2. ingest[a] = "done" => ingest'[a] = "done"
    <3>1. ~Upload(a) \/ ingest[a] # "done"
      BY DEF Upload, Put, LockBlobs, Commit, FailIngest
    <3> QED BY <1>1, <3>1, UploadMoves
  <2> QED BY <1>1, <2>1, <2>2, ServiceMoves
<1>3. ASSUME ingest'[a] \in {"put", "locked"}
      PROVE  Targets[a] \subseteq cas' \/ a \in gapped'
  <2>1. CASE Put(a)
    BY <2>1 DEF Put
  <2>2. ASSUME ~Put(a) PROVE ingest[a] \in {"put", "locked"} /\ (ingest[a] = "locked" => ingest'[a] = "locked") /\ ~FailIngest(a)
    <3>1. CASE Upload(a)
      BY <1>1, <1>3, <2>2, <3>1 DEF Upload, LockBlobs, Commit, FailIngest
    <3>2. CASE ~Upload(a)
      BY <1>1, <1>3, <3>2, UploadMoves DEF Upload
    <3> QED BY <3>1, <3>2
  <2>3. ASSUME ~Put(a), a \in gapped PROVE a \in gapped'
    BY <1>1, <2>2, <2>3, UploadMoves
  <2>4. ASSUME ~Put(a), NEW h \in Targets[a], h \in cas, h \notin cas' PROVE a \in gapped'
    <3>1. CASE h \in Hashes /\ Rollback(h)
      <4>1. refused[h].known = {}
        BY <3>1 DEF ReclaimInv, LooksFit
      <4> QED BY <2>2, <2>4, <3>1, <4>1 DEF Rollback, Overtaken
    <3>2. ASSUME NEW w \in Workers, DeleteBlob(w), worker[w].hash = h PROVE a \in gapped'
      <4>1. worker[w].pc = "granted" => ingest[a] # "locked"
        BY <2>4, <3>2 DEF ReclaimInv, GrantsFit, Unclaimed
      <4> QED BY <2>2, <2>4, <3>2, <4>1 DEF DeleteBlob, Bereft
    <3> QED BY <1>1, <2>4, <3>1, <3>2, BytesGo
  <2> QED BY <1>1, <2>1, <2>2, <2>3, <2>4
<1> QED BY <1>2, <1>3

(* Only artifacts that were rejected are about to lose their edges. *)
LEMMA DropsKept == ReclaimInv /\ [Next]_vars => DropsFit'
<1> SUFFICES ASSUME ReclaimInv, [Next]_vars PROVE DropsFit'
  OBVIOUS
<1>1. Shapes /\ DropsFit
  BY DEF ReclaimInv
<1>2. ASSUME NEW a \in unswept' PROVE Lapsed(a)'
  <2>1. a \in Artifacts /\ (a \in unswept \/ Reject(a))
    BY <1>1, <1>2, UnsweptMoves
  <2>2. CASE a \in unswept
    BY <1>1, <2>1, <2>2, ServiceMoves DEF DropsFit
  <2>3. CASE Reject(a)
    BY <2>3 DEF Reject, Lapsed
  <2> QED BY <2>1, <2>2, <2>3
<1>3. ASSUME NEW w \in Workers, NEW a \in worker'[w].drop PROVE Lapsed(a)'
  <2>1. a \in worker[w].drop \cup Stale
    BY <1>1, <1>3, WorkerMoves
  <2>2. a \in Artifacts /\ Lapsed(a)
    <3>1. worker[w].drop \subseteq Artifacts
      BY <1>1 DEF Shapes, Memory
    <3> QED BY <1>1, <2>1, <3>1 DEF ReclaimInv, StandingFits, DropsFit, Stale, Lapsed
  <2> QED BY <2>2, ServiceMoves
<1> QED BY <1>2, <1>3 DEF DropsFit

(* Whoever is in service and did not lapse has its edges. *)
LEMMA EdgesKept == ReclaimInv /\ [Next]_vars => EdgesFit'
<1> SUFFICES ASSUME ReclaimInv, [Next]_vars, NEW a \in Artifacts, Live(a)', ~Lapsed(a)', NEW h \in Targets[a]
             PROVE  <<a, h>> \in edges'
  BY DEF EdgesFit
<1>1. Shapes /\ EdgesFit /\ DropsFit
  BY DEF ReclaimInv
<1>2. CASE Commit(a)
  BY <1>2 DEF Commit
<1>3. CASE ~Commit(a)
  <2>1. Live(a) /\ ~Lapsed(a)
    BY <1>3, ServiceMoves
  <2>2. <<a, h>> \in edges
    BY <1>1, <2>1 DEF EdgesFit
  <2>3. row' # Retired(a)
    <3>1. row \in [Artifacts -> Rows]
      BY <1>1 DEF Shapes
    <3> QED BY <3>1 DEF Retired, Live, Rows
  <2>4. SUFFICES ASSUME <<a, h>> \notin edges' PROVE FALSE
    OBVIOUS
  <2>5. PICK e : e = <<a, h>>
    OBVIOUS
  <2>6. e[1] = a
    BY <2>5
  <2>7. \/ e[1] \in unswept
        \/ \E w \in Workers : e[1] \in worker[w].drop
        \/ row' = Retired(e[1])
    BY <1>1, <2>2, <2>4, <2>5, EdgesGo
  <2> QED BY <1>1, <2>1, <2>3, <2>6, <2>7 DEF DropsFit
<1> QED BY <1>2, <1>3

(* A count of zero under the lock: nobody in service names the blob but    *)
(* artifacts released from a rejection.                                    *)
LEMMA CountedZero ==
    ASSUME ReclaimInv, NEW h, ~Locked(h), Claims(h) = 0
    PROVE  Unclaimed(h)
<1>1. Shapes /\ EdgesFit
  BY DEF ReclaimInv
<1>2. \A e \in edges : e[2] # h
  BY <1>1, ClaimsCount
<1>3. ASSUME NEW a \in Artifacts, h \in Targets[a]
      PROVE  ingest[a] # "locked" /\ (Live(a) => a \in reinstated)
  <2>1. ingest[a] # "locked"
    BY <1>3 DEF Locked
  <2>2. ASSUME Live(a), a \notin reinstated PROVE FALSE
    <3>1. ~Protected(a)
      BY <1>1, <1>3, <2>2, ClaimsCount
    <3>2. ~Lapsed(a)
      <4>1. row[a].status = "released"
        BY <1>1, <2>2, <3>1 DEF Shapes, Rows, Live, Exists, Protected
      <4> QED BY <2>2, <4>1 DEF ReclaimInv, StandingFits, Lapsed
    <3>3. <<a, h>> \in edges
      BY <1>1, <1>3, <2>2, <3>2 DEF EdgesFit
    <3> QED BY <1>2, <3>3
  <2> QED BY <2>1, <2>2
<1> QED BY <1>2, <1>3 DEF Unclaimed

(* Nobody gets a claim in before the granted delete. *)
LEMMA GrantsKept == ReclaimInv /\ [Next]_vars => GrantsFit'
<1> SUFFICES ASSUME ReclaimInv, [Next]_vars, NEW w \in Workers, worker'[w].pc = "granted",
                    NEW h, h = worker'[w].hash
             PROVE  Unclaimed(h)'
  BY DEF GrantsFit, Unclaimed
<1>1. Shapes
  BY DEF ReclaimInv
<1>3. Unclaimed(h) /\ ((Locked(h) /\ worker'[w] = worker[w]) \/ Grant(w, h))
  <2>1. CASE worker'[w] = worker[w]
    BY <2>1 DEF ReclaimInv, GrantsFit, Locked
  <2>2. CASE Grant(w, h)
    BY <2>2, CountedZero DEF Grant
  <2> QED BY <1>1, <2>1, <2>2, WorkerMoves
<1>4. Grant(w, h) => edges' = edges /\ ingest' = ingest /\ row' = row /\ reinstated' = reinstated
  BY DEF Grant, Step
<1>5. ASSUME NEW e \in edges' PROVE e[2] # h
  <2>1. CASE e \in edges
    BY <1>3, <2>1 DEF Unclaimed
  <2>2. CASE e \notin edges
    <3>1. ~Grant(w, h)
      BY <1>4, <1>5, <2>2
    <3>2. ASSUME NEW a \in Artifacts, NEW g \in Targets[a], Commit(a), e = <<a, g>>
          PROVE  e[2] # h
      BY <1>3, <3>2 DEF Unclaimed, Commit
    <3> QED BY <1>1, <1>3, <1>5, <2>2, <3>1, <3>2, EdgesCome
  <2> QED BY <2>1, <2>2
<1>6. ASSUME NEW a \in Artifacts, h \in Targets[a] PROVE ingest'[a] # "locked" /\ (Live(a)' => a \in reinstated')
  <2>1. ingest[a] # "locked" /\ (Live(a) => a \in reinstated)
    BY <1>3, <1>6 DEF Unclaimed
  <2>2. ingest'[a] # "locked"
    <3>1. CASE Grant(w, h)
      BY <1>4, <2>1, <3>1
    <3>2. CASE Locked(h)
      <4>1. ~LockBlobs(a)
        BY <1>6, <3>2 DEF LockBlobs
      <4>2. ingest \in [Artifacts -> {"none", "put", "locked", "done"}]
        BY <1>1 DEF Shapes
      <4>3. Upload(a) => ingest'[a] # "locked"
        BY <4>1, <4>2 DEF Upload, Put, Commit, FailIngest
      <4> QED BY <1>1, <2>1, <4>3, UploadMoves
    <3> QED BY <1>3, <3>1, <3>2
  <2>3. ASSUME Live(a)' PROVE a \in reinstated'
    <3>1. ~Commit(a)
      BY <2>1 DEF Commit
    <3>2. Live(a) /\ reinstated \subseteq reinstated'
      BY <1>1, <2>3, <3>1, ServiceMoves, UploadMoves
    <3> QED BY <2>1, <3>2
  <2> QED BY <2>2, <2>3
<1> QED BY <1>5, <1>6 DEF Unclaimed

(* Bytes an artifact in service lost went before its claim, to a rollback  *)
(* or an unlocked purge, or for want of the edges a rejection dropped.     *)
LEMMA LossKept == ReclaimInv /\ [Next]_vars => LossExplained'
<1> SUFFICES ASSUME ReclaimInv, [Next]_vars, NEW a \in Artifacts, Live(a)', a \notin gapped', a \notin reinstated',
                    NEW h \in Targets[a], h \notin cas'
             PROVE  FALSE
  BY DEF LossExplained
<1>1. Shapes /\ reinstated \subseteq reinstated' /\ \A b \in gapped : b \notin gapped' => FailIngest(b)
  BY UploadMoves DEF ReclaimInv
<1>2. CASE Commit(a)
  BY <1>2 DEF Commit, ReclaimInv, UploadsFit
<1>3. CASE ~Commit(a)
  <2>1. Live(a)
    BY <1>3, ServiceMoves
  <2>2. ~FailIngest(a)
    BY <2>1 DEF FailIngest, ReclaimInv, UploadsFit, Live
  <2>3. h \in cas
    BY <1>1, <2>1, <2>2 DEF ReclaimInv, LossExplained
  <2>4. CASE h \in Hashes /\ Rollback(h)
    <3>1. refused[h].known = {}
      BY <2>4 DEF ReclaimInv, LooksFit
    <3> QED BY <2>1, <2>3, <2>4, <3>1 DEF Rollback, Overtaken
  <2>5. ASSUME NEW w \in Workers, DeleteBlob(w), worker[w].hash = h PROVE FALSE
    <3>1. CASE worker[w].pc = "granted"
      BY <1>1, <2>1, <2>5, <3>1 DEF ReclaimInv, GrantsFit, Unclaimed
    <3>2. CASE worker[w].pc = "unlocked"
      BY <2>1, <2>3, <2>5, <3>2 DEF DeleteBlob, Bereft
    <3> QED BY <2>5, <3>1, <3>2 DEF DeleteBlob
  <2> QED BY <1>1, <2>3, <2>4, <2>5, BytesGo
<1> QED BY <1>2, <1>3

(* A worker in the middle of an artifact: how it got there. *)
LEMMA BusyMoves ==
    ASSUME Shapes, NEW w \in Workers, ByWorker(w), worker'[w].pc \in Busy
    PROVE  \/ \E a \in Artifacts : /\ worker'[w].item = a /\ worker'[w].copy = worklist'[a] /\ worker'[w].pc = "refs"
                                   /\ worklist'[a] # NoWork /\ worklist' \in [Artifacts -> WorkLists]
           \/ /\ worker[w].pc \in Busy /\ worker'[w].item = worker[w].item /\ worker'[w].copy = worker[w].copy
              /\ worker'[w].pc = "mark" => DeleteBlob(w) /\ worker'[w].hash = worker[w].hash
           \/ \E h \in worker[w].rest :
                /\ worker[w].pc \in Busy /\ worker'[w].item = worker[w].item /\ h \in DOMAIN worklist[worker[w].item]
                /\ DOMAIN worker'[w].copy = DOMAIN worker[w].copy /\ worker'[w].hash = h
                /\ \A g \in DOMAIN worker[w].copy \ {h} : worker'[w].copy[g] = worker[w].copy[g]
                /\ worklist' = Refreshed(worker[w].item, h, Claims(h)) /\ Claims(h) > 0
<1>0. /\ worker \in [Workers -> Memory] /\ worker[w] \in Memory /\ InHand(worker[w]) /\ worker[w].page \subseteq Artifacts
      /\ worklist \in [Artifacts -> WorkLists]
  BY DEF Shapes, Memory
<1>1. ASSUME NEW r, Step(w, r) PROVE worker'[w] = r
  BY <1>0, <1>1 DEF Step
<1>2. ~Repair(w)
  BY <1>0, <1>1, RepairShape DEF Busy
<1>3. ~Step(w, Dropped(w))
  BY <1>1, DroppedShape DEF Busy
<1>4. ~Stumble(w) /\ ~Complete(w) /\ ~\E h \in worker[w].rest : Defer(w, h)
  BY <1>3 DEF Stumble, Complete, Defer
<1>5. ~Crash(w)
  BY <1>1, Blank DEF Crash, Busy
<1>6. ~ListPending(w) /\ ~\E a \in worker[w].page : Refuse(w, a)
  <2>1. CASE ListPending(w)
    <3>1. worker'[w] = [worker[w] EXCEPT !.pc = "page", !.page = {a \in Artifacts : Pending(a)}]
      BY <2>1, <1>1 DEF ListPending
    <3>2. worker'[w].pc = "page"
      BY <3>1, <1>0 DEF Memory
    <3> QED BY <3>2 DEF Busy
  <2>2. ASSUME NEW a \in worker[w].page, Refuse(w, a) PROVE FALSE
    <3>1. worker'[w] = [worker[w] EXCEPT !.page = @ \ {a}, !.pc = IF worker[w].page = {a} THEN "idle" ELSE "page"]
      BY <2>2, <1>1 DEF Refuse
    <3>2. worker'[w].pc \in {"idle", "page"}
      BY <3>1, <1>0 DEF Memory
    <3> QED BY <3>2 DEF Busy
  <2> QED BY <2>1, <2>2
<1>7. CASE DeleteBlob(w)
  <2>1. worker'[w] = [worker[w] EXCEPT !.pc = "mark"] /\ worker[w].pc \in {"granted", "unlocked"}
    BY <1>1, <1>7 DEF DeleteBlob
  <2>2. worker'[w].item = worker[w].item /\ worker'[w].copy = worker[w].copy /\ worker'[w].hash = worker[w].hash
    BY <1>0, <2>1 DEF Memory
  <2> QED BY <1>7, <2>1, <2>2 DEF Busy
<1>15. CASE LoseLock(w)
  <2>1. worker'[w] = [worker[w] EXCEPT !.pc = "unlocked"] /\ worker[w].pc = "granted"
    BY <1>1, <1>15 DEF LoseLock
  <2>2. worker'[w].item = worker[w].item /\ worker'[w].copy = worker[w].copy /\ worker'[w].pc = "unlocked"
    BY <1>0, <2>1 DEF Memory
  <2> QED BY <2>1, <2>2 DEF Busy
<1>8. ASSUME NEW a \in worker[w].page, Resume(w, a) \/ Prepare(w, a)
      PROVE  /\ worker'[w].item = a /\ worker'[w].copy = worklist'[a] /\ worker'[w].pc = "refs"
             /\ worklist'[a] # NoWork /\ worklist' \in [Artifacts -> WorkLists]
  <2>1. a \in Artifacts
    BY <1>0
  <2>2. CASE Resume(w, a)
    <3>1. worker'[w] = Taken(w, a, worklist[a]) /\ worklist' = worklist /\ worklist[a] # NoWork
      BY <1>1, <2>2 DEF Resume
    <3> QED BY <1>0, <2>1, <3>1, TakenShape
  <2>3. CASE Prepare(w, a)
    <3>1. worker'[w] = Taken(w, a, FreshWork(a)) /\ worklist' = [worklist EXCEPT ![a] = FreshWork(a)]
      BY <1>1, <2>3 DEF Prepare
    <3>2. FreshWork(a) \in WorkLists /\ FreshWork(a) # NoWork
      BY <2>1, FreshShape, Blank
    <3>3. worklist'[a] = FreshWork(a) /\ worklist' \in [Artifacts -> WorkLists]
      BY <1>0, <2>1, <3>1, <3>2
    <3>4. worker'[w].item = a /\ worker'[w].copy = FreshWork(a) /\ worker'[w].pc = "refs"
      BY <2>1, <3>1, <3>2, TakenShape
    <3> QED BY <3>2, <3>3, <3>4
  <2> QED BY <1>8, <2>2, <2>3
<1>9. ASSUME NEW h \in worker[w].rest, Grant(w, h) \/ Mark(w, h)
      PROVE  /\ worker[w].pc \in Busy /\ worker'[w].item = worker[w].item /\ worker'[w].copy = worker[w].copy
             /\ worker'[w].pc # "mark"
  <2>1. \/ worker'[w] = [worker[w] EXCEPT !.pc = "granted", !.hash = h]
        \/ worker'[w] = [worker[w] EXCEPT !.pc = "refs", !.hash = NoHash, !.rest = @ \ {h}]
    BY <1>1, <1>3, <1>9 DEF Grant, Mark
  <2>2. worker[w].pc \in Busy
    BY <1>9 DEF Grant, Mark, Reclaiming, Busy
  <2> QED BY <1>0, <2>1, <2>2 DEF Memory
<1>10. ASSUME NEW h \in worker[w].rest, Superseded(w, h)
       PROVE  /\ worker[w].pc \in Busy /\ worker'[w].item = worker[w].item /\ h \in DOMAIN worklist[worker[w].item]
              /\ DOMAIN worker'[w].copy = DOMAIN worker[w].copy /\ worker'[w].hash = h
              /\ \A g \in DOMAIN worker[w].copy \ {h} : worker'[w].copy[g] = worker[w].copy[g]
              /\ worklist' = Refreshed(worker[w].item, h, Claims(h)) /\ Claims(h) > 0
  <2>1. PICK n : n = Claims(h)
    OBVIOUS
  <2>2. /\ worker'[w] = [worker[w] EXCEPT !.pc = "mark", !.hash = h, !.copy[h].left = n]
        /\ worklist' = Refreshed(worker[w].item, h, Claims(h)) /\ Claims(h) > 0
        /\ h \in DOMAIN worklist[worker[w].item] /\ worker[w].pc = "refs"
    BY <1>1, <1>3, <1>10, <2>1 DEF Superseded, Reclaiming
  <2>3. h \in DOMAIN worker[w].copy /\ worker[w].copy \in WorkLists
    BY <1>0 DEF InHand, Memory
  <2>4. /\ worker'[w].item = worker[w].item /\ worker'[w].hash = h
        /\ worker'[w].copy = [worker[w].copy EXCEPT ![h] = [worker[w].copy[h] EXCEPT !.left = n]]
    BY <1>0, <2>2 DEF Memory
  <2>5. /\ DOMAIN worker'[w].copy = DOMAIN worker[w].copy
        /\ \A g \in DOMAIN worker[w].copy \ {h} : worker'[w].copy[g] = worker[w].copy[g]
    BY <2>4
  <2> QED BY <2>2, <2>4, <2>5 DEF Busy
<1>11. CASE \E a \in worker[w].page : Resume(w, a) \/ Prepare(w, a)
  BY <1>0, <1>8, <1>11
<1>12. CASE \E h \in worker[w].rest : Grant(w, h) \/ Mark(w, h)
  BY <1>9, <1>12
<1>13. CASE \E h \in worker[w].rest : Superseded(w, h)
  BY <1>10, <1>13
<1>14. \/ DeleteBlob(w) \/ LoseLock(w)
       \/ \E a \in worker[w].page : Resume(w, a) \/ Prepare(w, a)
       \/ \E h \in worker[w].rest : Grant(w, h) \/ Mark(w, h)
       \/ \E h \in worker[w].rest : Superseded(w, h)
  BY <1>2, <1>4, <1>5, <1>6 DEF ByWorker, Sweep
<1> QED BY <1>7, <1>11, <1>12, <1>13, <1>14, <1>15

(* A worker's copy says a blob is claimed only if the worklist does. *)
LEMMA CopiesKept == ReclaimInv /\ [Next]_vars => CopiesFit'
<1> SUFFICES ASSUME ReclaimInv, [Next]_vars, NEW w \in Workers, NEW a \in Artifacts,
                    worker'[w].pc \in Busy, worker'[w].item = a, ~row'[a].purged
             PROVE  CopyFits(w, a)'
  BY DEF CopiesFit
<1>1. Shapes /\ worklist[a] \in WorkLists /\ row \in [Artifacts -> Rows]
  BY DEF ReclaimInv, Shapes
<1>2. ~row[a].purged /\ \A h : <<a, h>> \in freed => <<a, h>> \in freed'
  <2>1. ~row[a].purged
    BY <1>1, RowMoves
  <2>2. ASSUME NEW h, <<a, h>> \in freed PROVE <<a, h>> \in freed'
    <3>1. PICK f : f = <<a, h>>
      OBVIOUS
    <3>2. f[1] = a
      BY <3>1
    <3> QED BY <1>1, <2>2, <3>1, <3>2, WorklistMoves
  <2> QED BY <2>1, <2>2
<1>3. ASSUME worker[w].pc \in Busy, worker[w].item = a
      PROVE  CopyFits(w, a) /\ Kept(a)
  <2>1. CopyFits(w, a)
    BY <1>2, <1>3 DEF ReclaimInv, CopiesFit
  <2>2. worklist[a] # NoWork
    BY <2>1, Blank DEF CopyFits
  <2> QED BY <1>1, <2>1, <2>2, WorklistMoves
<1>4. CASE worker'[w] = worker[w]
  <2>1. CopyFits(w, a) /\ Kept(a)
    BY <1>3, <1>4
  <2> QED BY <1>2, <1>4, <2>1 DEF CopyFits, Kept
<1>5. CASE /\ worker'[w].copy = worklist'[a] /\ worker'[w].pc = "refs"
           /\ worklist'[a] # NoWork /\ worklist' \in [Artifacts -> WorkLists]
  <2>1. DOMAIN worklist'[a] # {}
    BY <1>5, Blank
  <2> QED BY <1>5, <2>1 DEF CopyFits
<1>6. CASE /\ worker[w].pc \in Busy /\ worker'[w].item = worker[w].item /\ worker'[w].copy = worker[w].copy
           /\ worker'[w].pc = "mark" => DeleteBlob(w) /\ worker'[w].hash = worker[w].hash
  <2>1. CopyFits(w, a) /\ Kept(a)
    BY <1>3, <1>6
  <2>2. ASSUME worker'[w].pc = "mark", NEW h \in DOMAIN worklist[a], worker'[w].hash = h
        PROVE  <<a, h>> \in freed'
    <3>1. DeleteBlob(w) /\ worker[w].hash = h /\ worker[w].item = a
      BY <1>6, <2>2
    <3>2. <<a, h>> \in Listed
      <4>1. h \in Hashes
        BY <1>1, <2>2, WorkListShape
      <4> QED BY <2>2, <4>1 DEF Listed
    <3> QED BY <3>1, <3>2 DEF DeleteBlob
  <2> QED BY <1>6, <2>1, <2>2 DEF CopyFits, Kept
<1>7. ASSUME NEW h \in worker[w].rest,
             /\ worker[w].pc \in Busy /\ worker'[w].item = worker[w].item /\ h \in DOMAIN worklist[worker[w].item]
             /\ DOMAIN worker'[w].copy = DOMAIN worker[w].copy /\ worker'[w].hash = h
             /\ \A g \in DOMAIN worker[w].copy \ {h} : worker'[w].copy[g] = worker[w].copy[g]
             /\ worklist' = Refreshed(worker[w].item, h, Claims(h)) /\ Claims(h) > 0
      PROVE  CopyFits(w, a)'
  <2>1. CopyFits(w, a) /\ Kept(a) /\ worker[w].item = a
    BY <1>3, <1>7
  <2>2. PICK n \in Nat : n = Claims(h) /\ n > 0
    BY <1>1, <1>7, ClaimsCount
  <2>3. worklist' = [worklist EXCEPT ![a][h].left = n] /\ h \in DOMAIN worklist[a]
    BY <1>7, <2>1, <2>2 DEF Refreshed
  <2>4. worklist'[a][h].left = n
    <3>1. worklist \in [Artifacts -> WorkLists] /\ worklist[a][h] \in WorkItem
      BY <1>1, <2>3, WorkListShape DEF Shapes
    <3> QED BY <2>3, <3>1 DEF WorkItem
  <2> QED BY <1>7, <2>1, <2>2, <2>4 DEF CopyFits, Kept
<1>8. CASE ByWorker(w)
  BY <1>1, <1>5, <1>6, <1>7, <1>8, BusyMoves
<1> QED BY <1>1, <1>4, <1>8, WorkerMoves

(* A blob is checkpointed as claimed by nobody only once it was deleted. *)
LEMMA ZeroKept == ReclaimInv /\ [Next]_vars => ZeroIsDeleted'
<1> SUFFICES ASSUME ReclaimInv, [Next]_vars, NEW a \in Artifacts, NEW h \in DOMAIN worklist'[a],
                    worklist'[a][h].done, worklist'[a][h].left = 0, ~row'[a].purged
             PROVE  <<a, h>> \in freed'
  BY DEF ZeroIsDeleted
<1>1. Shapes /\ worklist[a] \in WorkLists /\ row \in [Artifacts -> Rows]
  BY DEF ReclaimInv, Shapes
<1>2. ~row[a].purged
  BY <1>1, RowMoves
<1>3. <<a, h>> \in freed => <<a, h>> \in freed'
  <2>1. PICK f : f = <<a, h>>
    OBVIOUS
  <2>2. f[1] = a
    BY <2>1
  <2> QED BY <1>1, <2>1, <2>2, WorklistMoves
<1>4. Kept(a)
  <2>1. worklist'[a] # FreshWork(a)
    BY <1>1, FreshShape
  <2> QED BY <1>1, <2>1, WorklistMoves
<1>5. h \in DOMAIN worklist[a] /\ worklist[a][h].left = 0
  <2>1. h \in DOMAIN worklist[a]
    BY <1>4 DEF Kept
  <2>2. worklist[a][h].left \in Nat
    BY <1>1, <2>1, WorkListShape DEF WorkItem
  <2> QED BY <1>4, <2>1, <2>2 DEF Kept
<1>6. CASE worklist[a][h].done
  BY <1>2, <1>3, <1>5, <1>6 DEF ReclaimInv, ZeroIsDeleted
<1>7. ASSUME NEW w \in Workers, worker[w].item = a, h \in worker[w].rest, Mark(w, h)
      PROVE  <<a, h>> \in freed
  <2>1. CopyFits(w, a)
    BY <1>2, <1>7 DEF ReclaimInv, CopiesFit, Mark, Busy
  <2>2. h \in DOMAIN worker[w].copy
    BY <1>1, <1>7 DEF Shapes, InHand
  <2> QED BY <1>5, <1>7, <2>1, <2>2 DEF CopyFits, Mark
<1> QED BY <1>3, <1>4, <1>5, <1>6, <1>7 DEF Kept

LEMMA ReclaimNext == ReclaimInv /\ [Next]_vars => ReclaimInv'
<1> SUFFICES ASSUME ReclaimInv, [Next]_vars PROVE ReclaimInv'
  OBVIOUS
<1>1. LooksFit'
  BY RefusedMoves DEF ReclaimInv
<1> QED BY <1>1, ShapesKept, UploadsKept, DropsKept, StandingKept, EdgesKept, GrantsKept, CopiesKept, LossKept, ZeroKept
       DEF ReclaimInv

LEMMA ReclaimInvariant == Spec => []ReclaimInv
BY ReclaimInit, ReclaimNext, PTL DEF Spec

-----------------------------------------------------------------------------
(* An artifact in service has its bytes but for the windows named in       *)
(* LossExplained, whatever the uploads, sweeps and repairs do at once.     *)
THEOREM LossesAreExplained == Spec => []LossExplained
<1>1. ReclaimInv => LossExplained
  BY DEF ReclaimInv
<1> QED BY <1>1, ReclaimInvariant, PTL

(* The first worklist of an artifact never says that nobody claims a blob  *)
(* unless a sweep had it deleted, whichever sweeps work on it.             *)
THEOREM ZeroMeansDeleted == Spec => []ZeroIsDeleted
<1>1. ReclaimInv => ZeroIsDeleted
  BY DEF ReclaimInv
<1> QED BY <1>1, ReclaimInvariant, PTL

(* The purge deletes no blob an edge names: the advisory lock covers the   *)
(* count and the delete, and every writer of an edge waits for it, unless  *)
(* the lock's connection dies before the delete is done.                   *)
THEOREM PurgesTakeUnclaimedBytes == Spec => BytesGoUnclaimed
<1> DEFINE A == \A h \in cas \ cas' :
                  refused'[h] = refused[h] /\ (\A w \in Workers : worker[w].pc = "unlocked" => worker[w].hash # h)
                  => \A e \in edges : e[2] # h
<1>1. ReclaimInv /\ [Next]_vars => [A]_vars
  <2> SUFFICES ASSUME ReclaimInv, [Next]_vars, NEW h \in cas \ cas', refused'[h] = refused[h], NEW e \in edges,
                      \A w \in Workers : worker[w].pc = "unlocked" => worker[w].hash # h
               PROVE  e[2] # h
    OBVIOUS
  <2>1. Shapes
    BY DEF ReclaimInv
  <2>2. ASSUME h \in Hashes, Rollback(h) PROVE FALSE
    <3>1. refused \in [Hashes -> [at : {"none", "put", "unshared"}, known : SUBSET Artifacts]]
      BY <2>1 DEF Shapes
    <3> QED BY <2>2, <3>1 DEF Rollback, NotRefused
  <2>3. ASSUME NEW w \in Workers, DeleteBlob(w), worker[w].hash = h PROVE e[2] # h
    BY <2>3 DEF ReclaimInv, GrantsFit, Unclaimed, DeleteBlob
  <2> QED BY <2>1, <2>2, <2>3, BytesGo
<1> QED BY <1>1, ReclaimInvariant, PTL DEF Spec, BytesGoUnclaimed

=============================================================================
