---------------------------- MODULE ReleaseSweep ----------------------------
(***************************************************************************)
(* The periodic quarantine-release sweep over many artifacts: candidacy by *)
(* the attempt cursor (PgQuarantineReleaseCandidatesRepository), the       *)
(* handler's tick (QuarantineReleaseSweepHandler::run) and the loop of     *)
(* QuarantineUseCase::release_expired.  What one candidate's release means *)
(* on its stream is ArtifactLifecycle's subject; here a candidate is held  *)
(* by its gates or not, and the question is which candidates a bounded     *)
(* batch ever reaches.                                                     *)
(***************************************************************************)
EXTENDS Naturals, Sequences, FiniteSets

CONSTANTS Artifacts,
          WindowStart,  \* quarantine_window_start of each artifact
          Unproven,     \* artifacts whose provenance leg starts out denied
          Sweepers,     \* workers that may run a tick
          BatchSize,    \* BATCH_SIZE
          MaxFaults     \* ticks that end early: a conflict, an I/O error, a crash

ASSUME FiniteAssumption == IsFiniteSet(Artifacts) /\ IsFiniteSet(Sweepers) /\ Sweepers # {}
ASSUME WindowStartAssumption == WindowStart \in [Artifacts -> Nat]
ASSUME UnprovenAssumption == Unproven \subseteq Artifacts
ASSUME BatchSizeAssumption == BatchSize \in Nat \ {0}
ASSUME MaxFaultsAssumption == MaxFaults \in Nat

VARIABLES hold,        \* where each artifact's hold stands
          scanOk,      \* artifacts with a scan-axis release authority
          provenance,  \* the provenance leg of each artifact's gate
          verifying,   \* artifacts with a provenance-verify job in flight
          attempt,     \* release_attempt_at, 0 for NULL
          tick,        \* each sweeper's running tick
          faults

vars == <<hold, scanOk, provenance, verifying, attempt, tick, faults>>
gates == <<scanOk, provenance>>

(* Open: quarantined, its computed deadline ahead; Due: quarantined, the   *)
(* deadline elapsed; Over: released or rejected.                           *)
Holds == {"Open", "Due", "Over"}

(* ParentGated: pending, and a blob bound by a parent manifest, which no   *)
(* verification of its own can clear.                                      *)
Provenances == {"Clear", "Pending", "ParentGated"}

(* A tick: the instant the handler captured when it started, whether its   *)
(* select_expired is still out, and the holds that have moved since; then  *)
(* the whole batch and the ids still to be attempted.                      *)
NoTick == [running |-> FALSE, selecting |-> FALSE, at |-> 0, moved |-> {},
           batch |-> << >>, left |-> << >>]

Init ==
    /\ hold = [a \in Artifacts |-> "Open"]
    /\ scanOk = {}
    /\ provenance \in [Artifacts -> Provenances]
    /\ \A a \in Artifacts : a \in Unproven <=> provenance[a] # "Clear"
    /\ verifying = {}
    /\ attempt = [a \in Artifacts |-> 0]
    /\ tick = [w \in Sweepers |-> NoTick]
    /\ faults = 0

-----------------------------------------------------------------------------
(* The surroundings.  A deadline elapses, or an operator's longer duration *)
(* moves it ahead; another use case rejects the artifact, or puts it back  *)
(* into its hold; a scan gives or takes the release authority.  A query    *)
(* that is out may not know of a move.                                     *)
MoveHold(a) ==
    /\ \E h \in Holds \ {hold[a]} : hold' = [hold EXCEPT ![a] = h]
    /\ tick' = [w \in Sweepers |-> IF tick[w].selecting THEN [tick[w] EXCEPT !.moved = @ \cup {a}]
                                   ELSE tick[w]]
    /\ UNCHANGED <<gates, verifying, attempt, faults>>

Scan(a) ==
    /\ scanOk' = IF a \in scanOk THEN scanOk \ {a} ELSE scanOk \cup {a}
    /\ UNCHANGED <<hold, provenance, verifying, attempt, tick, faults>>

(* A parent's cascade clears its blob; a parent that goes away leaves it   *)
(* pending on its own.                                                     *)
ParentSettles(a) ==
    /\ provenance[a] = "ParentGated"
    /\ \E p \in {"Clear", "Pending"} : provenance' = [provenance EXCEPT ![a] = p]
    /\ UNCHANGED <<hold, scanOk, verifying, attempt, tick, faults>>

(* A provenance-verify job ends: it clears the artifact or holds it again. *)
VerifyRuns(a) ==
    /\ a \in verifying
    /\ verifying' = verifying \ {a}
    /\ \/ provenance' = [provenance EXCEPT ![a] = "Clear"]
       \/ UNCHANGED provenance
    /\ UNCHANGED <<hold, scanOk, attempt, tick, faults>>

-----------------------------------------------------------------------------
(* Stamps are only ever compared, so the instants in use are renumbered    *)
(* densely: 0 stays NULL and the order is kept.                            *)
Instants(att, tk) ==
    ({att[a] : a \in Artifacts} \cup {tk[w].at : w \in Sweepers}) \ {0}
Renumbered(i, instants) == Cardinality({j \in instants : j <= i})

SetCursor(att, tk) ==
    LET instants == Instants(att, tk) IN
    /\ attempt' = [a \in Artifacts |-> Renumbered(att[a], instants)]
    /\ tick' = [w \in Sweepers |-> [tk[w] EXCEPT !.at = Renumbered(@, instants)]]

Now == 1 + Cardinality(Instants(attempt, tick))

(* Mutant: candidacy is ordered by the window alone. *)
ServedBeforeByWindow(a, b) == WindowStart[a] < WindowStart[b]

(* Mutant: never-attempted rows come last. *)
ServedBeforeNullsLast(a, b) ==
    LET last == Cardinality(Artifacts) + Cardinality(Sweepers) + 1
        key(x) == IF attempt[x] = 0 THEN last ELSE attempt[x]
    IN  key(a) < key(b) \/ (key(a) = key(b) /\ WindowStart[a] < WindowStart[b])

(* ORDER BY release_attempt_at ASC NULLS FIRST, quarantine_window_start. *)
ServedBefore(a, b) ==
    \/ attempt[a] < attempt[b]
    \/ attempt[a] = attempt[b] /\ WindowStart[a] < WindowStart[b]

(* The tick captures its instant; the query is still to come. *)
StartTick(w) ==
    /\ ~tick[w].running
    /\ UNCHANGED <<hold, gates, verifying, faults>>
    /\ SetCursor(attempt, [tick EXCEPT ![w] =
          [running |-> TRUE, selecting |-> TRUE, at |-> Now, moved |-> {}, batch |-> << >>, left |-> << >>]])

(* The expired holds as select_expired may find them: its cutoffs come     *)
(* from the tick's instant and from durations read before the scan, so a   *)
(* hold that has moved since may be taken either way while the row is      *)
(* still quarantined.                                                      *)
Candidates == {a \in Artifacts : hold[a] = "Due"}
Found(w) ==
    {c \in SUBSET {a \in Artifacts : hold[a] # "Over"} :
        \A a \in Artifacts \ tick[w].moved : a \in c <=> a \in Candidates}

(* The one ordered scan over what it finds, and its one LIMIT. *)
Batches(found) ==
    {s \in [1..(IF BatchSize < Cardinality(found) THEN BatchSize ELSE Cardinality(found)) -> found] :
        \A i \in DOMAIN s :
            LET unserved == found \ {s[j] : j \in 1..(i - 1)} IN
            s[i] \in unserved /\ \A b \in unserved : ~ServedBefore(b, s[i])}

(* The query answers, in the order of the stamps as they are now; an empty *)
(* selection ends the tick.                                                *)
SelectExpired(w) ==
    /\ tick[w].selecting
    /\ UNCHANGED <<hold, gates, verifying, faults>>
    /\ \E found \in Found(w) : \E s \in Batches(found) :
          SetCursor(attempt, [tick EXCEPT ![w] =
              IF s = << >> THEN NoTick
              ELSE [@ EXCEPT !.selecting = FALSE, !.moved = {}, !.batch = s, !.left = s]])

(* select_expired fails, or the worker dies under it. *)
SelectFails(w) ==
    /\ tick[w].selecting
    /\ faults < MaxFaults
    /\ faults' = faults + 1
    /\ UNCHANGED <<hold, gates, verifying>>
    /\ SetCursor(attempt, [tick EXCEPT ![w] = NoTick])

(* Mutant: the authority guard comes before the provenance backstop. *)
BackstopWithoutAuthority(a) == provenance[a] = "Pending" /\ a \in scanOk

(* The expiry backstop: a pending candidate gets a final verification,     *)
(* whatever the scan axis says; a parent-gated blob does not.              *)
Backstop(a) == provenance[a] = "Pending"

Releases(a) == hold[a] # "Over" /\ a \in scanOk /\ provenance[a] = "Clear"

(* One candidate of release_expired.  The enqueue is best-effort and is    *)
(* skipped while a verification is in flight; a refused candidate, or one  *)
(* whose stream cannot be read, is passed over.                            *)
Attempt(w) ==
    /\ tick[w].left # << >>
    /\ LET a == Head(tick[w].left) IN
       /\ hold' = IF Releases(a) THEN [hold EXCEPT ![a] = "Over"] ELSE hold
       /\ verifying' = IF Backstop(a) THEN verifying \cup {a} ELSE verifying
    /\ tick' = [tick EXCEPT ![w].left = Tail(@)]
    /\ UNCHANGED <<gates, attempt, faults>>

(* release_expired returns an error (a conflicting commit, a failed read), *)
(* or the worker dies: the tick ends and its batch is not stamped.         *)
Abort(w) ==
    /\ tick[w].left # << >>
    /\ faults < MaxFaults
    /\ faults' = faults + 1
    /\ UNCHANGED <<hold, gates, verifying>>
    /\ SetCursor(attempt, [tick EXCEPT ![w] = NoTick])

(* mark_attempted stamps the whole batch, or fails and is shrugged off. *)
MarkAttempted(w) ==
    /\ tick[w].running /\ ~tick[w].selecting /\ tick[w].left = << >>
    /\ UNCHANGED <<hold, gates, verifying, faults>>
    /\ SetCursor([a \in Artifacts |-> IF \E i \in DOMAIN tick[w].batch : tick[w].batch[i] = a THEN tick[w].at
                                      ELSE attempt[a]],
                 [tick EXCEPT ![w] = NoTick])

MarkFails(w) ==
    /\ tick[w].running /\ ~tick[w].selecting /\ tick[w].left = << >>
    /\ faults < MaxFaults
    /\ faults' = faults + 1
    /\ UNCHANGED <<hold, gates, verifying>>
    /\ SetCursor(attempt, [tick EXCEPT ![w] = NoTick])

-----------------------------------------------------------------------------
Sweep(w) ==
    \/ StartTick(w) \/ SelectExpired(w) \/ SelectFails(w)
    \/ Attempt(w) \/ Abort(w) \/ MarkAttempted(w) \/ MarkFails(w)

Next ==
    \/ \E a \in Artifacts : MoveHold(a) \/ Scan(a) \/ ParentSettles(a) \/ VerifyRuns(a)
    \/ \E w \in Sweepers : Sweep(w)

Spec == Init /\ [][Next]_vars

(* The CronJob keeps enqueueing ticks and a running tick goes on. *)
Fairness == \A w \in Sweepers : WF_vars(Sweep(w))

(* The shapes of the sweep's state; a tick still has a suffix of its batch *)
(* to do.                                                                  *)
TypeOK ==
    /\ hold \in [Artifacts -> Holds]
    /\ scanOk \subseteq Artifacts
    /\ provenance \in [Artifacts -> Provenances]
    /\ verifying \subseteq Artifacts
    /\ attempt \in [Artifacts -> Nat]
    /\ tick \in [Sweepers -> [running : BOOLEAN, selecting : BOOLEAN, at : Nat,
                              moved : SUBSET Artifacts, batch : Seq(Artifacts), left : Seq(Artifacts)]]
    /\ faults \in 0..MaxFaults

-----------------------------------------------------------------------------
(* No starvation: an expired hold that its gates would let go does not     *)
(* wait for ever behind candidates that are never released, although a     *)
(* batch is smaller than the backlog, ticks overlap and some of them fail. *)
ReleasableServed == \A a \in Artifacts : []<>~(a \in Candidates /\ Releases(a))

(* The expiry backstop reaches every expired candidate whose provenance is *)
(* pending, also one without scan authority.                               *)
BackstopServed ==
    \A a \in Artifacts :
        []<>~(a \in Candidates /\ provenance[a] = "Pending" /\ a \notin verifying)

=============================================================================
