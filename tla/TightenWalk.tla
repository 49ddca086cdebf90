----------------------------- MODULE TightenWalk -----------------------------
(***************************************************************************)
(* The tighten direction of PolicyUseCase::run_policy_re_evaluation_pass:  *)
(* an OFFSET walk, in id order, over the active population of a policy, a  *)
(* set that shrinks while it is walked because the pass itself re-holds    *)
(* what now fails.  How one artifact is judged and committed is            *)
(* ArtifactLifecycle's subject; the question here is which artifacts the   *)
(* pages ever show.                                                        *)
(***************************************************************************)
EXTENDS Naturals, FiniteSets

CONSTANTS Ids,        \* artifact ids; the order of the walk
          PerPage,    \* PER_PAGE
          Changes,    \* which artifacts of the population others may move
          MaxMoves    \* how often they do, and how often I/O fails

ASSUME IdsAssumption == Ids \subseteq Nat /\ IsFiniteSet(Ids)
ASSUME PerPageAssumption == PerPage \in Nat \ {0}
ASSUME WalkChangesAssumption == Changes \subseteq {"join", "leave"}
ASSUME MaxMovesAssumption == MaxMoves \in Nat

VARIABLES active,    \* quarantined or released artifacts in the policy's scope
          failing,   \* artifacts whose stored findings fail the new policy
          pc,
          offset,
          page,      \* rows of the current page still to be judged
          fetched,   \* how many rows the page had
          reHeld,    \* how many of them the pass re-held
          seen,      \* history: artifacts the pass has judged
          steady,    \* history: artifacts active since the pass began
          departed,  \* history: how often others took an artifact out
          moves

walkVars == <<active, failing, pc, offset, page, fetched, reHeld, seen, steady, departed, moves>>
walk == <<pc, offset, page, fetched, reHeld>>

WalkInit ==
    /\ active \in SUBSET Ids
    /\ failing \in SUBSET Ids
    /\ pc = "list" /\ offset = 0 /\ page = {} /\ fetched = 0 /\ reHeld = 0
    /\ seen = {} /\ steady = active /\ departed = 0
    /\ moves = 0

-----------------------------------------------------------------------------
(* Other use cases: an artifact is ingested, waived or re-quarantined into *)
(* the population, or rejected or deleted out of it.                       *)
Join(a) ==
    /\ "join" \in Changes /\ moves < MaxMoves
    /\ a \notin active
    /\ active' = active \cup {a}
    /\ moves' = moves + 1
    /\ UNCHANGED <<failing, walk, seen, steady, departed>>

Leave(a) ==
    /\ "leave" \in Changes /\ moves < MaxMoves
    /\ a \in active
    /\ active' = active \ {a}
    /\ steady' = steady \ {a}
    /\ departed' = departed + 1
    /\ moves' = moves + 1
    /\ UNCHANGED <<failing, walk, seen>>

-----------------------------------------------------------------------------
(* list_active_for_policy: ORDER BY id OFFSET offset LIMIT PerPage. *)
Position(a) == Cardinality({b \in active : b <= a})
PageAt(from) == {a \in active : from < Position(a) /\ Position(a) <= from + PerPage}

ListPage ==
    /\ pc = "list"
    /\ page' = PageAt(offset)
    /\ fetched' = Cardinality(page')
    /\ reHeld' = 0
    /\ pc' = IF page' = {} THEN "done" ELSE "judge"
    /\ UNCHANGED <<active, failing, offset, seen, steady, departed, moves>>

(* A failed page read ends the walk early. *)
ListFails ==
    /\ pc = "list" /\ moves < MaxMoves
    /\ pc' = "aborted"
    /\ moves' = moves + 1
    /\ UNCHANGED <<active, failing, offset, page, fetched, reHeld, seen, steady, departed>>

NextRow(a) == a \in page /\ \A b \in page : a <= b
Judged(a) == page' = page \ {a} /\ seen' = seen \cup {a}

(* The verdict rejects and the commit lands; a row that left the           *)
(* population after its page was read is re-rejected on its stale page.    *)
ReHold(a) ==
    /\ pc = "judge" /\ NextRow(a) /\ a \in failing
    /\ active' = active \ {a}
    /\ reHeld' = reHeld + 1
    /\ Judged(a)
    /\ UNCHANGED <<failing, pc, offset, fetched, steady, departed, moves>>

(* The verdict still passes. *)
KeepActive(a) ==
    /\ pc = "judge" /\ NextRow(a) /\ a \notin failing
    /\ Judged(a)
    /\ UNCHANGED <<active, failing, pc, offset, fetched, reHeld, steady, departed, moves>>

(* The verdict rejects and the commit does not land: the best-effort skip. *)
(* A row that has just left conflicts; an I/O error may meet any row.      *)
Skip(a) ==
    /\ pc = "judge" /\ NextRow(a) /\ a \in failing
    /\ a \in active => moves < MaxMoves
    /\ moves' = IF a \in active THEN moves + 1 ELSE moves
    /\ Judged(a)
    /\ UNCHANGED <<active, failing, pc, offset, fetched, reHeld, steady, departed>>

(* Mutant: the cursor advances by the whole page. *)
AdvanceWholePage == fetched

(* Mutant: the first page is read again, as if every row had left. *)
AdvanceNothing == 0

(* The cursor advances by the rows that stayed. *)
Advance == fetched - reHeld

NextPage ==
    /\ pc = "judge" /\ page = {}
    /\ IF fetched < PerPage THEN pc' = "done" /\ UNCHANGED offset
       ELSE pc' = "list" /\ offset' = offset + Advance
    /\ UNCHANGED <<active, failing, page, fetched, reHeld, seen, steady, departed, moves>>

-----------------------------------------------------------------------------
Pass ==
    \/ ListPage \/ ListFails \/ NextPage
    \/ \E a \in Ids : ReHold(a) \/ KeepActive(a) \/ Skip(a)

(* The pass has ended. *)
Ended == pc \in {"done", "aborted"} /\ UNCHANGED walkVars

WalkNext == Pass \/ Ended \/ \E a \in Ids : Join(a) \/ Leave(a)

WalkSpec == WalkInit /\ [][WalkNext]_walkVars

(* The re-evaluation job keeps running until its pass ends. *)
FairWalkSpec == WalkSpec /\ WF_walkVars(Pass)

-----------------------------------------------------------------------------
(* The pass is paginated, not capped, so that no now-failing artifact      *)
(* keeps serving unseen.  What departures can cost it all the same: a      *)
(* completed pass misses at most one artifact for each artifact that other *)
(* use cases took out of the population while it ran.                      *)
MissesBounded == pc = "done" => Cardinality(steady \ seen) <= departed

(* The walk over a set that shrinks under its own cursor ends. *)
WalkEnds == <>(pc \in {"done", "aborted"})

=============================================================================
