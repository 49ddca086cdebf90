------------------------------ MODULE JobQueue ------------------------------
(***************************************************************************)
(* The jobs table and the workers that drain it.  A row is claimed under   *)
(* a lease, executed, and closed out by a write fenced on the attempt the  *)
(* claim charged.  A worker may be killed or stall for longer than lease   *)
(* and grace together; the abandoned-lease sweep then hands its rows on    *)
(* while the stalled execution may still return.  Rows invoked by an       *)
(* administrator are inserted before their audit event is appended and     *)
(* rolled back when the append fails.                                      *)
(***************************************************************************)
EXTENDS Naturals, FiniteSets, SequencesExt

CONSTANTS
    Jobs,        \* row ids; an id is used again only when nothing refers to it
    Workers,
    Priority,    \* [Jobs -> Nat], the column of that name
    Tasks,       \* rows an administrator invokes (audited); the rest are inserted in a transaction
    Requeueable, \* rows of the kinds in REQUEUE_ON_LEASE_EXPIRY_KINDS
    Unmappable,  \* rows whose columns do not project into a JobRow
    Cap,         \* attempt_cap
    BatchSize,
    Permits,     \* max_concurrency of the kind the rows share
    MaxStalls    \* bound: how often workers stall

ASSUME QueueAssumption ==
    /\ Priority \in [Jobs -> Nat]
    /\ Tasks \subseteq Jobs /\ Requeueable \subseteq Jobs /\ Unmappable \subseteq Jobs
    /\ Cap \in Nat \ {0} /\ BatchSize \in Nat \ {0} /\ Permits \in Nat \ {0} /\ MaxStalls \in Nat

VARIABLES
    row,      \* [Jobs -> the row's status, attempts, locked_by and locked_until]
    created,  \* the ids in created_at order
    execs,    \* claimed rows the workers hold in memory
    stalled,  \* workers that do not reach the database for now
    stalls,   \* stalls so far
    invoke    \* [Jobs -> how far TaskUseCase::enqueue is with the row]

vars == <<row, created, execs, stalled, stalls, invoke>>

NoWorker == "none"
Terminal == {"completed", "failed"}

(* locked_until: unset; ahead of the clock (for a running row, of the      *)
(* clock less the grace); or behind it.                                    *)
Leases == {"unset", "ahead", "past"}
Rows == [status : {"absent", "pending", "running"} \cup Terminal,
         attempts : 0..Cap, by : Workers \cup {NoWorker}, lease : Leases]
Executions == [job : Jobs, attempt : 1..Cap, worker : Workers,
               phase : {"queued", "running"}, lost : BOOLEAN]
Invocations == {"settled", "appending", "compensating", "rolledBack"}

Absent == [status |-> "absent", attempts |-> 0, by |-> NoWorker, lease |-> "unset"]
Inserted == [Absent EXCEPT !.status = "pending"]

Init ==
    /\ row = [j \in Jobs |-> Absent]
    /\ created = << >>
    /\ execs = {}
    /\ stalled = {}
    /\ stalls = 0
    /\ invoke = [j \in Jobs |-> "settled"]

Exists(j) == row[j].status # "absent"

-----------------------------------------------------------------------------
(* Inserting.  A fresh row has a fresh id. *)

Fresh(j) == ~Exists(j) /\ invoke[j] \notin {"appending", "compensating"} /\ \A e \in execs : e.job # j

Insert(j, stage) ==
    /\ Fresh(j)
    /\ row' = [row EXCEPT ![j] = Inserted]
    /\ created' = Append(created, j)
    /\ invoke' = [invoke EXCEPT ![j] = stage]
    /\ UNCHANGED <<execs, stalled, stalls>>

(* A scan or verify row lands in the transaction of the transition that    *)
(* asks for it.                                                            *)
EnqueueInTx(j) == j \notin Tasks /\ Insert(j, "settled")

(* TaskUseCase::enqueue: the row is visible to the workers before the      *)
(* audit event is appended.                                                *)
EnqueueTask(j) == j \in Tasks /\ Insert(j, "appending")

AppendTaskInvoked(j) ==
    /\ invoke[j] = "appending"
    /\ \/ invoke' = [invoke EXCEPT ![j] = "settled"]
       \/ invoke' = [invoke EXCEPT ![j] = "compensating"]
    /\ UNCHANGED <<row, created, execs, stalled, stalls>>

(* The compensating delete rolls a pending row back.  A row that is no     *)
(* longer pending, like one the delete fails on, stays and is reported.    *)
DeleteJob(j) ==
    /\ invoke[j] = "compensating"
    /\ \/ /\ row[j].status = "pending"
          /\ row' = [row EXCEPT ![j] = Absent]
          /\ created' = Remove(created, j)
          /\ invoke' = [invoke EXCEPT ![j] = "rolledBack"]
       \/ /\ invoke' = [invoke EXCEPT ![j] = "settled"]
          /\ UNCHANGED <<row, created>>
    /\ UNCHANGED <<execs, stalled, stalls>>

-----------------------------------------------------------------------------
(* Claiming: one slot of the batch for the oldest eligible row whatever    *)
(* its priority, the others by priority and age.                           *)

Eligible(j) == row[j].status = "pending" /\ row[j].lease # "ahead"
Age(j) == CHOOSE i \in DOMAIN created : created[i] = j
Oldest == {j \in Jobs : Eligible(j) /\ \A k \in Jobs : Eligible(k) => Age(j) <= Age(k)}
Before(j, k) == Priority[j] > Priority[k] \/ (Priority[j] = Priority[k] /\ Age(j) < Age(k))
Ranked(free) == {j \in free : Cardinality({k \in free : Before(k, j)}) < BatchSize - 1}

(* Mutant: no slot is reserved for the oldest row. *)
ClaimBatchByPriority ==
    LET free == {j \in Jobs : Eligible(j)}
    IN  {j \in free : Cardinality({k \in free : Before(k, j)}) < BatchSize}

ClaimBatch == Oldest \cup Ranked({j \in Jobs : Eligible(j)} \ Oldest)

Claim(w) ==
    /\ w \notin stalled
    /\ ClaimBatch # {}
    /\ row' = [j \in Jobs |-> IF j \in ClaimBatch
                              THEN [status |-> "running", attempts |-> row[j].attempts + 1,
                                    by |-> w, lease |-> "ahead"]
                              ELSE row[j]]
    /\ execs' = execs \cup {[job |-> j, attempt |-> row[j].attempts + 1, worker |-> w,
                             phase |-> "queued", lost |-> FALSE] : j \in ClaimBatch}
    /\ UNCHANGED <<created, stalled, stalls, invoke>>

-----------------------------------------------------------------------------
(* Result writes.  The fence lets an execution write only while the row    *)
(* still carries the attempt it was claimed under.  The lock columns of a  *)
(* terminal row are read by nobody, and cleared here.                      *)

Fenced(e) == Exists(e.job) /\ row[e.job].attempts = e.attempt

Completed(r) == [r EXCEPT !.status = "completed", !.by = NoWorker, !.lease = "unset"]
Rescheduled(r) == [r EXCEPT !.status = "pending", !.by = NoWorker, !.lease = "ahead"]
Failed(r) == [r EXCEPT !.status = "failed", !.by = NoWorker, !.lease = "unset"]

(* Mutant: the cap is off by one. *)
RecordedPastCap(e, outcome) ==
    CASE outcome = "completed" -> Completed(row[e.job])
      [] outcome = "retry" /\ e.attempt <= Cap -> Rescheduled(row[e.job])
      [] OTHER -> Failed(row[e.job])

(* A failure that asks for a retry is granted one below the cap. *)
Recorded(e, outcome) ==
    CASE outcome = "completed" -> Completed(row[e.job])
      [] outcome = "retry" /\ e.attempt < Cap -> Rescheduled(row[e.job])
      [] OTHER -> Failed(row[e.job])

(* Mutant: mark_completed is addressed by the row's id alone. *)
RecordOutcomeById(e, outcome) ==
    row' = IF Fenced(e) \/ (Exists(e.job) /\ outcome = "completed")
           THEN [row EXCEPT ![e.job] = Recorded(e, outcome)] ELSE row

(* The write lands or is refused by the fence.                             *)
RecordOutcome(e, outcome) ==
    row' = IF Fenced(e) THEN [row EXCEPT ![e.job] = Recorded(e, outcome)] ELSE row

ResolveUnmappable(e) ==
    /\ e.job \in Unmappable /\ e.worker \notin stalled
    /\ RecordOutcome(e, "terminal") \/ UNCHANGED row
    /\ execs' = execs \ {e}
    /\ UNCHANGED <<created, stalled, stalls, invoke>>

Permitted(e) ==
    /\ e.phase = "queued" /\ e.job \notin Unmappable /\ e.worker \notin stalled
    /\ Cardinality({x \in execs : x.worker = e.worker /\ x.phase = "running"}) < Permits

(* The requester's authority is checked again before the handler runs.     *)
RefuseUnauthorized(e) ==
    /\ Permitted(e) /\ e.job \in Tasks
    /\ \/ \E outcome \in {"retry", "terminal"} : RecordOutcome(e, outcome)
       \/ UNCHANGED row
    /\ execs' = execs \ {e}
    /\ UNCHANGED <<created, stalled, stalls, invoke>>

StartHandler(e) ==
    /\ Permitted(e)
    /\ execs' = (execs \ {e}) \cup {[e EXCEPT !.phase = "running"]}
    /\ UNCHANGED <<row, created, stalled, stalls, invoke>>

(* The handler returns.  An execution that learnt it lost the row discards *)
(* its outcome.                                                            *)
DispatchOne(e) ==
    /\ e.phase = "running" /\ e.worker \notin stalled
    /\ \/ ~e.lost /\ \E outcome \in {"completed", "retry", "terminal"} : RecordOutcome(e, outcome)
       \/ UNCHANGED row
    /\ execs' = execs \ {e}
    /\ UNCHANGED <<created, stalled, stalls, invoke>>

-----------------------------------------------------------------------------
(* Leases. *)

Renewing(e) == e.phase = "running" /\ ~e.lost /\ e.worker \notin stalled
HoldsRow(e) == row[e.job].by = e.worker /\ row[e.job].status = "running"

(* A live worker renews three times a lease, from the call of the handler  *)
(* to its return: only then does a held lease stay ahead of the clock.     *)
LeasePasses(j) ==
    /\ row[j].status \in {"pending", "running"} /\ row[j].lease = "ahead"
    /\ ~ \E e \in execs : e.job = j /\ Renewing(e) /\ HoldsRow(e)
    /\ row' = [row EXCEPT ![j].lease = "past"]
    /\ UNCHANGED <<created, execs, stalled, stalls, invoke>>

RenewLease(e) ==
    /\ Renewing(e)
    /\ IF HoldsRow(e)
       THEN row[e.job].lease = "past" /\ row' = [row EXCEPT ![e.job].lease = "ahead"] /\ UNCHANGED execs
       ELSE execs' = (execs \ {e}) \cup {[e EXCEPT !.lost = TRUE]} /\ UNCHANGED row
    /\ UNCHANGED <<created, stalled, stalls, invoke>>

(* Mutant: the sweep's cap is one below the dispatcher's. *)
RequeueAbandonedOwnCap(j) ==
    /\ stalled # Workers
    /\ j \in Requeueable /\ row[j].status = "running" /\ row[j].lease = "past"
    /\ row' = [row EXCEPT ![j] = IF @.attempts >= Cap - 1 THEN Failed(@) ELSE Rescheduled(@)]
    /\ UNCHANGED <<created, execs, stalled, stalls, invoke>>

(* The abandoned-lease sweep, for one of the rows it finds.                *)
RequeueAbandoned(j) ==
    /\ stalled # Workers
    /\ j \in Requeueable /\ row[j].status = "running" /\ row[j].lease = "past"
    /\ row' = [row EXCEPT ![j] = IF @.attempts >= Cap THEN Failed(@) ELSE Rescheduled(@)]
    /\ UNCHANGED <<created, execs, stalled, stalls, invoke>>

(* The retention sweeps delete terminal rows past their horizon.           *)
DeleteTerminalRow(j) ==
    /\ row[j].status \in Terminal
    /\ row' = [row EXCEPT ![j] = Absent]
    /\ created' = Remove(created, j)
    /\ UNCHANGED <<execs, stalled, stalls, invoke>>

-----------------------------------------------------------------------------
(* Faults. *)

(* A worker is killed, or stops on request, and comes back with no memory. *)
Crash(w) ==
    /\ \E e \in execs : e.worker = w
    /\ execs' = {e \in execs : e.worker # w}
    /\ stalled' = stalled \ {w}
    /\ UNCHANGED <<row, created, stalls, invoke>>

Stall(w) ==
    /\ w \notin stalled /\ stalls < MaxStalls
    /\ stalled' = stalled \cup {w}
    /\ stalls' = stalls + 1
    /\ UNCHANGED <<row, created, execs, invoke>>

Resume(w) ==
    /\ w \in stalled
    /\ stalled' = stalled \ {w}
    /\ UNCHANGED <<row, created, execs, stalls, invoke>>

Next ==
    \/ \E j \in Jobs :
         \/ EnqueueInTx(j) \/ EnqueueTask(j) \/ AppendTaskInvoked(j) \/ DeleteJob(j)
         \/ LeasePasses(j) \/ RequeueAbandoned(j) \/ DeleteTerminalRow(j)
    \/ \E w \in Workers : Claim(w) \/ Crash(w) \/ Stall(w) \/ Resume(w)
    \/ \E e \in execs :
         ResolveUnmappable(e) \/ RefuseUnauthorized(e) \/ StartHandler(e) \/ DispatchOne(e) \/ RenewLease(e)

Spec == Init /\ [][Next]_vars

(* The poll loop claims and sweeps on its interval, the clock moves,       *)
(* handlers return and stalls end.                                         *)
Return(w, j, n) == \E e \in execs : e.worker = w /\ e.job = j /\ e.attempt = n /\ DispatchOne(e)

Fairness ==
    /\ \A w \in Workers : WF_vars(Claim(w)) /\ WF_vars(Resume(w))
    /\ \A j \in Jobs : WF_vars(LeasePasses(j)) /\ WF_vars(RequeueAbandoned(j))
    /\ \A w \in Workers, j \in Jobs, n \in 1..Cap : WF_vars(Return(w, j, n))

FairSpec == Spec /\ Fairness

-----------------------------------------------------------------------------
(* Properties. *)

(* The type invariant: rows never exceed the cap in attempts, executions   *)
(* carry the attempt the claim charged, and created_at orders exactly the  *)
(* rows there are.                                                         *)
TypeOK ==
    /\ row \in [Jobs -> Rows]
    /\ created \in Seq(Jobs) /\ ToSet(created) = {j \in Jobs : Exists(j)}
    /\ execs \subseteq Executions
    /\ stalled \subseteq Workers /\ stalls \in 0..MaxStalls
    /\ invoke \in [Jobs -> Invocations]

(* The retry budget is one number for both ways of spending it: neither    *)
(* the failures a handler returns nor the rows the abandoned-lease sweep   *)
(* takes back put a row that has spent its attempts up for another claim,  *)
(* and no two executions in flight share an attempt, so no row is executed *)
(* more than Cap times.                                                    *)
BudgetHolds ==
    /\ \A j \in Jobs : row[j].status = "pending" => row[j].attempts < Cap
    /\ \A d, e \in execs : d.job = e.job /\ d.attempt = e.attempt => d = e
    /\ \A e \in execs : Exists(e.job) => e.attempt <= row[e.job].attempts

(* A claimed row is closed out only by the execution that holds its        *)
(* current attempt, or by the sweep once its lease has run out: the late   *)
(* result of a superseded execution never overwrites the one in flight.    *)
ClosedByItsExecution ==
    [][\A j \in Jobs :
         row[j].status = "running" /\ row'[j].status # "running" =>
            \/ row[j].lease = "past" /\ execs' = execs
            \/ \E e \in execs \ execs' : e.job = j /\ e.attempt = row[j].attempts]_vars

(* A terminal row is never up for a claim again: completed is final and    *)
(* failed gives way only to the honest late result of its last execution.  *)
(* The status-scoped uniqueness of scan rows rests on it: a second row for *)
(* the artifact may exist by then.                                         *)
TerminalStays ==
    [][\A j \in Jobs :
         /\ row[j].status \in Terminal => row'[j].status \in Terminal \cup {"absent"}
         /\ row[j].status = "completed" => row'[j].status # "failed"]_vars

(* Every row of a kind the sweep may hand on reaches an end, whatever its  *)
(* priority and however often workers die: no stream of more urgent rows   *)
(* starves it, no crash strands it, and its retries run out.               *)
EveryJobEnds == \A j \in Requeueable : []<>(row[j].status \in Terminal \cup {"absent"})

=============================================================================
