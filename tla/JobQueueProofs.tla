--------------------------- MODULE JobQueueProofs ---------------------------
(***************************************************************************)
(* The fence of the job queue, for every number of rows and workers, every *)
(* cap, batch size and number of permits.                                  *)
(*                                                                         *)
(* BudgetHolds is not inductive: that a claim charges an attempt nobody    *)
(* holds, and that a late result cannot put a closed row up again, need to *)
(* know which executions a terminal row may still have.  LateOnlyAtCap     *)
(* says it: only the abandoned-lease sweep closes a row under its          *)
(* execution, it does so at the cap, and at the cap no retry is granted.   *)
(***************************************************************************)
EXTENDS JobQueue, TLAPS

RowsOK == row \in [Jobs -> Rows]
ExecsOK == execs \subseteq Executions

LateOnlyAtCap ==
    \A e \in execs :
        row[e.job].status \in Terminal /\ row[e.job].attempts = e.attempt =>
            row[e.job].status = "failed" /\ e.attempt = Cap

QueueInv == RowsOK /\ ExecsOK /\ BudgetHolds /\ LateOnlyAtCap

-----------------------------------------------------------------------------
(* A result write gives a row of the table. *)
LEMMA RecordedType ==
    ASSUME NEW e, NEW outcome, row[e.job] \in Rows
    PROVE  /\ Recorded(e, outcome) \in Rows
           /\ Recorded(e, outcome).attempts = row[e.job].attempts
           /\ Recorded(e, outcome).status \in {"pending", "completed", "failed"}
           /\ Recorded(e, outcome).status = "pending" => e.attempt < Cap
BY DEF Recorded, Completed, Rescheduled, Failed, Rows, Terminal, Leases

(* A claim takes pending rows only. *)
LEMMA ClaimsPending ==
    ASSUME NEW j \in ClaimBatch
    PROVE  j \in Jobs /\ row[j].status = "pending"
BY DEF ClaimBatch, Oldest, Ranked, Eligible

(* The queue starts empty. *)
LEMMA QueueInit == Init => QueueInv
BY QueueAssumption DEF Init, QueueInv, RowsOK, ExecsOK, BudgetHolds, LateOnlyAtCap, Rows, Absent,
   Leases, Terminal, Exists

(* The write of an execution that ends, landed, refused or lost. *)
LEMMA EndingPreserves ==
    ASSUME QueueInv, NEW e \in execs, NEW outcome, execs' = execs \ {e},
           RecordOutcome(e, outcome) \/ UNCHANGED row
    PROVE  QueueInv'
<1>1. CASE UNCHANGED row
  BY <1>1 DEF QueueInv, RowsOK, ExecsOK, BudgetHolds, LateOnlyAtCap, Exists
<1>2. CASE row' = row
  BY <1>2, <1>1
<1>3. CASE Fenced(e) /\ row' = [row EXCEPT ![e.job] = Recorded(e, outcome)]
  <2>1. e.job \in Jobs /\ row[e.job] \in Rows /\ e.attempt = row[e.job].attempts
    BY <1>3 DEF QueueInv, RowsOK, ExecsOK, Executions, Fenced
  <2>2. /\ Recorded(e, outcome) \in Rows
        /\ Recorded(e, outcome).attempts = row[e.job].attempts
        /\ Recorded(e, outcome).status \in {"pending", "completed", "failed"}
        /\ Recorded(e, outcome).status = "pending" => e.attempt < Cap
    BY <2>1, RecordedType
  <2>3. /\ row'[e.job] = Recorded(e, outcome)
        /\ \A j \in Jobs \ {e.job} : row'[j] = row[j]
    BY <1>3, <2>1 DEF QueueInv, RowsOK
  <2>4. RowsOK'
    BY <1>3, <2>1, <2>2 DEF QueueInv, RowsOK
  <2>5. ExecsOK'
    BY DEF QueueInv, ExecsOK
  <2>6. \A d \in execs' : d \in execs /\ d.job \in Jobs /\ (d.job = e.job => d.attempt # e.attempt)
    BY DEF QueueInv, ExecsOK, Executions, BudgetHolds
  <2>7. BudgetHolds'
    <3>1. \A j \in Jobs : row'[j].status = "pending" => row'[j].attempts < Cap
      BY <2>1, <2>2, <2>3 DEF QueueInv, BudgetHolds
    <3>2. \A d \in execs' : Exists(d.job)' => d.attempt <= row'[d.job].attempts
      BY <1>3, <2>1, <2>2, <2>3, <2>6 DEF QueueInv, BudgetHolds, Exists, Fenced
    <3>3. \A c, d \in execs' : c.job = d.job /\ c.attempt = d.attempt => c = d
      BY DEF QueueInv, BudgetHolds
    <3> QED BY <3>1, <3>2, <3>3 DEF BudgetHolds
  <2>8. LateOnlyAtCap'
    BY <2>1, <2>2, <2>3, <2>6 DEF QueueInv, LateOnlyAtCap
  <2> QED BY <2>4, <2>5, <2>7, <2>8 DEF QueueInv
<1> QED BY <1>1, <1>2, <1>3 DEF RecordOutcome

(* An execution that changes its phase, or learns that it lost its row. *)
LEMMA ReplacingPreserves ==
    ASSUME QueueInv, NEW e \in execs, NEW f \in Executions, f.job = e.job, f.attempt = e.attempt,
           execs' = (execs \ {e}) \cup {f}, UNCHANGED row
    PROVE  QueueInv'
<1>1. RowsOK' /\ ExecsOK'
  BY DEF QueueInv, RowsOK, ExecsOK
<1>2. \A d \in execs' : \E c \in execs : c.job = d.job /\ c.attempt = d.attempt
  OBVIOUS
<1>3. \A c, d \in execs' : c.job = d.job /\ c.attempt = d.attempt => c = d
  BY DEF QueueInv, BudgetHolds
<1>4. BudgetHolds'
  BY <1>2, <1>3 DEF QueueInv, BudgetHolds, Exists
<1>5. LateOnlyAtCap'
  BY <1>2 DEF QueueInv, LateOnlyAtCap
<1> QED BY <1>1, <1>4, <1>5 DEF QueueInv

(* A row that stays in its status and keeps its attempts, whatever happens *)
(* to its lease. *)
LEMMA LeasePreserves ==
    ASSUME QueueInv, NEW j \in Jobs, NEW lease \in Leases,
           row' = [row EXCEPT ![j].lease = lease], UNCHANGED execs
    PROVE  QueueInv'
<1>1. RowsOK'
  BY DEF QueueInv, RowsOK, Rows
<1>2. \A k \in Jobs : row'[k].status = row[k].status /\ row'[k].attempts = row[k].attempts
  BY DEF QueueInv, RowsOK, Rows
<1>3. \A e \in execs : e.job \in Jobs
  BY DEF QueueInv, ExecsOK, Executions
<1>4. BudgetHolds'
  BY <1>2, <1>3 DEF QueueInv, BudgetHolds, Exists
<1>5. LateOnlyAtCap'
  BY <1>2, <1>3 DEF QueueInv, LateOnlyAtCap
<1> QED BY <1>1, <1>4, <1>5 DEF QueueInv, ExecsOK

(* A row that is inserted, rolled back or deleted. *)
LEMMA ReplacedRowPreserves ==
    ASSUME QueueInv, NEW j \in Jobs, NEW r \in {Absent, Inserted},
           r = Inserted => \A e \in execs : e.job # j,
           row' = [row EXCEPT ![j] = r], UNCHANGED execs
    PROVE  QueueInv'
<1>1. /\ r \in Rows /\ r.attempts = 0
      /\ r.status \in {"absent", "pending"} /\ (r.status = "pending" => r = Inserted)
  BY QueueAssumption DEF Absent, Inserted, Rows, Leases, Terminal
<1>2. RowsOK'
  BY <1>1 DEF QueueInv, RowsOK
<1>3. /\ row'[j] = r
      /\ \A k \in Jobs \ {j} : row'[k] = row[k]
      /\ \A e \in execs : e.job \in Jobs
  BY DEF QueueInv, RowsOK, ExecsOK, Executions
<1>4. BudgetHolds'
  <2>1. \A k \in Jobs : row'[k].status = "pending" => row'[k].attempts < Cap
    BY <1>1, <1>3, QueueAssumption DEF QueueInv, BudgetHolds
  <2>2. \A e \in execs : row'[e.job].status # "absent" => e.attempt <= row'[e.job].attempts
    BY <1>1, <1>3 DEF QueueInv, BudgetHolds, Exists
  <2> QED BY <2>1, <2>2 DEF QueueInv, BudgetHolds, Exists
<1>5. LateOnlyAtCap'
  BY <1>1, <1>3 DEF QueueInv, LateOnlyAtCap, Terminal
<1> QED BY <1>2, <1>4, <1>5 DEF QueueInv, ExecsOK

(* The claim charges an attempt no execution of the row holds. *)
LEMMA ClaimPreserves ==
    ASSUME QueueInv, NEW w \in Workers, Claim(w)
    PROVE  QueueInv'
<1> DEFINE Claimed(j) == [job |-> j, attempt |-> row[j].attempts + 1, worker |-> w,
                          phase |-> "queued", lost |-> FALSE]
<1>1. /\ row' = [j \in Jobs |-> IF j \in ClaimBatch
                                THEN [status |-> "running", attempts |-> row[j].attempts + 1,
                                      by |-> w, lease |-> "ahead"]
                                ELSE row[j]]
      /\ execs' = execs \cup {Claimed(j) : j \in ClaimBatch}
  BY DEF Claim
<1>2. \A j \in ClaimBatch :
        j \in Jobs /\ row[j] \in Rows /\ row[j].status = "pending" /\ row[j].attempts < Cap
  BY ClaimsPending DEF QueueInv, RowsOK, BudgetHolds
<1>3. \A j \in ClaimBatch : row[j].attempts + 1 \in 1..Cap
  BY <1>2, QueueAssumption DEF Rows
<1>4. \A e \in execs : e \in Executions /\ e.job \in Jobs /\ e.attempt \in Int
  BY QueueAssumption DEF QueueInv, ExecsOK, Executions
<1>5. \A j \in Jobs : row[j].attempts \in Int
  BY QueueAssumption DEF QueueInv, RowsOK, Rows
<1>6. \A j \in ClaimBatch : \A e \in execs : e.job = j => e.attempt <= row[j].attempts
  BY <1>2 DEF QueueInv, BudgetHolds, Exists
<1>7. RowsOK'
  BY <1>1, <1>2, <1>3 DEF QueueInv, RowsOK, Rows, Leases
<1>8. \A j \in ClaimBatch : /\ Claimed(j) \in Executions
                            /\ Claimed(j).job = j /\ Claimed(j).attempt = row[j].attempts + 1
  BY <1>2, <1>3 DEF Executions
<1>9. /\ \A j \in ClaimBatch : row'[j].status = "running" /\ row'[j].attempts = row[j].attempts + 1
      /\ \A j \in Jobs \ ClaimBatch : row'[j] = row[j]
  BY <1>1, <1>2
<1>10. \A e \in execs' \ execs : \E j \in ClaimBatch : e = Claimed(j)
  BY <1>1
<1> HIDE DEF Claimed
<1>11. ExecsOK'
  BY <1>4, <1>8, <1>10 DEF ExecsOK
<1>12. \A j \in ClaimBatch : \A e \in execs : e.job = j => e.attempt # row[j].attempts + 1
  BY <1>2, <1>4, <1>5, <1>6
<1>13. BudgetHolds'
  <2>1. ASSUME NEW j \in Jobs, row'[j].status = "pending"
        PROVE  row'[j].attempts < Cap
    <3>1. row'[j] = row[j]
      BY <1>9, <2>1
    <3> QED BY <2>1, <3>1 DEF QueueInv, BudgetHolds
  <2>2. ASSUME NEW c \in execs', NEW d \in execs', c.job = d.job, c.attempt = d.attempt
        PROVE  c = d
    <3>1. CASE c \in execs /\ d \in execs
      BY <2>2, <3>1 DEF QueueInv, BudgetHolds
    <3>2. CASE c \notin execs
      <4>1. PICK j \in ClaimBatch : c = Claimed(j)
        BY <1>10, <3>2
      <4>2. d \notin execs
        BY <1>8, <1>12, <2>2, <4>1
      <4>3. PICK k \in ClaimBatch : d = Claimed(k)
        BY <1>10, <4>2
      <4> QED BY <1>8, <2>2, <4>1, <4>3
    <3>3. CASE c \in execs /\ d \notin execs
      <4>1. PICK j \in ClaimBatch : d = Claimed(j)
        BY <1>10, <3>3
      <4> QED BY <1>8, <1>12, <2>2, <3>3, <4>1
    <3> QED BY <3>1, <3>2, <3>3
  <2>3. ASSUME NEW e \in execs', row'[e.job].status # "absent"
        PROVE  e.attempt <= row'[e.job].attempts
    <3>1. CASE e \in execs /\ e.job \in ClaimBatch
      <4>1. e.attempt <= row[e.job].attempts
        BY <1>6, <3>1
      <4>2. row'[e.job].attempts = row[e.job].attempts + 1
        BY <1>4, <1>9, <3>1
      <4>3. e.attempt \in Int /\ row[e.job].attempts \in Int
        BY <1>4, <1>5, <3>1
      <4> QED BY <4>1, <4>2, <4>3
    <3>2. CASE e \in execs /\ e.job \notin ClaimBatch
      <4>1. row'[e.job] = row[e.job]
        BY <1>4, <1>9, <3>2
      <4> QED BY <2>3, <3>2, <4>1 DEF QueueInv, BudgetHolds, Exists
    <3>3. CASE e \notin execs
      <4>1. PICK j \in ClaimBatch : e = Claimed(j)
        BY <1>10, <3>3
      <4>2. /\ e.job = j /\ e.attempt = row[j].attempts + 1
            /\ row'[j].attempts = row[j].attempts + 1 /\ row[j].attempts \in Int
        BY <1>2, <1>5, <1>8, <1>9, <4>1
      <4> QED BY <4>2
    <3> QED BY <3>1, <3>2, <3>3
  <2> QED BY <2>1, <2>2, <2>3 DEF BudgetHolds, Exists
<1>14. LateOnlyAtCap'
  <2> SUFFICES ASSUME NEW e \in execs', row'[e.job].status \in Terminal,
                      row'[e.job].attempts = e.attempt
               PROVE  row'[e.job].status = "failed" /\ e.attempt = Cap
    BY DEF LateOnlyAtCap
  <2>1. e.job \in Jobs
    BY <1>11 DEF ExecsOK, Executions
  <2>2. e.job \notin ClaimBatch
    BY <1>9, <2>1 DEF Terminal
  <2>3. e \in execs
    BY <1>8, <1>10, <2>2
  <2>4. row'[e.job] = row[e.job]
    BY <1>9, <2>1, <2>2
  <2> QED BY <2>3, <2>4 DEF QueueInv, LateOnlyAtCap
<1> QED BY <1>7, <1>11, <1>13, <1>14 DEF QueueInv

(* The sweep fails a row only when its attempts are spent. *)
LEMMA RequeuePreserves ==
    ASSUME QueueInv, NEW j \in Jobs, RequeueAbandoned(j)
    PROVE  QueueInv'
<1>1. PICK r : /\ row' = [row EXCEPT ![j] = r]
               /\ \/ row[j].attempts >= Cap /\ r = Failed(row[j])
                  \/ ~(row[j].attempts >= Cap) /\ r = Rescheduled(row[j])
  BY DEF RequeueAbandoned
<1>2. UNCHANGED execs /\ row[j] \in Rows /\ row[j].status = "running"
  BY DEF RequeueAbandoned, QueueInv, RowsOK
<1>3. row[j].attempts \in Int /\ row[j].attempts <= Cap /\ Cap \in Int
  BY <1>2, QueueAssumption DEF Rows
<1>4. /\ r \in Rows /\ r.attempts = row[j].attempts
      /\ r.status = "pending" => r.attempts < Cap
      /\ r.status \in Terminal => r.status = "failed" /\ r.attempts = Cap
      /\ r.status # "absent"
  <2>1. CASE row[j].attempts >= Cap /\ r = Failed(row[j])
    <3>1. r \in Rows /\ r.attempts = row[j].attempts /\ r.status = "failed"
      BY <1>2, <2>1 DEF Failed, Rows, Terminal, Leases
    <3> QED BY <1>3, <2>1, <3>1
  <2>2. CASE ~(row[j].attempts >= Cap) /\ r = Rescheduled(row[j])
    <3>1. r \in Rows /\ r.attempts = row[j].attempts /\ r.status = "pending"
      BY <1>2, <2>2 DEF Rescheduled, Rows, Terminal, Leases
    <3> QED BY <1>3, <2>2, <3>1 DEF Terminal
  <2> QED BY <1>1, <2>1, <2>2
<1>5. /\ row'[j] = r
      /\ \A k \in Jobs \ {j} : row'[k] = row[k]
      /\ \A e \in execs : e.job \in Jobs
  BY <1>1 DEF QueueInv, RowsOK, ExecsOK, Executions
<1>6. RowsOK'
  BY <1>1, <1>4 DEF QueueInv, RowsOK
<1>7. BudgetHolds'
  <2>1. \A k \in Jobs : row'[k].status = "pending" => row'[k].attempts < Cap
    BY <1>4, <1>5 DEF QueueInv, BudgetHolds
  <2>2. \A e \in execs : row'[e.job].status # "absent" => e.attempt <= row'[e.job].attempts
    BY <1>2, <1>4, <1>5 DEF QueueInv, BudgetHolds, Exists
  <2> QED BY <1>2, <2>1, <2>2 DEF QueueInv, BudgetHolds, Exists
<1>8. LateOnlyAtCap'
  BY <1>2, <1>4, <1>5 DEF QueueInv, LateOnlyAtCap
<1> QED BY <1>2, <1>6, <1>7, <1>8 DEF QueueInv, ExecsOK

(* No step of the queue breaks the invariant. *)
LEMMA QueueStep == QueueInv /\ [Next]_vars => QueueInv'
<1> SUFFICES ASSUME QueueInv, [Next]_vars PROVE QueueInv'
  OBVIOUS
<1>1. ASSUME UNCHANGED <<row, execs>> PROVE QueueInv'
  BY <1>1 DEF QueueInv, RowsOK, ExecsOK, BudgetHolds, LateOnlyAtCap, Exists
<1>2. ASSUME NEW j \in Jobs, NEW stage, Insert(j, stage) PROVE QueueInv'
  BY <1>2, ReplacedRowPreserves DEF Insert, Fresh
<1>3. ASSUME NEW j \in Jobs, EnqueueInTx(j) \/ EnqueueTask(j) PROVE QueueInv'
  BY <1>2, <1>3 DEF EnqueueInTx, EnqueueTask
<1>4. ASSUME NEW j \in Jobs, AppendTaskInvoked(j) PROVE QueueInv'
  BY <1>1, <1>4 DEF AppendTaskInvoked
<1>5. Absent # Inserted
  BY DEF Absent, Inserted
<1>6. ASSUME NEW j \in Jobs, DeleteJob(j) PROVE QueueInv'
  BY <1>1, <1>5, <1>6, ReplacedRowPreserves DEF DeleteJob
<1>7. ASSUME NEW j \in Jobs, LeasePasses(j) PROVE QueueInv'
  BY <1>7, LeasePreserves DEF LeasePasses, Leases
<1>8. ASSUME NEW j \in Jobs, DeleteTerminalRow(j) PROVE QueueInv'
  BY <1>5, <1>8, ReplacedRowPreserves DEF DeleteTerminalRow
<1>9. ASSUME NEW w \in Workers, Crash(w) PROVE QueueInv'
  BY <1>9 DEF Crash, QueueInv, RowsOK, ExecsOK, BudgetHolds, LateOnlyAtCap, Exists
<1>10. ASSUME NEW w \in Workers, Stall(w) \/ Resume(w) PROVE QueueInv'
  BY <1>1, <1>10 DEF Stall, Resume
<1>11. ASSUME NEW e \in execs, ResolveUnmappable(e) \/ RefuseUnauthorized(e) \/ DispatchOne(e)
       PROVE  QueueInv'
  BY <1>11, EndingPreserves DEF ResolveUnmappable, RefuseUnauthorized, DispatchOne
<1>12. ASSUME NEW e \in execs, StartHandler(e) PROVE QueueInv'
  <2>1. /\ [e EXCEPT !.phase = "running"] \in Executions
        /\ [e EXCEPT !.phase = "running"].job = e.job
        /\ [e EXCEPT !.phase = "running"].attempt = e.attempt
    BY DEF QueueInv, ExecsOK, Executions
  <2> QED BY <1>12, <2>1, ReplacingPreserves DEF StartHandler
<1>13. ASSUME NEW e \in execs, RenewLease(e) PROVE QueueInv'
  <2>1. /\ [e EXCEPT !.lost = TRUE] \in Executions
        /\ [e EXCEPT !.lost = TRUE].job = e.job
        /\ [e EXCEPT !.lost = TRUE].attempt = e.attempt
        /\ e.job \in Jobs
    BY DEF QueueInv, ExecsOK, Executions
  <2>2. CASE HoldsRow(e)
    BY <1>13, <2>1, <2>2, LeasePreserves DEF RenewLease, Leases
  <2>3. CASE ~HoldsRow(e)
    BY <1>13, <2>1, <2>3, ReplacingPreserves DEF RenewLease
  <2> QED BY <2>2, <2>3
<1>14. CASE UNCHANGED vars
  BY <1>1, <1>14 DEF vars
<1> QED BY <1>3, <1>4, <1>6, <1>7, <1>8, <1>9, <1>10, <1>11, <1>12, <1>13, <1>14,
           ClaimPreserves, RequeuePreserves DEF Next

(* The retry budget holds for every queue: no row that spent its attempts  *)
(* is up for a claim, and no two executions in flight share an attempt.    *)
THEOREM BudgetProved == Spec => []BudgetHolds
<1>1. QueueInv => BudgetHolds
  BY DEF QueueInv
<1> QED BY <1>1, QueueInit, QueueStep, PTL DEF Spec

-----------------------------------------------------------------------------
(* What a step may do to a row: the statuses. *)

(* A result write that lands on a running or terminal row. *)
LEMMA EndingCloses ==
    ASSUME QueueInv, NEW e \in execs, NEW outcome, execs' = execs \ {e},
           RecordOutcome(e, outcome) \/ UNCHANGED row, NEW j \in Jobs, row'[j] # row[j]
    PROVE  /\ e.job = j /\ e.attempt = row[j].attempts /\ e \in execs \ execs'
           /\ row[j].status \in Terminal => row[j].status = "failed" /\ row'[j].status \in Terminal
<1>1. Fenced(e) /\ row' = [row EXCEPT ![e.job] = Recorded(e, outcome)]
  BY DEF RecordOutcome
<1>2. e.job = j /\ row[j] \in Rows /\ row'[j] = Recorded(e, outcome)
  BY <1>1 DEF QueueInv, RowsOK
<1>3. e.attempt = row[j].attempts
  BY <1>1, <1>2 DEF Fenced
<1>4. /\ Recorded(e, outcome).status \in {"pending", "completed", "failed"}
      /\ Recorded(e, outcome).status = "pending" => e.attempt < Cap
  BY <1>2, RecordedType
<1>5. ASSUME row[j].status \in Terminal
      PROVE  row[j].status = "failed" /\ row'[j].status \in Terminal
  <2>1. row[j].status = "failed" /\ e.attempt = Cap
    BY <1>2, <1>3, <1>5 DEF QueueInv, LateOnlyAtCap
  <2>2. Recorded(e, outcome).status # "pending"
    BY <1>4, <2>1, QueueAssumption
  <2> QED BY <1>2, <1>4, <2>1, <2>2 DEF Terminal
<1> QED BY <1>2, <1>3, <1>5

(* The only steps that close a claimed row, and all that happens to a row  *)
(* that is closed.                                                         *)
LEMMA ClosingStep ==
    ASSUME QueueInv, [Next]_vars, NEW j \in Jobs
    PROVE  /\ row[j].status = "running" /\ row'[j].status # "running" =>
                \/ row[j].lease = "past" /\ execs' = execs
                \/ \E e \in execs \ execs' : e.job = j /\ e.attempt = row[j].attempts
           /\ row[j].status \in Terminal => row'[j].status \in Terminal \cup {"absent"}
           /\ row[j].status = "completed" => row'[j].status # "failed"
<1> DEFINE Closed == row[j].status = "running" /\ row'[j].status # "running" =>
                        \/ row[j].lease = "past" /\ execs' = execs
                        \/ \E e \in execs \ execs' : e.job = j /\ e.attempt = row[j].attempts
           Stays == /\ row[j].status \in Terminal => row'[j].status \in Terminal \cup {"absent"}
                    /\ row[j].status = "completed" => row'[j].status # "failed"
<1> SUFFICES Closed /\ Stays
  OBVIOUS
<1>1. row[j] \in Rows
  BY DEF QueueInv, RowsOK
<1>2. ASSUME row'[j].status = row[j].status PROVE Closed /\ Stays
  BY <1>2
<1>3. ASSUME NEW k \in Jobs, NEW r, row[k].status # "running", row[k].status \notin Terminal,
             row' = [row EXCEPT ![k] = r]
      PROVE  Closed /\ Stays
  BY <1>3 DEF QueueInv, RowsOK, Terminal
<1>4. ASSUME NEW k \in Jobs, EnqueueInTx(k) \/ EnqueueTask(k) PROVE Closed /\ Stays
  BY <1>3, <1>4 DEF EnqueueInTx, EnqueueTask, Insert, Fresh, Exists, Terminal
<1>5. ASSUME NEW k \in Jobs, AppendTaskInvoked(k) PROVE Closed /\ Stays
  BY <1>2, <1>5 DEF AppendTaskInvoked
<1>6. ASSUME NEW k \in Jobs, DeleteJob(k) PROVE Closed /\ Stays
  BY <1>2, <1>3, <1>6 DEF DeleteJob, Terminal
<1>7. ASSUME NEW k \in Jobs, LeasePasses(k) PROVE Closed /\ Stays
  <2>1. row'[j].status = row[j].status
    BY <1>1, <1>7 DEF LeasePasses, QueueInv, RowsOK, Rows
  <2> QED BY <1>2, <2>1
<1>8. ASSUME NEW k \in Jobs, RequeueAbandoned(k) PROVE Closed /\ Stays
  <2>1. CASE k # j
    BY <1>2, <1>8, <2>1 DEF RequeueAbandoned, QueueInv, RowsOK
  <2>2. CASE k = j
    BY <1>8, <2>2 DEF RequeueAbandoned, Terminal
  <2> QED BY <2>1, <2>2
<1>9. ASSUME NEW k \in Jobs, DeleteTerminalRow(k) PROVE Closed /\ Stays
  <2>1. CASE k # j
    BY <1>2, <1>9, <2>1 DEF DeleteTerminalRow, QueueInv, RowsOK
  <2>2. CASE k = j
    BY <1>9, <2>2 DEF DeleteTerminalRow, Terminal, QueueInv, RowsOK, Absent
  <2> QED BY <2>1, <2>2
<1>10. ASSUME NEW w \in Workers, Claim(w) PROVE Closed /\ Stays
  <2>1. CASE j \in ClaimBatch
    BY <2>1, ClaimsPending DEF Terminal
  <2>2. CASE j \notin ClaimBatch
    BY <1>2, <1>10, <2>2 DEF Claim
  <2> QED BY <2>1, <2>2
<1>11. ASSUME NEW w \in Workers, Crash(w) \/ Stall(w) \/ Resume(w) PROVE Closed /\ Stays
  BY <1>2, <1>11 DEF Crash, Stall, Resume
<1>12. ASSUME NEW e \in execs, ResolveUnmappable(e) \/ RefuseUnauthorized(e) \/ DispatchOne(e)
       PROVE  Closed /\ Stays
  <2>1. /\ execs' = execs \ {e}
        /\ \E outcome : RecordOutcome(e, outcome) \/ UNCHANGED row
    BY <1>12 DEF ResolveUnmappable, RefuseUnauthorized, DispatchOne
  <2>2. CASE row'[j] = row[j]
    BY <1>2, <2>2
  <2>3. CASE row'[j] # row[j]
    <3>1. /\ e.job = j /\ e.attempt = row[j].attempts /\ e \in execs \ execs'
          /\ row[j].status \in Terminal => row[j].status = "failed" /\ row'[j].status \in Terminal
      BY <2>1, <2>3, EndingCloses
    <3> QED BY <3>1 DEF Terminal
  <2> QED BY <2>2, <2>3
<1>13. ASSUME NEW e \in execs, StartHandler(e) PROVE Closed /\ Stays
  BY <1>2, <1>13 DEF StartHandler
<1>14. ASSUME NEW e \in execs, RenewLease(e) PROVE Closed /\ Stays
  <2>1. row'[j].status = row[j].status
    BY <1>1, <1>14 DEF RenewLease, QueueInv, RowsOK, Rows
  <2> QED BY <1>2, <2>1
<1>15. CASE UNCHANGED vars
  BY <1>2, <1>15 DEF vars
<1> HIDE DEF Closed, Stays
<1> QED BY <1>4, <1>5, <1>6, <1>7, <1>8, <1>9, <1>10, <1>11, <1>12, <1>13, <1>14, <1>15 DEF Next

(* A claimed row is closed out only by the execution that holds its        *)
(* current attempt, or by the sweep once its lease has run out.            *)
THEOREM FenceProved == Spec => ClosedByItsExecution
<1>1. QueueInv /\ [Next]_vars =>
        [\A j \in Jobs :
            row[j].status = "running" /\ row'[j].status # "running" =>
               \/ row[j].lease = "past" /\ execs' = execs
               \/ \E e \in execs \ execs' : e.job = j /\ e.attempt = row[j].attempts]_vars
  BY ClosingStep
<1> QED BY <1>1, QueueInit, QueueStep, PTL DEF Spec, ClosedByItsExecution

(* A closed row is never up for a claim again, and completed is final: a   *)
(* late result lands only on a row the sweep failed at the cap.            *)
THEOREM TerminalProved == Spec => TerminalStays
<1>1. QueueInv /\ [Next]_vars =>
        [\A j \in Jobs :
            /\ row[j].status \in Terminal => row'[j].status \in Terminal \cup {"absent"}
            /\ row[j].status = "completed" => row'[j].status # "failed"]_vars
  BY ClosingStep
<1> QED BY <1>1, QueueInit, QueueStep, PTL DEF Spec, TerminalStays

=============================================================================
