--------------------------- MODULE SweepRotation ---------------------------
(***************************************************************************)
(* ReleaseSweep with a history variable: how many batches have left out a  *)
(* candidate that was waiting when their tick began, since it was last     *)
(* attempted.                                                              *)
(***************************************************************************)
EXTENDS ReleaseSweep

CONSTANT Watched  \* the candidates whose waits are counted
ASSUME WatchedAssumption == Watched \subseteq Artifacts

VARIABLE missed

Attempted(w, a) == tick[w].left # << >> /\ Head(tick[w].left) = a /\ tick'[w].left = Tail(tick[w].left)

(* The tick of w began when a was waiting already, and selects without it. *)
LeavesOut(w, a) ==
    /\ tick[w].selecting /\ a \notin tick[w].moved
    /\ tick'[w].running /\ ~tick'[w].selecting
    /\ \A i \in DOMAIN tick'[w].batch : tick'[w].batch[i] # a

(* What overlap makes of a rotation of ceil(N / BATCH_SIZE) ticks, and the *)
(* bound of the count: one past anything the faults can excuse.  Every     *)
(* sweeper may leave the candidate out once per batch of the others; of s  *)
(* sweepers that were overtaken, each stamps its batch with an older       *)
(* instant and so brings it back before the candidate, for all the ticks   *)
(* that have ended before it: s * (s - 1) / 2 further batches.  And when   *)
(* the candidate is attempted, every other sweeper may have a query out    *)
(* that has yet to leave it out: s - 1 more.                               *)
Rotation ==
    LET s == Cardinality(Sweepers) IN
    s * ((Cardinality(Artifacts) - 1) \div BatchSize) + (s * (s - 1)) \div 2 + (s - 1)
MaxMissed == Rotation + MaxFaults + 1

(* A wait ends when the candidate is attempted or stops being one. *)
CountMissed ==
    missed' = [a \in Watched |->
        IF hold'[a] # "Due" \/ \E w \in Sweepers : tick'[w].running /\ Attempted(w, a) THEN 0
        ELSE IF \E w \in Sweepers : LeavesOut(w, a) /\ missed[a] < MaxMissed THEN missed[a] + 1
        ELSE missed[a]]

RotationInit == Init /\ missed = [a \in Watched |-> 0]
RotationNext == Next /\ CountMissed
RotationSpec == RotationInit /\ [][RotationNext]_<<vars, missed>>
FairRotationSpec == RotationSpec /\ Fairness

(* The rotation bound the sweep's documentation gives: a backlog of N is   *)
(* fully re-attempted every ceil(N / BATCH_SIZE) ticks, so a waiting       *)
(* candidate is left out of fewer batches than that.  Sweepers that        *)
(* overlap select the same batches, one that was overtaken stamps its      *)
(* batch with an older instant, and one whose query is late leaves out a   *)
(* candidate that was attempted in between; a tick that failed stamps      *)
(* nothing.                                                                *)
RotationBound == \A a \in Watched : missed[a] <= Rotation + faults

=============================================================================
