-------------------------- MODULE PullDedupProofs --------------------------
(***************************************************************************)
(* The two layers of the pull de-duplication, for any number of calls and  *)
(* replicas and whatever faults.                                           *)
(*                                                                         *)
(* The three invariants the runs check need each other.  That a follower   *)
(* of a window is told rests on its channel belonging to a call that was   *)
(* there when it joined; that a disproved answer stays away rests on the   *)
(* order of the leader's last steps: whoever holds an answer, as a record, *)
(* as something heard or as a result, got it from a leader that is Through *)
(* and will not write it again.                                            *)
(***************************************************************************)
EXTENDS PullDedup, TLAPS

(* Past the terminal put; and before the send, or gone without one. *)
Past == {"sending", "evicting"} \cup Ended
Unsent == {"fetching", "persisting", "sending", "dropped"}

Through(a) == a \in Calls /\ call[a].phase \in Past

(* What x, the progress of call c, may hold. *)
Fits(c, x) ==
    /\ x \in Progress
    /\ x.phase \in {"joining", "joined"} => x.chan \in Calls /\ x.chan # c /\ x.chan \notin x.barred
    /\ x.heard # Silence =>
          /\ x.phase = "joined"
          /\ x.heard = Failure \/ (x.heard = Answer(x.chan) /\ Through(x.chan))
    /\ x.phase \in {"persisting", "sending", "evicting"} => x.result \in {Answer(c), Failure}
    /\ x.phase = "returned" =>
          /\ x.result \in Outcomes
          /\ x.result.kind = "ok" => x.result.of \notin x.barred /\ Through(x.result.of)
    /\ x.barred \subseteq disproved /\ c \notin x.barred
    /\ x.phase = "joined" /\ x.heard = Silence /\ ~x.late => call[x.chan].phase \in Unsent

AllFit == \A c \in Calls : Fits(c, call[c])
RecordFits == record.kind = "ok" => record.of \notin disproved /\ Through(record.of)
DisprovedFit == \A a \in disproved : Through(a)

DedupInv == TypeOK /\ EntryHasLeader /\ AllFit /\ RecordFits /\ DisprovedFit

-----------------------------------------------------------------------------
(* What a record is, by its kind. *)
LEMMA RecordKinds ==
    ASSUME NEW r \in Records
    PROVE  /\ r.kind \in {"absent", "inFlight", "ok", "failed"}
           /\ r.kind = "absent" => r = Absent
           /\ r.kind = "ok" => r.of \in Calls /\ [kind |-> r.kind, of |-> r.of] = Answer(r.of)
           /\ r.kind = "failed" => [kind |-> r.kind, of |-> r.of] = Failure
BY DEF Records, Absent, InFlight, Terminal, Outcomes, Answer, Failure

(* What an outcome is, and that none is silence. *)
LEMMA OutcomeKinds ==
    /\ Failure \in Outcomes /\ Failure.kind = "failed" /\ Failure # Silence
    /\ \A c \in Calls : /\ Answer(c) \in Outcomes /\ Answer(c).kind = "ok" /\ Answer(c).of = c
                        /\ Answer(c) # Silence /\ Answer(c) # Failure
    /\ \A o \in Outcomes : o = Failure \/ \E c \in Calls : o = Answer(c)
BY DEF Failure, Answer, Silence, Outcomes

(* The records the calls write. *)
LEMMA WrittenRecords ==
    /\ Absent \in Records /\ Absent.kind = "absent"
    /\ \A c \in Calls : InFlight(c) \in Records /\ InFlight(c).kind = "inFlight"
    /\ \A o \in Outcomes : Terminal(o) \in Records /\ Terminal(o).kind = o.kind /\ Terminal(o).of = o.of
BY DEF Records, Absent, InFlight, Terminal, Outcomes

(* A call that begins from nothing, or ends, holds nothing. *)
LEMMA NotBegunFits ==
    ASSUME NEW c \in Calls, NEW b \in SUBSET Calls, b \subseteq disproved, c \notin b,
           NEW phase \in {"idle", "dropped"}
    PROVE  Fits(c, [NotBegun EXCEPT !.phase = phase, !.barred = b])
BY OutcomeKinds DEF Fits, NotBegun, Progress, Phases, Guarded, Ended

(* The invariant holds before anybody calls. *)
LEMMA DedupInit == Init => DedupInv
<1> SUFFICES ASSUME Init PROVE DedupInv
  OBVIOUS
<1>1. TypeOK
  BY DedupAssumption DEF Init, TypeOK, Records, NotBegun, Progress, Phases
<1>2. EntryHasLeader
  BY DedupAssumption DEF Init, EntryHasLeader
<1>3. AllFit
  BY DedupAssumption DEF Init, AllFit, Fits, NotBegun, Progress, Phases
<1> QED BY <1>1, <1>2, <1>3 DEF Init, DedupInv, RecordFits, DisprovedFit, Absent

-----------------------------------------------------------------------------
(* Call c moves on to y, and nobody it matters to is left behind: a call   *)
(* that is through stays through, a leader that has yet to send has yet to *)
(* send or is gone, an entry of a call that stops leading goes.            *)
Moves(c, y) ==
    /\ call' = [call EXCEPT ![c] = y]
    /\ Fits(c, y)
    /\ call[c].phase \in Past => y.phase \in Past
    /\ call[c].phase \in Unsent => y.phase \in Unsent
    /\ \/ UNCHANGED layerA /\ (call[c].phase \in Guarded => y.phase \in Guarded)
       \/ layerA' = [layerA EXCEPT ![At[c]] = Nobody]
       \/ layerA' = [layerA EXCEPT ![At[c]] = c] /\ y.phase \in Guarded
    /\ beating' \subseteq beating \cup {c} /\ (c \in beating' => y.phase = "fetching")
    /\ faults' \in 0..MaxFaults

(* What is written on the way: nothing that was disproved, and no answer   *)
(* but of a call that is through.                                          *)
Writes(c, y) ==
    /\ record' \in Records
    /\ record'.kind = "ok" =>
          record'.of \notin disproved' /\ (Through(record'.of) \/ (record'.of = c /\ y.phase \in Past))
    /\ disproved \subseteq disproved' /\ \A a \in disproved' : Through(a)

(* One call moves. *)
LEMMA MovePreserves ==
    ASSUME DedupInv, NEW c \in Calls, NEW y, Moves(c, y), Writes(c, y)
    PROVE  DedupInv'
<1>0. call' = [call EXCEPT ![c] = y] /\ Fits(c, y) /\ faults' \in 0..MaxFaults
  BY DEF Moves
<1>1. /\ call \in [Calls -> Progress] /\ y \in Progress
      /\ layerA \in [Replicas -> Calls \cup {Nobody}] /\ At[c] \in Replicas
      /\ At \in [Calls -> Replicas]
  BY <1>0, DedupAssumption DEF DedupInv, TypeOK, Fits
<1>2. /\ call' \in [Calls -> Progress] /\ call'[c] = y
      /\ \A f \in Calls \ {c} : call'[f] = call[f]
  BY <1>0, <1>1
<1>3. \A a : Through(a) => Through(a)'
  BY <1>2 DEF Through, Moves
<1>4. \A f \in Calls : call[f].phase \in Unsent => call'[f].phase \in Unsent
  BY <1>2 DEF Moves
<1>5. TypeOK'
  <2>1. layerA' \in [Replicas -> Calls \cup {Nobody}]
    BY <1>1 DEF Moves
  <2>2. beating' \subseteq {b \in Calls : call'[b].phase = "fetching"}
    BY <1>2 DEF DedupInv, TypeOK, In, Moves
  <2>3. disproved' \subseteq Calls
    BY DEF Through, Writes
  <2> QED BY <1>0, <1>2, <2>1, <2>2, <2>3 DEF TypeOK, In, Writes
<1>6. EntryHasLeader'
  <2> SUFFICES ASSUME NEW r \in Replicas, layerA'[r] # Nobody
               PROVE  At[layerA'[r]] = r /\ call'[layerA'[r]].phase \in Guarded
    BY DEF EntryHasLeader
  <2>1. layerA[r] # Nobody =>
          layerA[r] \in Calls /\ At[layerA[r]] = r /\ call[layerA[r]].phase \in Guarded
    BY <1>1 DEF DedupInv, EntryHasLeader
  <2>2. CASE UNCHANGED layerA /\ (call[c].phase \in Guarded => y.phase \in Guarded)
    BY <1>2, <2>1, <2>2
  <2>3. CASE layerA' = [layerA EXCEPT ![At[c]] = Nobody]
    BY <1>1, <1>2, <2>1, <2>3
  <2>4. CASE layerA' = [layerA EXCEPT ![At[c]] = c] /\ y.phase \in Guarded
    BY <1>1, <1>2, <2>1, <2>4
  <2> QED BY <2>2, <2>3, <2>4 DEF Moves
<1>7. AllFit'
  <2> SUFFICES ASSUME NEW f \in Calls PROVE Fits(f, call[f])'
    BY DEF AllFit
  <2>1. PICK x : x = call'[f] /\ Fits(f, x)
    <3>1. CASE f = c
      BY <1>0, <1>2, <3>1
    <3>2. CASE f # c
      BY <1>2, <3>2 DEF DedupInv, AllFit
    <3> QED BY <3>1, <3>2
  <2>2. disproved \subseteq disproved'
    BY DEF Writes
  <2> QED BY <1>3, <1>4, <2>1, <2>2 DEF Fits
<1>8. RecordFits'
  BY <1>2, <1>3 DEF RecordFits, Through, Writes
<1>9. DisprovedFit'
  BY <1>3 DEF DisprovedFit, Writes
<1> QED BY <1>5, <1>6, <1>7, <1>8, <1>9 DEF DedupInv

-----------------------------------------------------------------------------
(* What the invariant says around a call. *)
Known(c) ==
    /\ Fits(c, call[c]) /\ call[c] \in Progress /\ call[c].barred \subseteq disproved
    /\ c \in beating => call[c].phase = "fetching"
    /\ layerA[At[c]] # Nobody => layerA[At[c]] \in Calls /\ call[layerA[At[c]]].phase \in Guarded
    /\ layerA[At[c]] \in Calls \cup {Nobody}

LEMMA Facts ==
    ASSUME DedupInv, NEW c \in Calls
    PROVE  /\ Known(c)
           /\ record \in Records /\ RecordFits /\ faults \in 0..MaxFaults
           /\ \A a \in disproved : Through(a)
BY DedupAssumption DEF DedupInv, AllFit, Fits, TypeOK, DisprovedFit, EntryHasLeader, In, Known

(* A fault is one of the faults allowed. *)
LEMMA FaultsBounded ==
    ASSUME DedupInv, Fault \/ UNCHANGED faults
    PROVE  faults' \in 0..MaxFaults
BY DedupAssumption DEF DedupInv, TypeOK, Fault

(* A step that writes no answer and disproves none. *)
LEMMA QuietWrites ==
    ASSUME DedupInv, NEW c \in Calls, NEW y,
           record' = record \/ (record' \in Records /\ record'.kind # "ok"), UNCHANGED disproved
    PROVE  Writes(c, y)
<1>1. record \in Records /\ RecordFits /\ \A a \in disproved : Through(a)
  BY Facts
<1> QED BY <1>1 DEF Writes, RecordFits

(* A call that is neither leading nor through moves among such phases, or  *)
(* on to its end.                                                          *)
LEMMA FollowerMoves ==
    ASSUME DedupInv, NEW c \in Calls, NEW y,
           call' = [call EXCEPT ![c] = y], Fits(c, y),
           call[c].phase \notin Guarded \cup Ended,
           UNCHANGED layerA \/ layerA' = [layerA EXCEPT ![At[c]] = Nobody],
           UNCHANGED <<beating, disproved>>,
           record' = record \/ (record' \in Records /\ record'.kind # "ok"),
           Fault \/ UNCHANGED faults
    PROVE  DedupInv'
<1>1. Writes(c, y)
  BY QuietWrites
<1>2. faults' \in 0..MaxFaults
  BY FaultsBounded
<1>3. c \notin beating'
  <2>1. Known(c)
    BY Facts
  <2> QED BY <2>1 DEF Known, Guarded
<1>4. call[c].phase \notin Past /\ call[c].phase \notin Unsent /\ call[c].phase \notin Guarded
  BY DEF Past, Unsent, Guarded, Ended
<1>5. Moves(c, y)
  BY <1>2, <1>3, <1>4 DEF Moves
<1> QED BY <1>1, <1>5, MovePreserves

(* A call that returns an outcome it may return. *)
LEMMA ReturnFits ==
    ASSUME DedupInv, NEW c \in Calls, NEW o \in Outcomes,
           o.kind = "ok" => o.of \notin call[c].barred /\ Through(o.of)
    PROVE  Fits(c, [NotBegun EXCEPT !.phase = "returned", !.result = o, !.barred = call[c].barred])
<1>1. /\ call[c] \in Progress /\ call[c].barred \subseteq disproved /\ c \notin call[c].barred
  BY DEF DedupInv, AllFit, Fits
<1> QED BY <1>1 DEF Fits, NotBegun, Progress, Phases, Guarded, Ended

LEMMA ReturnPreserves ==
    ASSUME DedupInv, NEW c \in Calls, NEW o \in Outcomes,
           o.kind = "ok" => o.of \notin call[c].barred /\ Through(o.of),
           call[c].phase \notin Guarded \cup Ended, Returns(c, o),
           UNCHANGED <<record, layerA, beating, disproved>>, Fault \/ UNCHANGED faults
    PROVE  DedupInv'
<1> DEFINE y == [NotBegun EXCEPT !.phase = "returned", !.result = o, !.barred = call[c].barred]
<1>1. Fits(c, y)
  BY ReturnFits
<1>3. call' = [call EXCEPT ![c] = y]
  BY DEF Returns
<1> HIDE DEF y
<1> QED
  BY <1>1, <1>3, FollowerMoves

(* What a call may return that reads a terminal record. *)
LEMMA RecordReturns ==
    ASSUME DedupInv, NEW c \in Calls, record.kind \in {"ok", "failed"}
    PROVE  LET o == [kind |-> record.kind, of |-> record.of]
           IN  o \in Outcomes /\ (o.kind = "ok" => o.of \notin call[c].barred /\ Through(o.of))
<1>1. record \in Records /\ RecordFits /\ call[c].barred \subseteq disproved
  BY Facts DEF Known
<1> QED BY <1>1, RecordKinds, OutcomeKinds DEF RecordFits

(* Phases that hold nothing. *)
LEMMA BareFits ==
    ASSUME DedupInv, NEW c \in Calls,
           call[c].phase \in {"reading", "electing", "overwriting", "elected"},
           NEW phase \in {"reading", "electing", "polling", "overwriting", "elected", "fetching"},
           NEW open \in BOOLEAN
    PROVE  Fits(c, [call[c] EXCEPT !.phase = phase, !.open = open])
<1>1. Fits(c, call[c]) /\ call[c] \in Progress
  BY Facts DEF Known
<1> DEFINE y == [call[c] EXCEPT !.phase = phase, !.open = open]
<1>2. y \in Progress /\ y.phase = phase /\ y.heard = call[c].heard /\ y.barred = call[c].barred
  BY <1>1 DEF Progress, Phases, Guarded
<1>3. call[c].heard = Silence
  BY <1>1 DEF Fits
<1> HIDE DEF y
<1>4. Fits(c, y)
  BY <1>1, <1>2, <1>3 DEF Fits
<1> QED BY <1>4 DEF y

LEMMA GoesPreserves ==
    ASSUME DedupInv, NEW c \in Calls,
           NEW phase \in {"reading", "electing", "polling", "overwriting", "elected"},
           NEW open \in BOOLEAN,
           call' = [call EXCEPT ![c] = [call[c] EXCEPT !.phase = phase, !.open = open]],
           call[c].phase \in {"reading", "electing", "overwriting"},
           record' = record \/ (record' \in Records /\ record'.kind # "ok"),
           UNCHANGED <<layerA, beating, disproved>>, Fault \/ UNCHANGED faults
    PROVE  DedupInv'
<1> DEFINE y == [call[c] EXCEPT !.phase = phase, !.open = open]
<1>1. Fits(c, y)
  BY BareFits
<1>2. call[c].phase \notin Guarded \cup Ended
  BY DEF Guarded, Ended
<1>3. call' = [call EXCEPT ![c] = y]
  OBVIOUS
<1> HIDE DEF y
<1> QED BY <1>1, <1>2, <1>3, FollowerMoves

(* Goes changes the phase and keeps how the call leads. *)
LEMMA GoesIs ==
    ASSUME DedupInv, NEW c \in Calls, NEW phase, Goes(c, phase)
    PROVE  /\ call[c].open \in BOOLEAN
           /\ call' = [call EXCEPT ![c] = [call[c] EXCEPT !.phase = phase, !.open = call[c].open]]
<1>1. call[c] \in Progress
  BY Facts DEF Known
<1>2. [call[c] EXCEPT !.phase = phase] = [call[c] EXCEPT !.phase = phase, !.open = call[c].open]
  BY <1>1 DEF Progress
<1> QED BY <1>1, <1>2 DEF Goes, Progress

-----------------------------------------------------------------------------
(* The actions. *)

LEMMA BeginPreserves ==
    ASSUME DedupInv, NEW c \in Calls, Begin(c)
    PROVE  DedupInv'
<1> DEFINE b == {a \in disproved : call[a].phase \in Ended}
           y == [call[c] EXCEPT !.phase = IF layerA[At[c]] = Nobody THEN "reading" ELSE "joining",
                                !.chan = layerA[At[c]], !.barred = b]
<1>0. Known(c) /\ \A a \in disproved : Through(a)
  BY Facts
<1>1. call[c] \in Progress /\ call[c].phase = "idle" /\ call[c].heard = Silence
  BY <1>0 DEF Begin, In, Fits, Known
<1>2. b \in SUBSET Calls /\ b \subseteq disproved /\ c \notin b
  BY <1>0, <1>1 DEF Through, Ended
<1>3. /\ layerA[At[c]] \in Calls \cup {Nobody}
      /\ layerA[At[c]] # Nobody => layerA[At[c]] \in Calls /\ layerA[At[c]] # c /\ layerA[At[c]] \notin b
  BY <1>0, <1>1 DEF Guarded, Ended, Known
<1>4. call' = [call EXCEPT ![c] = y]
  BY DEF Begin
<1>5. y \in Progress /\ y.phase \in {"reading", "joining"} /\ y.heard = Silence /\ y.barred = b
       /\ y.chan = layerA[At[c]] /\ (y.phase = "joining" => layerA[At[c]] # Nobody)
  BY <1>1, <1>2, <1>3 DEF Progress, Phases
<1>7. call[c].phase \notin Guarded \cup Ended
  BY <1>1 DEF Guarded, Ended
<1>8. UNCHANGED <<record, layerA, beating, disproved, faults>>
  BY DEF Begin
<1> HIDE DEF y
<1>6. Fits(c, y)
  BY <1>2, <1>3, <1>5 DEF Fits
<1> QED
  BY <1>4, <1>6, <1>7, <1>8, FollowerMoves

LEMMA SubscribePreserves ==
    ASSUME DedupInv, NEW c \in Calls, Subscribe(c)
    PROVE  DedupInv'
<1> DEFINE d == call[c].chan
           late == call[d].phase \notin {"fetching", "persisting", "sending"}
           j == [call[c] EXCEPT !.phase = "joined", !.late = late]
           n == [call[c] EXCEPT !.phase = "reading", !.chan = Nobody]
<1>0. Known(c)
  BY Facts
<1>1. /\ call[c] \in Progress /\ call[c].phase = "joining" /\ call[c].heard = Silence
      /\ d \in Calls /\ d # c /\ d \notin call[c].barred
      /\ call[c].barred \subseteq disproved /\ c \notin call[c].barred
  BY <1>0 DEF Subscribe, In, Fits, Known
<1>2. call' = [call EXCEPT ![c] = j] \/ call' = [call EXCEPT ![c] = n]
  BY DEF Subscribe
<1>3. Fits(c, j)
  <2>1. /\ j \in Progress /\ j.phase = "joined" /\ j.chan = d /\ j.heard = Silence
        /\ j.late = late /\ j.barred = call[c].barred
    BY <1>1 DEF Progress, Phases
  <2> HIDE DEF j
  <2>2. ~late => call[d].phase \in Unsent
    BY DEF Unsent
  <2> QED BY <1>1, <2>1, <2>2 DEF Fits
<1>4. Fits(c, n)
  <2>1. /\ n \in Progress /\ n.phase = "reading" /\ n.heard = Silence /\ n.barred = call[c].barred
    BY <1>1 DEF Progress, Phases
  <2> HIDE DEF n
  <2> QED BY <1>1, <2>1 DEF Fits
<1>7. call[c].phase \notin Guarded \cup Ended
  BY <1>1 DEF Guarded, Ended
<1>8. UNCHANGED <<record, layerA, beating, disproved, faults>>
  BY DEF Subscribe
<1> HIDE DEF j, n
<1>9. ASSUME NEW y \in {j, n}, call' = [call EXCEPT ![c] = y] PROVE DedupInv'
  <2>1. Fits(c, y)
    BY <1>3, <1>4
  <2> QED BY <1>7, <1>8, <1>9, <2>1, FollowerMoves
<1> QED
  BY <1>2, <1>9

LEMMA ReceivePreserves ==
    ASSUME DedupInv, NEW c \in Calls, Receive(c)
    PROVE  DedupInv'
<1> DEFINE o == call[c].heard
<1>0. Known(c)
  BY Facts
<1>1. /\ call[c].phase = "joined" /\ call[c].chan \in Calls /\ call[c].chan \notin call[c].barred
      /\ o = Failure \/ (o = Answer(call[c].chan) /\ Through(call[c].chan))
  BY <1>0 DEF Receive, In, Fits, Known
<1>2. o \in Outcomes /\ (o.kind = "ok" => o.of \notin call[c].barred /\ Through(o.of))
  BY <1>1, OutcomeKinds
<1>3. call[c].phase \notin Guarded \cup Ended
  BY <1>1 DEF Guarded, Ended
<1>4. Returns(c, o) /\ UNCHANGED <<record, layerA, beating, disproved, faults>>
  BY DEF Receive
<1> HIDE DEF o
<1> QED
  BY <1>2, <1>3, <1>4, ReturnPreserves

LEMMA WaitElapsesPreserves ==
    ASSUME DedupInv, NEW c \in Calls, WaitElapses(c)
    PROVE  DedupInv'
<1> DEFINE y == [call[c] EXCEPT !.phase = "reading", !.chan = Nobody, !.late = FALSE]
<1>0. Known(c)
  BY Facts
<1>1. call[c].phase = "joined" /\ call[c].heard = Silence /\ call' = [call EXCEPT ![c] = y]
  BY DEF WaitElapses, In
<1>2. y \in Progress /\ y.phase = "reading" /\ y.heard = Silence /\ y.barred = call[c].barred
  BY <1>0, <1>1 DEF Known, Progress, Phases
<1>3. /\ layerA' = [layerA EXCEPT ![At[c]] = Nobody] /\ UNCHANGED <<record, beating, disproved, faults>>
      /\ call[c].phase \notin Guarded \cup Ended
  BY <1>1 DEF WaitElapses, Guarded, Ended
<1> HIDE DEF y
<1>4. Fits(c, y)
  BY <1>0, <1>2 DEF Fits, Known
<1> QED
  BY <1>1, <1>3, <1>4, FollowerMoves

LEMMA ReadPreserves ==
    ASSUME DedupInv, NEW c \in Calls, Read(c)
    PROVE  DedupInv'
<1>1. /\ call[c].phase = "reading" /\ UNCHANGED <<record, layerA, beating, disproved>>
      /\ Fault \/ UNCHANGED faults
  BY DEF Read, In
<1>2. ASSUME NEW phase \in {"electing", "polling", "overwriting"}, Goes(c, phase)
      PROVE  DedupInv'
  <2>1. /\ call[c].open \in BOOLEAN
        /\ call' = [call EXCEPT ![c] = [call[c] EXCEPT !.phase = phase, !.open = call[c].open]]
    BY <1>2, GoesIs
  <2> QED BY <1>1, <2>1, GoesPreserves
<1>3. ASSUME record.kind \in {"ok", "failed"}, Returns(c, [kind |-> record.kind, of |-> record.of])
      PROVE  DedupInv'
  <2> DEFINE o == [kind |-> record.kind, of |-> record.of]
  <2>1. o \in Outcomes /\ (o.kind = "ok" => o.of \notin call[c].barred /\ Through(o.of))
    BY <1>3, RecordReturns
  <2>2. call[c].phase \notin Guarded \cup Ended /\ Returns(c, o)
    BY <1>1, <1>3 DEF Guarded, Ended
  <2> HIDE DEF o
  <2> QED BY <1>1, <2>1, <2>2, ReturnPreserves
<1>4. record.kind \in {"absent", "inFlight", "ok", "failed"}
  <2>1. record \in Records
    BY Facts
  <2> QED BY <2>1, RecordKinds
<1>5. ASSUME Reads(c) PROVE DedupInv'
  BY <1>2, <1>3, <1>4, <1>5 DEF Reads
<1> QED BY <1>2, <1>5 DEF Read

LEMMA ElectPreserves ==
    ASSUME DedupInv, NEW c \in Calls, Elect(c) \/ Overwrite(c)
    PROVE  DedupInv'
<1>1. /\ call[c].phase \in {"electing", "overwriting"} /\ UNCHANGED <<layerA, beating, disproved>>
      /\ Fault \/ UNCHANGED faults
      /\ record' \in {record, InFlight(c)}
  BY DEF Elect, Overwrite, In, StoreFails
<1>2. record' = record \/ (record' \in Records /\ record'.kind # "ok")
  BY <1>1, WrittenRecords
<1>3. ASSUME NEW phase \in {"polling", "elected"}, Goes(c, phase) PROVE DedupInv'
  <2>1. /\ call[c].open \in BOOLEAN
        /\ call' = [call EXCEPT ![c] = [call[c] EXCEPT !.phase = phase, !.open = call[c].open]]
    BY <1>3, GoesIs
  <2> QED BY <1>1, <1>2, <2>1, GoesPreserves
<1>4. ASSUME FailOpen(c) PROVE DedupInv'
  <2>1. call' = [call EXCEPT ![c] = [call[c] EXCEPT !.phase = "elected", !.open = TRUE]]
    BY <1>4 DEF FailOpen
  <2> QED BY <1>1, <1>2, <2>1, GoesPreserves
<1> QED
  BY <1>3, <1>4 DEF Elect, Overwrite

LEMMA PollPreserves ==
    ASSUME DedupInv, NEW c \in Calls, Poll(c) \/ PollCeiling(c)
    PROVE  DedupInv'
<1>1. /\ call[c].phase \notin Guarded \cup Ended /\ UNCHANGED <<record, layerA, beating, disproved>>
      /\ Fault \/ UNCHANGED faults
  BY DEF Poll, PollCeiling, In, Guarded, Ended
<1>2. ASSUME Returns(c, Failure) PROVE DedupInv'
  BY <1>1, <1>2, OutcomeKinds, ReturnPreserves
<1>3. ASSUME record.kind \in {"ok", "failed"}, Returns(c, [kind |-> record.kind, of |-> record.of])
      PROVE  DedupInv'
  <2> DEFINE o == [kind |-> record.kind, of |-> record.of]
  <2>1. o \in Outcomes /\ (o.kind = "ok" => o.of \notin call[c].barred /\ Through(o.of))
    BY <1>3, RecordReturns
  <2>2. Returns(c, o)
    BY <1>3
  <2> HIDE DEF o
  <2> QED BY <1>1, <2>1, <2>2, ReturnPreserves
<1> QED BY <1>2, <1>3 DEF Poll, PollCeiling

LEMMA LeadPreserves ==
    ASSUME DedupInv, NEW c \in Calls, Lead(c)
    PROVE  DedupInv'
<1> DEFINE y == [call[c] EXCEPT !.phase = "fetching", !.open = call[c].open]
<1>1. call[c].phase = "elected"
  BY DEF Lead, In
<1>2. call[c].open \in BOOLEAN /\ call' = [call EXCEPT ![c] = y]
  BY GoesIs DEF Lead
<1>3. Fits(c, y)
  BY <1>1, <1>2, BareFits
<1>4. y.phase = "fetching"
  <2>1. call[c] \in Progress
    BY Facts DEF Known
  <2> QED BY <2>1 DEF Progress
<1>5. /\ layerA' = [layerA EXCEPT ![At[c]] = c] /\ beating' \subseteq beating \cup {c}
      /\ UNCHANGED <<record, disproved, faults>>
  BY DEF Lead
<1> HIDE DEF y
<1>6. Writes(c, y) /\ faults' \in 0..MaxFaults
  BY <1>5, QuietWrites, FaultsBounded
<1>7. Moves(c, y)
  BY <1>1, <1>2, <1>3, <1>4, <1>5, <1>6 DEF Moves, Past, Unsent, Guarded, Ended
<1> QED
  BY <1>6, <1>7, MovePreserves

LEMMA FetchEndsPreserves ==
    ASSUME DedupInv, NEW c \in Calls, NEW o \in {Answer(c), Failure}, FetchEnds(c, o)
    PROVE  DedupInv'
<1> DEFINE y == [call[c] EXCEPT !.phase = IF call[c].open THEN "sending" ELSE "persisting", !.result = o]
<1>0. Known(c) /\ o \in Outcomes
  BY Facts, OutcomeKinds
<1>1. call[c].phase = "fetching" /\ call' = [call EXCEPT ![c] = y]
  BY DEF FetchEnds, In
<1>2. /\ y \in Progress /\ y.phase \in {"sending", "persisting"} /\ y.heard = call[c].heard
      /\ y.barred = call[c].barred /\ y.result = o
  BY <1>0 DEF Known, Progress, Phases, Guarded
<1>3. /\ UNCHANGED <<record, layerA, disproved, faults>> /\ beating' = beating \ {c}
  BY DEF FetchEnds
<1> HIDE DEF y
<1>4. Fits(c, y)
  BY <1>0, <1>1, <1>2 DEF Fits, Known
<1>5. Writes(c, y) /\ faults' \in 0..MaxFaults
  BY <1>3, QuietWrites, FaultsBounded
<1>6. Moves(c, y)
  BY <1>1, <1>2, <1>3, <1>4, <1>5 DEF Moves, Past, Unsent, Guarded, Ended
<1> QED
  BY <1>5, <1>6, MovePreserves

(* The terminal put is what makes a leader Through, so that its answer was *)
(* not disproved before.                                                   *)
LEMMA PersistPreserves ==
    ASSUME DedupInv, NEW c \in Calls, Persist(c)
    PROVE  DedupInv'
<1> DEFINE y == [call[c] EXCEPT !.phase = "sending"]
<1>0. Known(c) /\ record \in Records /\ RecordFits /\ \A a \in disproved : Through(a)
  BY Facts
<1>1. /\ call[c].phase = "persisting" /\ call' = [call EXCEPT ![c] = y]
      /\ call[c].result \in {Answer(c), Failure}
  BY <1>0 DEF Persist, In, Goes, Fits, Known
<1>2. /\ y \in Progress /\ y.phase = "sending" /\ y.heard = call[c].heard
      /\ y.barred = call[c].barred /\ y.result = call[c].result
  BY <1>0 DEF Known, Progress, Phases, Guarded
<1>3. /\ record' \in {record, Terminal(call[c].result)} /\ (Fault \/ UNCHANGED faults)
      /\ UNCHANGED <<layerA, beating, disproved>>
  BY DEF Persist, StoreFails
<1> HIDE DEF y
<1>4. Fits(c, y)
  BY <1>0, <1>1, <1>2 DEF Fits, Known
<1>5. c \notin disproved
  BY <1>0, <1>1 DEF Through, Past, Ended
<1>6. Writes(c, y)
  <2>1. CASE record' = record
    BY <1>0, <1>3, <2>1 DEF Writes, RecordFits
  <2>2. CASE record' = Terminal(call[c].result)
    <3>1. record' \in Records /\ (record'.kind = "ok" => record'.of = c)
      BY <1>1, <2>2, OutcomeKinds, WrittenRecords
    <3> QED BY <1>0, <1>2, <1>3, <1>5, <3>1 DEF Writes, Past
  <2> QED BY <1>3, <2>1, <2>2
<1>7. faults' \in 0..MaxFaults
  BY <1>3, FaultsBounded
<1>8. Moves(c, y)
  BY <1>0, <1>1, <1>2, <1>3, <1>4, <1>7 DEF Moves, Known, Past, Unsent, Guarded, Ended
<1> QED
  BY <1>6, <1>8, MovePreserves

LEMMA DisarmPreserves ==
    ASSUME DedupInv, NEW c \in Calls, Disarm(c)
    PROVE  DedupInv'
<1> DEFINE o == call[c].result
           y == [NotBegun EXCEPT !.phase = "returned", !.result = o, !.barred = call[c].barred]
<1>0. Known(c)
  BY Facts
<1>1. call[c].phase = "evicting" /\ o \in {Answer(c), Failure} /\ c \notin call[c].barred /\ Through(c)
  BY <1>0 DEF Disarm, In, Fits, Through, Past, Known
<1>2. o \in Outcomes /\ (o.kind = "ok" => o.of \notin call[c].barred /\ Through(o.of))
  BY <1>1, OutcomeKinds
<1>3. Fits(c, y)
  BY <1>2, ReturnFits
<1>4. y.phase = "returned" /\ call' = [call EXCEPT ![c] = y]
  BY DEF NotBegun, Disarm, Returns
<1>5. layerA' = [layerA EXCEPT ![At[c]] = Nobody] /\ UNCHANGED <<record, beating, disproved, faults>>
  BY DEF Disarm
<1> HIDE DEF y
<1>6. Writes(c, y) /\ faults' \in 0..MaxFaults
  BY <1>5, QuietWrites, FaultsBounded
<1>7. Moves(c, y)
  BY <1>0, <1>1, <1>3, <1>4, <1>5, <1>6 DEF Moves, Known, Past, Unsent, Ended
<1> QED
  BY <1>6, <1>7, MovePreserves

LEMMA DropPreserves ==
    ASSUME DedupInv, NEW c \in Calls, Drop(c)
    PROVE  DedupInv'
<1>1. /\ call[c].phase \notin {"idle", "joining", "evicting"} \cup Ended
      /\ call' = [call EXCEPT ![c] = Dropped]
      /\ \/ UNCHANGED layerA /\ call[c].phase \notin Guarded
         \/ layerA' = [layerA EXCEPT ![At[c]] = Nobody]
  BY DEF Drop, AtAwait
<1>2. Fits(c, Dropped) /\ Dropped.phase = "dropped"
  BY OutcomeKinds DEF Dropped, Fits, NotBegun, Progress, Phases, Ended
<1>3. UNCHANGED <<record, disproved, faults>> /\ beating' = beating \ {c}
  BY DEF Drop
<1>4. Writes(c, Dropped) /\ faults' \in 0..MaxFaults
  BY <1>3, QuietWrites, FaultsBounded
<1>5. Moves(c, Dropped)
  BY <1>1, <1>2, <1>3, <1>4 DEF Moves, Past, Unsent, Ended
<1> QED
  BY <1>4, <1>5, MovePreserves

LEMMA ForgetPreserves ==
    ASSUME DedupInv, NEW c \in Calls, Forget(c)
    PROVE  DedupInv'
<1> DEFINE y == [call[c] EXCEPT !.forgot = TRUE]
<1>0. Known(c) /\ record \in Records /\ RecordFits /\ \A a \in disproved : Through(a)
  BY Facts
<1>1. /\ call[c].phase = "returned" /\ call' = [call EXCEPT ![c] = y]
      /\ call[c].result.kind = "ok" /\ Through(call[c].result.of)
  BY <1>0 DEF Forget, In, Fits, Known
<1>2. /\ y \in Progress /\ y.phase = "returned" /\ y.heard = call[c].heard
      /\ y.barred = call[c].barred /\ y.result = call[c].result
  BY <1>0, <1>1 DEF Known, Progress
<1>3. /\ UNCHANGED <<layerA, beating>> /\ (Fault \/ UNCHANGED faults)
      /\ \/ record' = Absent /\ disproved' = disproved \cup {call[c].result.of}
         \/ record' \in {record, Absent} /\ UNCHANGED disproved
  BY DEF Forget, StoreFails
<1> HIDE DEF y
<1>4. Fits(c, y)
  BY <1>0, <1>1, <1>2 DEF Fits, Known
<1>5. Writes(c, y)
  BY <1>0, <1>1, <1>3, WrittenRecords DEF RecordFits, Writes
<1>6. faults' \in 0..MaxFaults
  BY <1>3, FaultsBounded
<1>7. Moves(c, y)
  BY <1>0, <1>1, <1>2, <1>3, <1>4, <1>6 DEF Moves, Known, Past, Unsent, Guarded, Ended
<1> QED
  BY <1>5, <1>7, MovePreserves

(* The send reaches every follower of the window at once, and leaves the   *)
(* leader Through but no longer Unsent: those that joined in time have     *)
(* heard it.                                                               *)
LEMMA BroadcastPreserves ==
    ASSUME DedupInv, NEW c \in Calls, Broadcast(c)
    PROVE  DedupInv'
<1>1. /\ Known(c) /\ record \in Records /\ faults \in 0..MaxFaults
      /\ call \in [Calls -> Progress] /\ \A f \in Calls : Fits(f, call[f])
  BY Facts DEF DedupInv, TypeOK, AllFit
<1>2. /\ call[c].phase = "sending" /\ call[c].result \in {Answer(c), Failure}
      /\ UNCHANGED <<record, layerA, beating, disproved, faults>>
  BY <1>1 DEF Broadcast, In, Fits, Known
<1>3. call[c].result \in Outcomes /\ call[c].result # Silence
  BY <1>2, OutcomeKinds
<1>4. /\ call'[c] = [call[c] EXCEPT !.phase = "evicting"] /\ DOMAIN call' = Calls
      /\ \A f \in Calls \ {c} :
            call'[f] = IF call[f].phase = "joined" /\ call[f].chan = c
                       THEN [call[f] EXCEPT !.heard = call[c].result] ELSE call[f]
      /\ call' = [f \in Calls |-> call'[f]]
  BY <1>1, <1>2 DEF Broadcast, Delivered, In
<1>5. \A f \in Calls :
        /\ call'[f] \in Progress /\ call'[f].chan = call[f].chan /\ call'[f].late = call[f].late
        /\ call'[f].barred = call[f].barred /\ call'[f].result = call[f].result
        /\ call'[f].phase = IF f = c THEN "evicting" ELSE call[f].phase
        /\ \/ call'[f].heard = call[f].heard /\ ~(call[f].phase = "joined" /\ call[f].chan = c)
           \/ call'[f].heard = call[c].result /\ call[f].phase = "joined" /\ call[f].chan = c
  BY <1>1, <1>2, <1>3, <1>4 DEF Progress, Phases, Guarded
<1>6. \A a : Through(a) => Through(a)'
  BY <1>2, <1>5 DEF Through, Past
<1>7. Through(c)'
  BY <1>5 DEF Through, Past
<1>8. TypeOK'
  <2>1. call' \in [Calls -> Progress]
    BY <1>4, <1>5
  <2>2. beating' \subseteq {b \in Calls : call'[b].phase = "fetching"}
    BY <1>2, <1>5 DEF DedupInv, TypeOK, In
  <2> QED BY <1>2, <2>1, <2>2 DEF DedupInv, TypeOK, In
<1>9. EntryHasLeader'
  <2> SUFFICES ASSUME NEW r \in Replicas, layerA[r] # Nobody
               PROVE  At[layerA[r]] = r /\ call'[layerA[r]].phase \in Guarded
    BY <1>2 DEF EntryHasLeader
  <2>1. layerA[r] \in Calls /\ At[layerA[r]] = r /\ call[layerA[r]].phase \in Guarded
    BY DEF DedupInv, TypeOK, EntryHasLeader
  <2> QED BY <1>5, <2>1 DEF Guarded
<1>10. AllFit'
  <2> SUFFICES ASSUME NEW f \in Calls PROVE Fits(f, call[f])'
    BY DEF AllFit
  <2>1. Fits(f, call[f]) /\ call[f] \in Progress
    BY <1>1
  <2>2. CASE f = c
    <3>1. /\ call'[c] \in Progress /\ call'[c].phase = "evicting" /\ call'[c].heard = call[c].heard
          /\ call'[c].result = call[c].result /\ call'[c].barred = call[c].barred
      BY <1>2, <1>5
    <3>2. call[c].heard = Silence
      BY <1>2, <2>1, <2>2 DEF Fits
    <3> QED BY <1>2, <2>1, <2>2, <3>1, <3>2 DEF Fits
  <2>3. CASE f # c /\ call[f].phase = "joined" /\ call[f].chan = c
    <3>1. /\ call'[f] \in Progress /\ call'[f].phase = "joined" /\ call'[f].chan = c
          /\ call'[f].heard = call[c].result /\ call'[f].barred = call[f].barred
      BY <1>5, <2>3
    <3> QED BY <1>2, <1>3, <1>7, <2>1, <2>3, <3>1 DEF Fits
  <2>4. CASE f # c /\ ~(call[f].phase = "joined" /\ call[f].chan = c)
    <3>1. call'[f] = call[f]
      BY <1>4, <2>4
    <3>2. \A d \in Calls \ {c} : call[d].phase \in Unsent => call'[d].phase \in Unsent
      BY <1>5
    <3>3. call[f].phase = "joined" => call[f].chan \in Calls \ {c}
      BY <2>1, <2>4 DEF Fits
    <3> QED BY <1>2, <1>6, <2>1, <3>1, <3>2, <3>3 DEF Fits
  <2> QED BY <2>2, <2>3, <2>4
<1>11. RecordFits' /\ DisprovedFit'
  BY <1>2, <1>6 DEF DedupInv, RecordFits, DisprovedFit
<1> QED BY <1>8, <1>9, <1>10, <1>11 DEF DedupInv

(* A replica dies: its calls are gone, with the entry that was theirs. *)
LEMMA CrashPreserves ==
    ASSUME DedupInv, NEW r \in Replicas, Crash(r)
    PROVE  DedupInv'
<1> DEFINE lost == {c \in Calls : At[c] = r /\ call[c].phase \notin {"idle"} \cup Ended}
<1>1. /\ call \in [Calls -> Progress] /\ \A f \in Calls : Fits(f, call[f])
      /\ layerA \in [Replicas -> Calls \cup {Nobody}] /\ At \in [Calls -> Replicas]
  BY DedupAssumption DEF DedupInv, TypeOK, AllFit
<1>2. /\ call' = [c \in Calls |-> IF c \in lost THEN Dropped ELSE call[c]]
      /\ layerA' = [layerA EXCEPT ![r] = Nobody] /\ beating' = beating \ lost
      /\ UNCHANGED <<record, disproved>> /\ Fault
  BY DEF Crash
<1>3. faults' \in 0..MaxFaults
  BY <1>2, FaultsBounded
<1>4. /\ Dropped \in Progress /\ Dropped.phase = "dropped"
      /\ \A c \in Calls : Fits(c, Dropped)
  BY OutcomeKinds DEF Dropped, Fits, NotBegun, Progress, Phases, Ended
<1>5. \A a : Through(a) => Through(a)'
  BY <1>2, <1>4 DEF Through, Past, Ended
<1>6. \A c \in Calls : call[c].phase \in Unsent => call'[c].phase \in Unsent
  BY <1>2, <1>4 DEF Unsent
<1>7. TypeOK'
  <2>1. call' \in [Calls -> Progress]
    BY <1>1, <1>2, <1>4
  <2>2. beating' \subseteq {b \in Calls : call'[b].phase = "fetching"}
    BY <1>2 DEF DedupInv, TypeOK, In
  <2>3. layerA' \in [Replicas -> Calls \cup {Nobody}]
    BY <1>1, <1>2
  <2> QED BY <1>2, <1>3, <2>1, <2>2, <2>3 DEF DedupInv, TypeOK, In
<1>8. EntryHasLeader'
  <2> SUFFICES ASSUME NEW q \in Replicas, layerA'[q] # Nobody
               PROVE  At[layerA'[q]] = q /\ call'[layerA'[q]].phase \in Guarded
    BY DEF EntryHasLeader
  <2>1. q # r /\ layerA'[q] = layerA[q]
    BY <1>1, <1>2
  <2>2. layerA[q] \in Calls /\ At[layerA[q]] = q /\ call[layerA[q]].phase \in Guarded
    BY <1>1, <2>1 DEF DedupInv, EntryHasLeader
  <2> QED BY <1>2, <2>1, <2>2
<1>9. AllFit'
  <2> SUFFICES ASSUME NEW f \in Calls PROVE Fits(f, call[f])'
    BY DEF AllFit
  <2>1. PICK x : x = call'[f] /\ Fits(f, x)
    BY <1>1, <1>2, <1>4
  <2> QED BY <1>2, <1>5, <1>6, <2>1 DEF Fits
<1>10. RecordFits' /\ DisprovedFit'
  BY <1>2, <1>5 DEF DedupInv, RecordFits, DisprovedFit
<1> QED BY <1>7, <1>8, <1>9, <1>10 DEF DedupInv

(* What happens to the record by itself. *)
LEMMA RecordPreserves ==
    ASSUME DedupInv, Expire \/ Evict \/ FailureExpires
    PROVE  DedupInv'
<1>1. UNCHANGED <<layerA, call, beating, disproved>> /\ (Fault \/ UNCHANGED faults)
  BY DEF Expire, Evict, FailureExpires
<1>2. record \in Records
  BY DEF DedupInv, TypeOK
<1>3. record' \in Records /\ record'.kind # "ok"
  BY <1>2 DEF Expire, Evict, FailureExpires, Records, Absent, InFlight, Terminal, Outcomes, Answer, Failure
<1>4. faults' \in 0..MaxFaults
  BY <1>1, FaultsBounded
<1> QED BY <1>1, <1>3, <1>4 DEF DedupInv, TypeOK, In, EntryHasLeader, AllFit, Fits, RecordFits, DisprovedFit, Through

-----------------------------------------------------------------------------
LEMMA DedupStep == DedupInv /\ [Next]_vars => DedupInv'
<1> SUFFICES ASSUME DedupInv, [Next]_vars PROVE DedupInv'
  OBVIOUS
<1>1. ASSUME NEW c \in Calls, Proceed(c) PROVE DedupInv'
  BY <1>1, SubscribePreserves, ReceivePreserves, ReadPreserves, ElectPreserves, LeadPreserves,
     PersistPreserves, BroadcastPreserves, DisarmPreserves DEF Proceed
<1>2. ASSUME NEW c \in Calls, FetchReturns(c) \/ Deadline(c) PROVE DedupInv'
  BY <1>2, FetchEndsPreserves DEF FetchReturns, Deadline
<1>3. ASSUME NEW c \in Calls, Begin(c) \/ WaitElapses(c) \/ Poll(c) \/ PollCeiling(c) \/ Drop(c) \/ Forget(c)
      PROVE  DedupInv'
  BY <1>3, BeginPreserves, WaitElapsesPreserves, PollPreserves, DropPreserves, ForgetPreserves
<1>4. CASE UNCHANGED vars
  BY <1>4 DEF vars, DedupInv, TypeOK, In, EntryHasLeader, AllFit, Fits, RecordFits, DisprovedFit, Through
<1> QED BY <1>1, <1>2, <1>3, <1>4, CrashPreserves, RecordPreserves DEF Next

(* The whole invariant, in every state. *)
LEMMA DedupAlways == Spec => []DedupInv
BY DedupInit, DedupStep, PTL DEF Spec

(* No entry of the in-process map outlives its window (coalesce_inner,     *)
(* LeaderGuard): whoever finds one joins a leader of its own replica that  *)
(* is still there, for any number of calls and replicas.                   *)
THEOREM EntriesHaveLeaders == Spec => []EntryHasLeader
<1>1. DedupInv => EntryHasLeader
  BY DEF DedupInv
<1> QED BY <1>1, DedupAlways, PTL

(* A follower that joined in time waits in silence only for a leader that  *)
(* has not sent yet or was dropped (send_outcome before the eviction).     *)
THEOREM SilenceIsExplained == Spec => []SilenceExplained
<1>1. DedupInv => SilenceExplained
  BY DEF DedupInv, AllFit, Fits, SilenceExplained, In, Unsent
<1> QED BY <1>1, DedupAlways, PTL

(* A call that begins after a forget took effect and after the leader was  *)
(* through never returns the disproved answer, on either layer.            *)
THEOREM DisprovedStaysAway == Spec => []DisprovedNotInherited
<1>1. DedupInv => DisprovedNotInherited
  BY DEF DedupInv, AllFit, Fits, DisprovedNotInherited, In
<1> QED BY <1>1, DedupAlways, PTL

(* The lock of a leader that fetches under its heartbeat is lost only to a *)
(* fault, a forget or a call that acts on an older reading; put_if_absent  *)
(* never takes it.                                                         *)
THEOREM LockIsKept == Spec => LockTakenOnlyBy
<1> DEFINE Kept(c) ==
        record = InFlight(c) /\ c \in beating /\ record' # record /\ c \in beating' =>
            \/ faults' > faults
            \/ \E d \in Calls : call'[d].forgot # call[d].forgot
            \/ \E d \in Calls \ {c} : call[d].phase \in {"overwriting", "persisting"} /\ call'[d] # call[d]
<1>1. ASSUME DedupInv, [Next]_vars, NEW c \in Calls,
             record = InFlight(c), c \in beating, record' # record, c \in beating', ~(faults' > faults),
             ~\E d \in Calls \ {c} : call[d].phase \in {"overwriting", "persisting"} /\ call'[d] # call[d]
      PROVE  \E d \in Calls : call'[d].forgot # call[d].forgot
  <2>1. /\ call[c].phase = "fetching" /\ faults \in Nat /\ call \in [Calls -> Progress]
        /\ record # Absent /\ record.kind = "inFlight"
    BY <1>1, WrittenRecords DEF DedupInv, TypeOK, In
  <2>2. ~Fault
    BY <1>1, <2>1 DEF Fault
  <2>3. ASSUME NEW d \in Calls, Elect(d) PROVE FALSE
    BY <1>1, <2>1, <2>2, <2>3 DEF Elect, StoreFails
  <2>4. ASSUME NEW d \in Calls, Overwrite(d) \/ Persist(d) PROVE FALSE
    <3>1. d # c /\ call[d].phase \in {"overwriting", "persisting"}
      BY <2>1, <2>4 DEF Overwrite, Persist, In
    <3>2. call'[d].phase \in {"elected", "sending"}
      BY <2>1, <2>2, <2>4 DEF Overwrite, Persist, Goes, StoreFails, Progress
    <3> QED BY <1>1, <3>1, <3>2
  <2>5. ASSUME NEW d \in Calls, Forget(d) PROVE call'[d].forgot # call[d].forgot
    <3>1. call[d] \in Progress /\ call' = [call EXCEPT ![d].forgot = TRUE] /\ ~call[d].forgot
      BY <2>1, <2>5 DEF Forget
    <3>2. call'[d].forgot = TRUE BY <2>1, <3>1 DEF Progress
    <3> QED BY <3>1, <3>2
  <2>6. ~Expire /\ ~Evict /\ ~FailureExpires
    <3>1. ~Expire BY <1>1, <2>1, <2>2 DEF Expire
    <3>2. ~Evict BY <1>1, <2>1, <2>2 DEF Evict
    <3>3. ~FailureExpires BY <1>1, <2>1, <2>2 DEF FailureExpires
    <3> QED BY <3>1, <3>2, <3>3
  <2>7. \E d \in Calls : Elect(d) \/ Overwrite(d) \/ Persist(d) \/ Forget(d)
    BY <1>1, <2>6 DEF Next, vars, Proceed, Begin, Subscribe, Receive, WaitElapses, Read, Poll, PollCeiling,
       Lead, FetchReturns, Deadline, FetchEnds, Broadcast, Disarm, Drop, Crash
  <2> QED BY <2>3, <2>4, <2>5, <2>7
<1>2. DedupInv /\ [Next]_vars => [\A c \in Calls : Kept(c)]_vars
  BY <1>1
<1> QED BY <1>2, DedupAlways, PTL DEF Spec, LockTakenOnlyBy
=============================================================================
