-------------------------- MODULE EventChainProofs --------------------------
(***************************************************************************)
(* The hash chain, the sweep, the anchors and the verifier, for any number *)
(* of streams, appenders, events, sweeps, checkpoints and losses.          *)
(*                                                                         *)
(* Two things carry the proofs.  As long as nothing is lost and a stream   *)
(* is not sealed, its rows only grow (Onward), so whatever an appender, a  *)
(* checkpoint or the verifier once read of it is still there.  And a hash  *)
(* is minted once, so that a lost event never comes back.                  *)
(***************************************************************************)
EXTENDS EventChain, TLAPS, WellFoundedInduction, FiniteSetTheorems

(* Every set of naturals has a least element. *)
LEMMA NatWellFounded == IsWellFoundedOn({ss \in Nat \X Nat : ss[1] < ss[2]}, Nat)
BY NatLessThanWellFounded DEF OpToRel

LEMMA LeastNat ==
    ASSUME NEW S \in SUBSET Nat, S # {}
    PROVE  \E m \in S : \A k \in S : m <= k
<1>1. PICK x \in S : \A y \in S : ~(<<y, x>> \in {ss \in Nat \X Nat : ss[1] < ss[2]})
  BY NatWellFounded, WFMin, Zenon
<1>2. \A y \in S : ~(y < x)
  <2> TAKE y \in S
  <2>1. <<y, x>> \in Nat \X Nat /\ <<y, x>>[1] = y /\ <<y, x>>[2] = x
    OBVIOUS
  <2> QED BY <1>1, <2>1
<1> QED BY <1>2

-----------------------------------------------------------------------------
(* Sets of rows. *)

OnePer(R) == \A q, r \in R : q.pos = r.pos => q = r

LEMMA RowTypes ==
    ASSUME NEW r \in Rows
    PROVE  /\ r.pos \in Positions /\ r.hash \in Hashes /\ r.prev \in Hashes \cup {Genesis}
           /\ r.terminal \in BOOLEAN /\ r.pos \in Nat /\ r.hash \in Nat /\ r.pos < MaxEvents
BY ChainAssumption DEF Rows, Positions, Hashes

(* A stream's tail is one of its rows, and no row is past it. *)
LEMMA TailIs ==
    ASSUME NEW R \in SUBSET Rows, R # {}
    PROVE  /\ TailPos(R) \in Positions
           /\ \A r \in R : r.pos <= TailPos(R)
           /\ \E r \in R : r.pos = TailPos(R)
<1> DEFINE S == {n \in Nat : \A r \in R : r.pos <= n}
<1>1. MaxEvents \in S
  BY ChainAssumption, RowTypes
<1>2. PICK m \in S : \A k \in S : m <= k
  BY <1>1, LeastNat
<1>3. \E r \in R : r.pos = m
  <2> SUFFICES ASSUME \A r \in R : r.pos # m PROVE FALSE
    OBVIOUS
  <2>1. m \in Nat /\ m > 0 /\ \A r \in R : r.pos \in Nat /\ r.pos < m
    BY RowTypes
  <2>2. m - 1 \in S
    BY <2>1
  <2> QED BY <1>2, <2>1, <2>2
<1>4. m \in {r.pos : r \in R} /\ \A r \in R : r.pos <= m
  BY <1>3
<1>5. \E p \in {r.pos : r \in R} : \A r \in R : r.pos <= p
  BY <1>4
<1>6. TailPos(R) \in {r.pos : r \in R} /\ \A r \in R : r.pos <= TailPos(R)
  BY <1>5 DEF TailPos
<1> QED BY <1>6, RowTypes

LEMMA AtIs ==
    ASSUME NEW R, NEW p, Has(R, p)
    PROVE  /\ At(R, p) \in R /\ At(R, p).pos = p
           /\ OnePer(R) => \A q \in R : q.pos = p => At(R, p) = q
<1>1. At(R, p) \in R /\ At(R, p).pos = p
  BY DEF At, Has
<1> QED BY <1>1 DEF OnePer

LEMMA HeadIs ==
    ASSUME NEW R \in SUBSET Rows, R # {}
    PROVE  /\ At(R, TailPos(R)) \in R /\ At(R, TailPos(R)).pos = TailPos(R)
           /\ HeadHash(R) = At(R, TailPos(R)).hash
           /\ OnePer(R) => \A q \in R : q.pos = TailPos(R) => At(R, TailPos(R)) = q
<1>1. Has(R, TailPos(R))
  BY TailIs DEF Has
<1> QED BY <1>1, AtIs DEF HeadHash

(* What the walk accepts has a row at every position up to each of its     *)
(* rows.                                                                   *)
LEMMA ChainIsContiguous ==
    ASSUME NEW R \in SUBSET Rows, ChainOk(R), NEW r \in R, NEW p \in 0..r.pos
    PROVE  Has(R, p)
<1> DEFINE S == {n \in Nat : n <= r.pos /\ ~Has(R, r.pos - n)}
<1>0. r.pos \in Nat
  BY RowTypes
<1>1. S = {}
  <2> SUFFICES ASSUME S # {} PROVE FALSE
    OBVIOUS
  <2>1. PICK m \in S : \A k \in S : m <= k
    BY LeastNat
  <2>2. m # 0
    BY <1>0, <2>1 DEF Has
  <2>3. m - 1 \in Nat /\ m - 1 <= r.pos /\ m - 1 \notin S
    BY <1>0, <2>1, <2>2
  <2>4. PICK q \in R : q.pos = r.pos - (m - 1)
    BY <2>3 DEF Has
  <2>5. q.pos - 1 = r.pos - m /\ q.pos # 0
    BY <1>0, <2>1, <2>2, <2>4
  <2> QED BY <2>1, <2>5 DEF ChainOk
<1>2. r.pos - p \in Nat /\ r.pos - p <= r.pos /\ r.pos - (r.pos - p) = p
  BY <1>0
<1> QED BY <1>1, <1>2

-----------------------------------------------------------------------------
(* The invariant. *)

(* No event was lost and stream s is not sealed. *)
Quiet(s) == counts.losses = 0 /\ \A t \in tombs : t.stream # s

Held(s, p, h) == \E r \in rows[s] : r.pos = p /\ r.hash = h

(* Rows have their own position and their own hash, and were minted. *)
RowsFit ==
    /\ rows \in [Streams -> SUBSET Rows] /\ minted \in 0..MaxEvents
    /\ \A s \in Streams : OnePer(rows[s])
    /\ \A s, t \in Streams : \A q \in rows[s], r \in rows[t] : q.hash = r.hash => s = t /\ q = r
    /\ \A s \in Streams : \A r \in rows[s] : r.pos < r.hash /\ r.hash <= minted

(* An append builds on nothing, or on a row that is there. *)
AppendFits(x) ==
    /\ x \in [stream : Streams, tail : Positions \cup {NoTail}, head : Hashes \cup {Genesis}]
    /\ x.tail < minted
    /\ Quiet(x.stream) => (x.tail = NoTail /\ x.head = Genesis) \/ Held(x.stream, x.tail, x.head)

AppendsFit ==
    /\ DOMAIN append = Appenders
    /\ \A a \in Appenders : append[a] = NoAppend \/ AppendFits(append[a])

Chained == \A s \in Streams : Quiet(s) => ChainOk(rows[s])

(* What the sweep has proved still holds until it seals. *)
SweepFits ==
    /\ sweep \in [stage : {"idle", "sweeping", "proven", "staged", "anchoring"},
                  tails : [Streams -> Positions \cup {NoTail}], todo : SUBSET Streams, sealed : BOOLEAN,
                  stream : Streams \cup {NoStream}, proven : Positions \cup {NoTail},
                  head : Hashes \cup {Genesis}]
    /\ sweep.stage \in {"proven", "staged"} => sweep.stream \in Streams
    /\ sweep.stage = "staged" => sweep.proven \in Positions /\ sweep.head \in Hashes
    /\ counts.losses = 0 /\ sweep.stage = "proven" /\ sweep.stream \in gated =>
          \E r \in rows[sweep.stream] : r.pos = sweep.proven /\ r.terminal
    /\ counts.losses = 0 /\ sweep.stage = "staged" =>
          \E r \in rows[sweep.stream] : /\ r.pos = sweep.proven /\ r.hash = sweep.head
                                        /\ sweep.stream \in gated => r.terminal

(* Anchored heads are heads, and those of a quiet stream are still there;  *)
(* the sweep's own cut holds every seal.                                   *)
Checkpoints == [seq : Nat, heads : SUBSET Heads, sealed : SUBSET Seals]

HeadsFit(H) == H \subseteq Heads /\ \A h \in H : Quiet(h.stream) => Held(h.stream, h.pos, h.hash)

AnchorsFit ==
    /\ tombs \subseteq Seals /\ counts \in [sweeps : Nat, verifies : Nat, losses : Nat]
    /\ cps \in Seq(Checkpoints)
    /\ \A i \in DOMAIN cps : HeadsFit(cps[i].heads)
    /\ emit \in [Emitters -> [stage : {"idle", "numbered", "cut"}, seq : Nat, heads : SUBSET Heads,
                              sealed : SUBSET Seals]]
    /\ \A e \in Emitters : HeadsFit(emit[e].heads)
    /\ emit["sweep"].stage # "idle" => sweep.stage = "anchoring"
    /\ emit["sweep"].stage = "cut" => emit["sweep"].sealed = tombs

(* A lost hash was minted and is in no row. *)
LostFits ==
    /\ lost \subseteq Hashes
    /\ \A k \in lost : k <= minted
    /\ \A s \in Streams : \A r \in rows[s] : r.hash \notin lost

(* What the verifier saw: rows without the events lost before it began,    *)
(* and of a quiet stream a chain with every head its checkpoints name.     *)
SeenFits(s) ==
    /\ verify.seen[s] \subseteq Rows /\ OnePer(verify.seen[s])
    /\ \A q, r \in verify.seen[s] : q.hash = r.hash => q = r
    /\ \A r \in verify.seen[s] : r.hash \notin verify.lostBefore
    /\ Quiet(s) => ChainOk(verify.seen[s])
    /\ Quiet(s) /\ verify.stage = "walking" /\ s \in verify.listed \ verify.todo =>
          \A h \in AnchoredHeads(verify.cps) :
              h.stream = s => \E r \in verify.seen[s] : r.pos = h.pos /\ r.hash = h.hash

VerifyFits ==
    /\ verify \in [stage : {"idle", "listed", "walking", "done"}, todo : SUBSET Streams,
                   cps : Seq(Checkpoints),
                   seen : [Streams -> SUBSET Rows], sealed : SUBSET Seals,
                   report : {"none", "ok", "missing", "broken"}, lostBefore : SUBSET Hashes,
                   listed : SUBSET Streams]
    /\ verify.lostBefore \subseteq lost
    /\ \A i \in DOMAIN verify.cps : HeadsFit(verify.cps[i].heads)
    /\ \A s \in Streams : SeenFits(s)
    /\ verify.stage # "done" => verify.report = "none"
    /\ verify.stage = "listed" => verify.todo = verify.listed
    /\ LossIsReported /\ AlarmsAreExplained

ChainInv ==
    /\ gated \subseteq Streams
    /\ RowsFit /\ AppendsFit /\ Chained /\ SweepFits /\ AnchorsFit /\ LostFits /\ VerifyFits

LEMMA ChainInit == Init => ChainInv
<1> SUFFICES ASSUME Init PROVE ChainInv
  OBVIOUS
<1>1. /\ 0 \in 0..MaxEvents /\ -1 \in Positions \cup {NoTail} /\ << >> \in Seq(Checkpoints)
      /\ \A s \in Streams : rows[s] = {}
  BY ChainAssumption DEF Init, NoTail
<1>2. gated \subseteq Streams /\ RowsFit /\ AppendsFit /\ LostFits /\ Chained
  BY <1>1 DEF Init, RowsFit, AppendsFit, LostFits, OnePer, Chained, ChainOk
<1>3. SweepFits
  BY <1>1 DEF Init, SweepFits, NoSweep, NoTail, Genesis, NoStream
<1>4. AnchorsFit
  BY <1>1 DEF Init, AnchorsFit, HeadsFit, NoEmission, Emitters
<1>5. VerifyFits
  BY <1>1 DEF Init, VerifyFits, NoVerify, HeadsFit, SeenFits, OnePer, ChainOk, LossIsReported, AlarmsAreExplained
<1> QED BY <1>2, <1>3, <1>4, <1>5 DEF ChainInv

-----------------------------------------------------------------------------
(* What a step does to the rows, the seals and the losses: nothing; or a   *)
(* batch is added to the stream an append read, where it clashes with      *)
(* nothing; or a stream is sealed; or its tail is lost.                    *)

Still == UNCHANGED <<rows, minted, tombs, lost>> /\ counts'.losses = counts.losses

Grows ==
    \E a \in Appenders, n \in 1..MaxBatch, terminal \in BOOLEAN :
        LET x == append[a]
            batch == Batch(x, n, terminal)
        IN  /\ x # NoAppend /\ minted + n <= MaxEvents /\ ~Clashes(x.stream, batch)
            /\ rows' = [rows EXCEPT ![x.stream] = @ \cup batch] /\ minted' = minted + n
            /\ UNCHANGED <<tombs, lost, counts>>

SealsOne ==
    /\ sweep.stage = "staged" /\ CountMatches(rows[sweep.stream])
    /\ rows' = [rows EXCEPT ![sweep.stream] = @ \ Removed(rows[sweep.stream])]
    /\ tombs' = tombs \cup {[stream |-> sweep.stream, hash |-> sweep.head]}
    /\ sweep' = [NextStream EXCEPT !.sealed = TRUE]
    /\ UNCHANGED <<gated, minted, lost, counts>>

Loses ==
    \E s \in Streams, p \in {NoTail} \cup Positions :
        /\ rows' = [rows EXCEPT ![s] = {r \in @ : r.pos <= p}]
        /\ lost' = lost \cup {r.hash : r \in {q \in rows[s] : q.pos > p}}
        /\ counts'.losses = counts.losses + 1
        /\ UNCHANGED <<minted, tombs>>

LEMMA StepKinds ==
    ASSUME ChainInv, [Next]_vars
    PROVE  Still \/ Grows \/ SealsOne \/ Loses
<1>0. counts \in [sweeps : Nat, verifies : Nat, losses : Nat]
  BY DEF ChainInv, AnchorsFit
<1>1. ASSUME NEW a \in Appenders, NEW n \in 1..MaxBatch, NEW terminal \in BOOLEAN, Insert(a, n, terminal)
      PROVE  Still \/ Grows
  BY <1>1 DEF Insert, Still, Grows
<1>2. Seal => Still \/ SealsOne
  BY DEF Seal, Still, SealsOne
<1>3. ASSUME NEW s \in Streams, NEW p \in {NoTail} \cup Positions, LoseTail(s, p)
      PROVE  Loses
  <2>1. counts'.losses = counts.losses + 1
    BY <1>0, <1>3 DEF LoseTail
  <2> QED BY <1>3, <2>1 DEF LoseTail, Loses
<1>4. ListCandidates \/ VerifyList => Still
  BY <1>0 DEF ListCandidates, VerifyList, Still
<1>5. CASE \E a \in Appenders, s \in Streams : ReadTail(a, s)
  BY <1>5 DEF ReadTail, Still
<1>6. CASE \E s \in Streams : Prove(s) \/ VerifyStream(s)
  BY <1>6 DEF Prove, VerifyStream, Still
<1>7. CASE \E e \in Emitters : ReadAnchors(e) \/ Snapshot(e) \/ Write(e)
  BY <1>7 DEF ReadAnchors, Snapshot, Write, Still
<1>8. CASE StageTombstone \/ EndSweep \/ KillWorker \/ VerifyAnchors \/ VerifySeals \/ UNCHANGED vars
  BY <1>8 DEF StageTombstone, EndSweep, KillWorker, VerifyAnchors, VerifySeals, vars, Still
<1> QED BY <1>1, <1>2, <1>3, <1>4, <1>5, <1>6, <1>7, <1>8 DEF Next

(* The rows of a stream that is quiet afterwards were quiet before and are *)
(* still there.                                                            *)
LEMMA Onward ==
    ASSUME ChainInv, [Next]_vars
    PROVE  \A s \in Streams : Quiet(s)' => Quiet(s) /\ rows[s] \subseteq rows'[s]
<1> SUFFICES ASSUME NEW s \in Streams, Quiet(s)' PROVE Quiet(s) /\ rows[s] \subseteq rows'[s]
  OBVIOUS
<1>0. rows \in [Streams -> SUBSET Rows] /\ counts.losses \in Nat
  BY DEF ChainInv, AnchorsFit, RowsFit
<1>1. CASE Still
  BY <1>1 DEF Still, Quiet
<1>2. CASE Grows
  BY <1>0, <1>2 DEF Grows, Quiet
<1>3. CASE SealsOne
  <2>1. [stream |-> sweep.stream, hash |-> sweep.head] \in tombs'
    BY <1>3 DEF SealsOne
  <2>2. \A t \in tombs' : t.stream # s
    BY DEF Quiet
  <2>3. sweep.stream # s
    BY <2>1, <2>2
  <2> QED BY <1>0, <1>3, <2>3 DEF SealsOne, Quiet
<1>4. CASE Loses
  BY <1>0, <1>4 DEF Loses, Quiet
<1> QED BY <1>1, <1>2, <1>3, <1>4, StepKinds

LEMMA HeldOnward ==
    ASSUME ChainInv, [Next]_vars, NEW s \in Streams, NEW p, NEW h, Quiet(s)', Held(s, p, h)
    PROVE  Held(s, p, h)'
BY Onward DEF Held

(* The rows an append adds. *)
LEMMA BatchIs ==
    ASSUME ChainInv, NEW a \in Appenders, append[a] # NoAppend, NEW n \in 1..MaxBatch,
           NEW terminal \in BOOLEAN, minted + n <= MaxEvents, NEW r \in Batch(append[a], n, terminal)
    PROVE  /\ r \in Rows /\ r.pos < r.hash /\ r.hash > minted /\ r.hash <= minted + n
           /\ r.pos - append[a].tail = r.hash - minted
<1>1. /\ append[a].tail \in Positions \cup {NoTail} /\ append[a].head \in Hashes \cup {Genesis}
      /\ append[a].tail < minted /\ minted \in 0..MaxEvents
  BY DEF ChainInv, AppendsFit, AppendFits, RowsFit
<1>2. PICK i \in 1..n : r = [pos |-> append[a].tail + i, hash |-> minted + i,
                             prev |-> IF i = 1 THEN append[a].head ELSE minted + i - 1,
                             terminal |-> terminal /\ i = n]
  BY DEF Batch
<1>3. MaxEvents \in Nat /\ MaxBatch \in Nat
  BY ChainAssumption
<1>4. /\ append[a].tail \in Int /\ append[a].tail >= -1
      /\ append[a].tail + i \in Positions /\ minted + i \in Hashes
      /\ i # 1 => minted + i - 1 \in Hashes
  <2> DEFINE tail == append[a].tail
             m == minted
  <2>1. tail \in Int /\ tail >= -1 /\ tail < m /\ m \in Nat /\ i \in Nat /\ i >= 1 /\ i <= n
    BY <1>1, <1>3 DEF Positions, NoTail
  <2>2. n \in Nat /\ m + n <= MaxEvents BY <1>3
  <2> HIDE DEF tail, m
  <2>3. tail + i \in 0..(MaxEvents - 1) /\ m + i \in 1..MaxEvents
    BY <1>3, <2>1, <2>2
  <2>4. i # 1 => m + i - 1 \in 1..MaxEvents
    BY <1>3, <2>1, <2>2
  <2> QED BY <2>1, <2>3, <2>4 DEF tail, m, Positions, Hashes
<1>5. r \in Rows
  BY <1>1, <1>2, <1>4 DEF Rows
<1> QED BY <1>1, <1>2, <1>3, <1>4, <1>5

LEMMA RowsPreserved ==
    ASSUME ChainInv, [Next]_vars
    PROVE  RowsFit' /\ LostFits' /\ minted <= minted' /\ lost \subseteq lost'
<1>0. RowsFit /\ LostFits /\ minted \in Nat
  BY ChainAssumption DEF ChainInv, RowsFit
<1>1. CASE Still
  BY <1>0, <1>1 DEF Still, RowsFit, LostFits, OnePer
<1>2. CASE Grows
  <2>1. PICK a \in Appenders, n \in 1..MaxBatch, terminal \in BOOLEAN :
            /\ append[a] # NoAppend /\ minted + n <= MaxEvents
            /\ ~Clashes(append[a].stream, Batch(append[a], n, terminal))
            /\ rows' = [rows EXCEPT ![append[a].stream] = @ \cup Batch(append[a], n, terminal)]
            /\ minted' = minted + n /\ UNCHANGED <<tombs, lost, counts>>
    BY <1>2 DEF Grows
  <2> DEFINE s == append[a].stream
             B == Batch(append[a], n, terminal)
  <2>2. s \in Streams /\ append[a].tail \in Int
    BY <2>1 DEF ChainInv, AppendsFit, AppendFits, Positions, NoTail
  <2>3. /\ \A r \in B : /\ r \in Rows /\ r.pos < r.hash /\ r.hash > minted /\ r.hash <= minted + n
                         /\ r.pos - append[a].tail = r.hash - minted
    BY <2>1, BatchIs
  <2>4. \A q, r \in B : (q.pos = r.pos \/ q.hash = r.hash) => q = r
    <3> SUFFICES ASSUME NEW q \in B, NEW r \in B, q.pos = r.pos \/ q.hash = r.hash PROVE q = r
      OBVIOUS
    <3>1. PICK i \in 1..n : q = [pos |-> append[a].tail + i, hash |-> minted + i,
                             prev |-> IF i = 1 THEN append[a].head ELSE minted + i - 1,
                             terminal |-> terminal /\ i = n]
      BY DEF Batch
    <3>2. PICK j \in 1..n : r = [pos |-> append[a].tail + j, hash |-> minted + j,
                             prev |-> IF j = 1 THEN append[a].head ELSE minted + j - 1,
                             terminal |-> terminal /\ j = n]
      BY DEF Batch
    <3>3. i = j
      BY <1>0, <2>2, <3>1, <3>2
    <3> QED BY <3>1, <3>2, <3>3
  <2>5. \A q \in rows[s], r \in B : q.pos # r.pos
    BY <2>1 DEF Clashes, Has
  <2>6. /\ rows' \in [Streams -> SUBSET Rows] /\ rows'[s] = rows[s] \cup B
        /\ \A t \in Streams \ {s} : rows'[t] = rows[t]
    <3> HIDE DEF B
    <3> QED BY <1>0, <2>1, <2>2, <2>3 DEF RowsFit, B
  <2> HIDE DEF B, s
  <2>7. minted' \in 0..MaxEvents /\ minted <= minted' /\ lost' = lost /\ minted' = minted + n /\ n \in Nat
    BY <1>0, <2>1, ChainAssumption
  <2>8. \A t \in Streams : \A r \in rows[t] : r.pos < r.hash /\ r.hash <= minted /\ r.hash \in Nat /\ r.pos \in Nat
    BY <1>0, RowTypes DEF RowsFit
  <2>9. \A r \in B : r.hash \in Nat /\ r.pos \in Nat
    BY <2>3, RowTypes
  <2>10. \A t \in Streams : OnePer(rows'[t])
    BY <1>0, <2>4, <2>5, <2>6 DEF OnePer, RowsFit
  <2>11. \A t, u \in Streams : \A q \in rows'[t], r \in rows'[u] : q.hash = r.hash => t = u /\ q = r
    <3> SUFFICES ASSUME NEW t \in Streams, NEW u \in Streams, NEW q \in rows'[t], NEW r \in rows'[u], q.hash = r.hash
                 PROVE  t = u /\ q = r
      OBVIOUS
    <3>1. (q \in rows[t] \/ (t = s /\ q \in B)) /\ (r \in rows[u] \/ (u = s /\ r \in B))
      BY <2>6
    <3>2. CASE q \in rows[t] /\ r \in rows[u]
      BY <1>0, <3>2 DEF RowsFit
    <3>3. CASE t = s /\ q \in B /\ u = s /\ r \in B
      BY <2>4, <3>3
    <3>4. CASE (q \in rows[t] /\ r \in B) \/ (q \in B /\ r \in rows[u])
      BY <1>0, <2>3, <2>8, <2>9, <3>4
    <3> QED BY <3>1, <3>2, <3>3, <3>4
  <2>12. \A t \in Streams : \A r \in rows'[t] : r.pos < r.hash /\ r.hash <= minted'
    BY <1>0, <2>2, <2>3, <2>6, <2>7, <2>8, <2>9
  <2>13. RowsFit'
    BY <2>6, <2>7, <2>10, <2>11, <2>12 DEF RowsFit
  <2>14. \A t \in Streams : \A r \in rows'[t] : r.hash \notin lost'
    BY <1>0, <2>2, <2>3, <2>6, <2>7, <2>9 DEF LostFits, Hashes
  <2>15. LostFits'
    BY <1>0, <2>7, <2>14 DEF LostFits, Hashes
  <2> QED BY <2>7, <2>13, <2>15
<1>3. ASSUME rows' \in [Streams -> SUBSET Rows], \A s \in Streams : rows'[s] \subseteq rows[s],
             UNCHANGED minted
      PROVE  RowsFit'
  BY <1>0, <1>3 DEF RowsFit, OnePer
<1>4. CASE SealsOne
  <2>1. rows' \in [Streams -> SUBSET Rows] /\ \A s \in Streams : rows'[s] \subseteq rows[s]
    BY <1>0, <1>4 DEF RowsFit, SealsOne
  <2> QED BY <1>0, <1>3, <1>4, <2>1 DEF SealsOne, LostFits
<1>5. CASE Loses
  <2>1. PICK s \in Streams, p \in {NoTail} \cup Positions :
            /\ rows' = [rows EXCEPT ![s] = {r \in @ : r.pos <= p}]
            /\ lost' = lost \cup {r.hash : r \in {q \in rows[s] : q.pos > p}}
            /\ UNCHANGED minted
    BY <1>5 DEF Loses
  <2>2. rows' \in [Streams -> SUBSET Rows] /\ \A t \in Streams : rows'[t] \subseteq rows[t]
    BY <1>0, <2>1 DEF RowsFit
  <2>3. \A k \in lost' : k \in lost \/ \E q \in rows[s] : q.pos > p /\ k = q.hash
    BY <2>1
  <2>4. \A k \in lost' : k \in Hashes /\ k <= minted
    BY <1>0, <2>3, RowTypes DEF RowsFit, LostFits
  <2>5. \A t \in Streams : \A r \in rows'[t] : r.hash \notin lost'
    <3> SUFFICES ASSUME NEW t \in Streams, NEW r \in rows'[t], r.hash \in lost' PROVE FALSE
      OBVIOUS
    <3>1. r \in rows[t] /\ (t = s => r.pos <= p)
      BY <1>0, <2>1 DEF RowsFit
    <3>2. PICK q \in rows[s] : q.pos > p /\ r.hash = q.hash
      BY <1>0, <2>3, <3>1 DEF LostFits
    <3>3. t = s /\ q = r
      BY <1>0, <3>1, <3>2 DEF RowsFit
    <3>4. r.pos \in Nat /\ p \in Int
      BY <1>0, <3>1, RowTypes DEF RowsFit, Positions, NoTail
    <3> QED BY <3>1, <3>2, <3>3, <3>4
  <2> QED BY <1>0, <1>3, <2>1, <2>2, <2>4, <2>5 DEF LostFits
<1> QED BY <1>1, <1>2, <1>4, <1>5, StepKinds

(* A batch that clashes with nothing extends the chain, although the tail  *)
(* it builds on was read before: the row it was read from is still there.  *)
LEMMA BatchChains ==
    ASSUME ChainInv, NEW a \in Appenders, append[a] # NoAppend, NEW n \in 1..MaxBatch,
           NEW terminal \in BOOLEAN, minted + n <= MaxEvents,
           ~Clashes(append[a].stream, Batch(append[a], n, terminal)),
           Quiet(append[a].stream),
           OnePer(rows[append[a].stream] \cup Batch(append[a], n, terminal))
    PROVE  ChainOk(rows[append[a].stream] \cup Batch(append[a], n, terminal))
<1> DEFINE x == append[a]
           R == rows[x.stream]
           B == Batch(x, n, terminal)
           row(i) == [pos |-> x.tail + i, hash |-> minted + i,
                      prev |-> IF i = 1 THEN x.head ELSE minted + i - 1, terminal |-> terminal /\ i = n]
<1>1. /\ x.stream \in Streams /\ x.tail \in Int /\ x.tail >= -1 /\ minted \in Nat /\ n \in Nat
      /\ (x.tail = NoTail /\ x.head = Genesis) \/ Held(x.stream, x.tail, x.head)
  BY ChainAssumption DEF ChainInv, AppendsFit, AppendFits, Positions, NoTail, RowsFit
<1>2. ChainOk(R) /\ R \subseteq Rows
  BY <1>1 DEF ChainInv, Chained, RowsFit
<1>3. \A r \in B : \E i \in 1..n : r = row(i)
  BY DEF Batch
<1>4. \A i \in 1..n : row(i) \in B
  BY DEF Batch
<1> HIDE DEF B, R
<1>5. ASSUME NEW q \in R \cup B, NEW r \in R \cup B, q.pos = r.pos - 1, r.prev = q.hash
      PROVE  /\ r.pos = 0 \/ Has(R \cup B, r.pos - 1)
             /\ r.pos # 0 => r.prev = At(R \cup B, r.pos - 1).hash
  <2>1. Has(R \cup B, r.pos - 1)
    BY <1>5 DEF Has
  <2>2. At(R \cup B, r.pos - 1) = q
    BY <1>5, <2>1, AtIs DEF R, B
  <2> QED BY <1>5, <2>1, <2>2
<1>6. ASSUME NEW r \in R
      PROVE  /\ r.pos = 0 \/ Has(R \cup B, r.pos - 1)
             /\ r.prev = IF r.pos = 0 THEN Genesis ELSE At(R \cup B, r.pos - 1).hash
  <2>1. CASE r.pos = 0
    BY <1>2, <1>6, <2>1 DEF ChainOk
  <2>2. CASE r.pos # 0
    <3>1. Has(R, r.pos - 1) /\ r.prev = At(R, r.pos - 1).hash
      BY <1>2, <1>6, <2>2 DEF ChainOk
    <3>2. At(R, r.pos - 1) \in R /\ At(R, r.pos - 1).pos = r.pos - 1
      BY <3>1, AtIs
    <3> QED BY <1>5, <2>2, <3>1, <3>2
  <2> QED BY <2>1, <2>2
<1>7. ASSUME NEW r \in B
      PROVE  /\ r.pos = 0 \/ Has(R \cup B, r.pos - 1)
             /\ r.prev = IF r.pos = 0 THEN Genesis ELSE At(R \cup B, r.pos - 1).hash
  <2>1. PICK i \in 1..n : r = row(i)
    BY <1>3, <1>7
  <2>2. CASE i = 1
    <3>1. r.pos = x.tail + 1 /\ r.prev = x.head
      BY <2>1, <2>2
    <3>2. CASE x.tail = NoTail /\ x.head = Genesis
      BY <3>1, <3>2 DEF NoTail
    <3>3. CASE Held(x.stream, x.tail, x.head)
      <4>1. PICK q \in R : q.pos = x.tail /\ q.hash = x.head
        BY <3>3 DEF Held, R
      <4>2. q.pos \in Nat /\ q.pos = r.pos - 1 /\ r.pos # 0
        BY <1>1, <1>2, <3>1, <4>1, RowTypes
      <4> QED BY <1>5, <3>1, <4>1, <4>2
    <3> QED BY <1>1, <3>2, <3>3
  <2>3. CASE i # 1
    <3>1. row(i - 1) \in B /\ row(i - 1).pos = x.tail + i - 1 /\ row(i - 1).hash = minted + i - 1
      BY <1>1, <1>4, <2>3
    <3>2. r.pos = x.tail + i /\ r.prev = minted + i - 1
      BY <2>1, <2>3
    <3>3. row(i - 1).pos = r.pos - 1 /\ r.prev = row(i - 1).hash /\ r.pos # 0
      BY <1>1, <2>3, <3>1, <3>2
    <3> HIDE DEF row
    <3> QED BY <1>5, <3>1, <3>3
  <2> QED BY <2>2, <2>3
<1> QED BY <1>6, <1>7 DEF ChainOk, R, B

LEMMA ChainedPreserved ==
    ASSUME ChainInv, [Next]_vars
    PROVE  Chained'
<1> SUFFICES ASSUME NEW s \in Streams, Quiet(s)' PROVE ChainOk(rows'[s])
  BY DEF Chained, ChainOk
<1>0. Quiet(s) /\ ChainOk(rows[s]) /\ rows \in [Streams -> SUBSET Rows] /\ counts.losses \in Nat
  BY Onward DEF ChainInv, Chained, RowsFit, AnchorsFit
<1>1. CASE Still
  BY <1>0, <1>1 DEF Still
<1>2. CASE Grows
  <2>1. PICK a \in Appenders, n \in 1..MaxBatch, terminal \in BOOLEAN :
            /\ append[a] # NoAppend /\ minted + n <= MaxEvents
            /\ ~Clashes(append[a].stream, Batch(append[a], n, terminal))
            /\ rows' = [rows EXCEPT ![append[a].stream] = @ \cup Batch(append[a], n, terminal)]
    BY <1>2 DEF Grows
  <2>2. CASE append[a].stream = s
    <3>1. rows'[s] = rows[append[a].stream] \cup Batch(append[a], n, terminal)
      BY <1>0, <2>1, <2>2
    <3>2. OnePer(rows'[s])
      BY RowsPreserved DEF RowsFit, OnePer
    <3> QED BY <1>0, <2>1, <2>2, <3>1, <3>2, BatchChains
  <2>3. CASE append[a].stream # s
    BY <1>0, <2>1, <2>3
  <2> QED BY <2>2, <2>3
<1>3. CASE SealsOne
  <2>1. [stream |-> sweep.stream, hash |-> sweep.head] \in tombs'
    BY <1>3 DEF SealsOne
  <2>2. \A t \in tombs' : t.stream # s
    BY DEF Quiet
  <2>3. sweep.stream # s
    BY <2>1, <2>2
  <2> QED BY <1>0, <1>3, <2>3 DEF SealsOne
<1>4. CASE Loses
  BY <1>0, <1>4 DEF Loses, Quiet
<1> QED BY <1>1, <1>2, <1>3, <1>4, StepKinds

(* Who changes what the actors have read. *)
LEMMA AppendOwners ==
    ASSUME [Next]_vars
    PROVE  \/ UNCHANGED append
           \/ \E a \in Appenders, s \in Streams : ReadTail(a, s)
           \/ \E a \in Appenders : append' = [append EXCEPT ![a] = NoAppend]
<1>1. CASE \E s \in Streams : Prove(s) \/ VerifyStream(s)
  BY <1>1 DEF Prove, VerifyStream
<1>2. CASE \E e \in Emitters : ReadAnchors(e) \/ Snapshot(e) \/ Write(e)
  BY <1>2 DEF ReadAnchors, Snapshot, Write
<1>3. CASE ListCandidates \/ StageTombstone \/ Seal \/ EndSweep \/ KillWorker
            \/ VerifyList \/ VerifyAnchors \/ VerifySeals \/ UNCHANGED vars
  BY <1>3 DEF ListCandidates, StageTombstone, Seal, EndSweep, KillWorker, VerifyList, VerifyAnchors, VerifySeals, vars
<1>4. CASE \E s \in Streams, p \in {NoTail} \cup Positions : LoseTail(s, p)
  BY <1>4 DEF LoseTail
<1>5. CASE \E a \in Appenders, n \in 1..MaxBatch, terminal \in BOOLEAN : Insert(a, n, terminal)
  BY <1>5 DEF Insert
<1> QED BY <1>1, <1>2, <1>3, <1>4, <1>5 DEF Next

LEMMA AppendsPreserved ==
    ASSUME ChainInv, [Next]_vars
    PROVE  AppendsFit'
<1>0. AppendsFit /\ RowsFit /\ minted \in Nat /\ minted <= minted' /\ minted' \in Nat
  BY ChainAssumption, RowsPreserved DEF ChainInv, RowsFit
<1>1. ASSUME NEW x, AppendFits(x) PROVE AppendFits(x)'
  <2>1. x.tail \in Int /\ x.tail < minted' /\ x.stream \in Streams
    BY <1>0, <1>1 DEF AppendFits, Positions, NoTail
  <2>2. Quiet(x.stream)' => (x.tail = NoTail /\ x.head = Genesis) \/ Held(x.stream, x.tail, x.head)'
    <3> SUFFICES ASSUME Quiet(x.stream)', Held(x.stream, x.tail, x.head)
                 PROVE  Held(x.stream, x.tail, x.head)'
      BY <1>1, <2>1, Onward DEF AppendFits
    <3> QED BY <2>1, HeldOnward
  <2> QED BY <1>1, <2>1, <2>2 DEF AppendFits
<1>2. CASE UNCHANGED append
  <2> SUFFICES ASSUME NEW a \in Appenders, append[a] # NoAppend PROVE AppendFits(append[a])'
    BY <1>0, <1>2 DEF AppendsFit
  <2>1. PICK x : x = append[a] /\ AppendFits(x)
    BY <1>0 DEF AppendsFit
  <2>2. AppendFits(x)'
    BY <1>1, <2>1
  <2> QED BY <1>2, <2>1, <2>2 DEF AppendFits
<1>3. CASE \E a \in Appenders : append' = [append EXCEPT ![a] = NoAppend]
  <2>1. PICK a \in Appenders : append' = [append EXCEPT ![a] = NoAppend]
    BY <1>3
  <2> SUFFICES ASSUME NEW b \in Appenders, append'[b] # NoAppend PROVE AppendFits(append[b])'
    BY <1>0, <2>1 DEF AppendsFit
  <2>2. b # a /\ append'[b] = append[b]
    BY <1>0, <2>1 DEF AppendsFit
  <2>3. PICK x : x = append[b] /\ AppendFits(x)
    BY <1>0, <2>2 DEF AppendsFit
  <2>4. AppendFits(x)'
    BY <1>1, <2>3
  <2> QED BY <2>2, <2>3, <2>4 DEF AppendFits
<1>4. CASE \E a \in Appenders, s \in Streams : ReadTail(a, s)
  <2>1. PICK a \in Appenders, s \in Streams : ReadTail(a, s)
    BY <1>4
  <2> DEFINE y == [stream |-> s, tail |-> TailPos(rows[s]), head |-> HeadHash(rows[s])]
  <2>2. append' = [append EXCEPT ![a] = y] /\ UNCHANGED <<rows, minted, tombs, counts>>
    BY <2>1 DEF ReadTail
  <2>3. y.stream = s /\ y.tail = TailPos(rows[s]) /\ y.head = HeadHash(rows[s])
        /\ y = [stream |-> y.stream, tail |-> y.tail, head |-> y.head]
    OBVIOUS
  <2> HIDE DEF y
  <2>4. AppendFits(y)
    <3>1. CASE rows[s] = {}
      <4>1. y.tail = NoTail /\ y.head = Genesis
        BY <2>3, <3>1 DEF TailPos, HeadHash
      <4> QED BY <1>0, <2>3, <4>1 DEF AppendFits, NoTail
    <3>2. CASE rows[s] # {}
      <4>1. rows[s] \in SUBSET Rows
        BY <1>0 DEF RowsFit
      <4>2. PICK r \in rows[s] : r.pos = y.tail /\ r.hash = y.head
        BY <2>3, <3>2, <4>1, HeadIs
      <4>3. r.pos \in Positions /\ r.hash \in Hashes /\ r.pos \in Nat /\ r.hash \in Nat
            /\ r.pos < r.hash /\ r.hash <= minted
        BY <1>0, <4>1, RowTypes DEF RowsFit
      <4>4. r.pos < minted
        BY <1>0, <4>3
      <4> QED BY <2>3, <4>2, <4>3, <4>4 DEF AppendFits, Held
    <3> QED BY <3>1, <3>2
  <2>5. PICK w : w = y /\ AppendFits(w)
    BY <2>4
  <2>7. AppendFits(w)'
    BY <1>1, <2>5
  <2> SUFFICES ASSUME NEW b \in Appenders, append'[b] # NoAppend PROVE AppendFits(append[b])'
    BY <1>0, <2>2 DEF AppendsFit
  <2>6. PICK x : x = append'[b] /\ AppendFits(x)'
    <3>1. CASE b = a
      BY <1>0, <2>2, <2>5, <2>7, <3>1 DEF AppendsFit
    <3>2. CASE b # a
      <4>1. append'[b] = append[b]
        BY <1>0, <2>2, <3>2 DEF AppendsFit
      <4>2. PICK z : z = append[b] /\ AppendFits(z)
        BY <1>0, <4>1 DEF AppendsFit
      <4>3. AppendFits(z)'
        BY <1>1, <4>2
      <4> QED BY <4>1, <4>2, <4>3
    <3> QED BY <3>1, <3>2
  <2> QED BY <2>6 DEF AppendFits
<1> QED BY <1>2, <1>3, <1>4, AppendOwners

-----------------------------------------------------------------------------
LEMMA SweepOwners ==
    ASSUME [Next]_vars
    PROVE  \/ UNCHANGED <<sweep, gated>>
           \/ ListCandidates \/ StageTombstone \/ Seal \/ EndSweep
           \/ sweep' = NoSweep /\ UNCHANGED <<rows, gated>>
           \/ \E s \in Streams : Prove(s)
<1>1. CASE \E s \in Streams : Prove(s) \/ VerifyStream(s)
  BY <1>1 DEF VerifyStream
<1>2. CASE \E e \in Emitters : ReadAnchors(e) \/ Snapshot(e) \/ Write(e)
  BY <1>2 DEF ReadAnchors, Snapshot, Write
<1>3. CASE ListCandidates \/ StageTombstone \/ Seal \/ EndSweep \/ KillWorker
            \/ VerifyList \/ VerifyAnchors \/ VerifySeals \/ UNCHANGED vars
  BY <1>3 DEF KillWorker, VerifyList, VerifyAnchors, VerifySeals, vars
<1>4. CASE \E s \in Streams, p \in {NoTail} \cup Positions : LoseTail(s, p)
  BY <1>4 DEF LoseTail
<1>5. CASE \E a \in Appenders, n \in 1..MaxBatch, terminal \in BOOLEAN : Insert(a, n, terminal)
  BY <1>5 DEF Insert
<1>6. CASE \E a \in Appenders, s \in Streams : ReadTail(a, s)
  BY <1>6 DEF ReadTail
<1> QED BY <1>1, <1>2, <1>3, <1>4, <1>5, <1>6 DEF Next

(* Whatever the tails were, each is a position or none. *)
LEMMA TailTypes ==
    ASSUME ChainInv, NEW s \in Streams
    PROVE  /\ TailPos(rows[s]) \in Positions \cup {NoTail} /\ rows[s] \in SUBSET Rows /\ OnePer(rows[s])
           /\ rows[s] # {} => TailPos(rows[s]) \in Positions /\ HeadHash(rows[s]) \in Hashes
<1>1. rows[s] \in SUBSET Rows /\ OnePer(rows[s])
  BY DEF ChainInv, RowsFit
<1>2. CASE rows[s] = {}
  BY <1>1, <1>2 DEF TailPos
<1>3. CASE rows[s] # {}
  <2>1. TailPos(rows[s]) \in Positions
    BY <1>1, <1>3, TailIs
  <2>2. At(rows[s], TailPos(rows[s])) \in rows[s] /\ HeadHash(rows[s]) = At(rows[s], TailPos(rows[s])).hash
    BY <1>1, <1>3, HeadIs
  <2> QED BY <1>1, <2>1, <2>2, RowTypes
<1> QED BY <1>2, <1>3

SweepTypes ==
    [stage : {"idle", "sweeping", "proven", "staged", "anchoring"},
     tails : [Streams -> Positions \cup {NoTail}], todo : SUBSET Streams, sealed : BOOLEAN,
     stream : Streams \cup {NoStream}, proven : Positions \cup {NoTail},
     head : Hashes \cup {Genesis}]

(* A sweep that holds no proof holds nothing that could be stale. *)
LEMMA SweepAtRest ==
    ASSUME sweep' \in SweepTypes, sweep'.stage \notin {"proven", "staged"}
    PROVE  SweepFits'
BY DEF SweepFits, SweepTypes

LEMMA SweepStaged ==
    ASSUME sweep' \in SweepTypes, sweep'.stage = "staged", sweep'.stream \in Streams,
           sweep'.proven \in Positions, sweep'.head \in Hashes,
           counts'.losses = 0 =>
              \E r \in rows'[sweep'.stream] : /\ r.pos = sweep'.proven /\ r.hash = sweep'.head
                                              /\ sweep'.stream \in gated' => r.terminal
    PROVE  SweepFits'
BY DEF SweepFits, SweepTypes

LEMMA SweepPreserved ==
    ASSUME ChainInv, [Next]_vars
    PROVE  SweepFits'
<1>0. /\ SweepFits /\ sweep \in SweepTypes /\ gated \subseteq Streams /\ counts.losses \in Nat
      /\ rows \in [Streams -> SUBSET Rows]
  BY DEF ChainInv, SweepFits, SweepTypes, AnchorsFit, RowsFit
<1>1. NoSweep \in SweepTypes /\ NoSweep.stage = "idle"
  BY DEF NoSweep, SweepTypes
<1>2. NextStream \in SweepTypes /\ NextStream.stage = "sweeping"
  BY <1>0 DEF NextStream, SweepTypes
<1>3. CASE UNCHANGED <<sweep, gated>>
  <2>1. ~SealsOne
    BY <1>0, <1>2, <1>3 DEF SealsOne, SweepTypes
  <2>2. CASE counts'.losses = 0
    <3>1. counts.losses = 0 /\ \A s \in Streams : rows[s] \subseteq rows'[s]
      BY <1>0, <2>1, <2>2, StepKinds DEF Still, Grows, Loses
    <3> QED BY <1>0, <1>3, <2>2, <3>1 DEF SweepFits
  <2>3. CASE counts'.losses # 0
    BY <1>0, <1>3, <2>3 DEF SweepFits
  <2> QED BY <2>2, <2>3
<1>4. CASE ListCandidates
  <2>1. [s \in Streams |-> TailPos(rows[s])] \in [Streams -> Positions \cup {NoTail}]
    BY TailTypes
  <2>2. sweep' \in SweepTypes /\ sweep'.stage = "sweeping"
    BY <1>4, <2>1 DEF ListCandidates, NoSweep, SweepTypes
  <2> QED BY <2>2, SweepAtRest
<1>5. CASE StageTombstone
  <2> DEFINE R == rows[sweep.stream]
             y == [sweep EXCEPT !.stage = "staged", !.proven = TailPos(R), !.head = HeadHash(R)]
  <2>1. CASE sweep' = NextStream
    BY <1>2, <2>1, SweepAtRest
  <2>2. CASE AtProvenTail(R) /\ sweep' = y
    <3>1. sweep.stage = "proven" /\ sweep.stream \in Streams /\ UNCHANGED <<gated, rows, counts>>
      BY <1>0, <1>5 DEF StageTombstone, SweepFits
    <3>2. R # {} /\ TailPos(R) = sweep.proven
      BY <2>2 DEF AtProvenTail
    <3>3. TailPos(R) \in Positions /\ HeadHash(R) \in Hashes /\ R \in SUBSET Rows /\ OnePer(R)
      BY <3>1, <3>2, TailTypes
    <3>4. /\ At(R, TailPos(R)) \in R /\ At(R, TailPos(R)).pos = TailPos(R)
          /\ HeadHash(R) = At(R, TailPos(R)).hash
          /\ \A q \in R : q.pos = TailPos(R) => At(R, TailPos(R)) = q
      BY <3>2, <3>3, HeadIs
    <3>5. /\ y \in SweepTypes /\ y.stage = "staged" /\ y.stream = sweep.stream
          /\ y.proven = TailPos(R) /\ y.head = HeadHash(R)
      BY <1>0, <3>3 DEF SweepTypes
    <3>6. counts.losses = 0 /\ sweep.stream \in gated => At(R, TailPos(R)).terminal
      BY <1>0, <3>1, <3>2, <3>4 DEF SweepFits
    <3> HIDE DEF y
    <3>7. counts'.losses = 0 =>
             \E r \in rows'[y.stream] : /\ r.pos = y.proven /\ r.hash = y.head
                                        /\ y.stream \in gated' => r.terminal
      BY <3>1, <3>4, <3>5, <3>6
    <3>8. /\ sweep' \in SweepTypes /\ sweep'.stage = "staged" /\ sweep'.stream \in Streams
          /\ sweep'.proven \in Positions /\ sweep'.head \in Hashes
          /\ counts'.losses = 0 =>
             \E r \in rows'[sweep'.stream] : /\ r.pos = sweep'.proven /\ r.hash = sweep'.head
                                             /\ sweep'.stream \in gated' => r.terminal
      BY <2>2, <3>1, <3>3, <3>5, <3>7
    <3> QED BY <3>8, SweepStaged
  <2> QED BY <1>5, <2>1, <2>2 DEF StageTombstone
<1>6. CASE Seal
  <2>1. sweep' \in SweepTypes /\ sweep'.stage = "sweeping"
    BY <1>2, <1>6 DEF Seal, SweepTypes
  <2> QED BY <2>1, SweepAtRest
<1>7. CASE EndSweep
  <2>1. sweep' \in SweepTypes /\ sweep'.stage \in {"idle", "anchoring"}
    BY <1>1, <1>7 DEF EndSweep, SweepTypes
  <2> QED BY <2>1, SweepAtRest
<1>8. CASE sweep' = NoSweep
  BY <1>1, <1>8, SweepAtRest
<1>9. CASE \E s \in Streams : Prove(s)
  <2>1. PICK s \in Streams : Prove(s)
    BY <1>9
  <2>2. UNCHANGED <<gated, rows, counts>> /\ sweep.stage = "sweeping"
    BY <2>1 DEF Prove
  <2>3. CASE sweep' = [sweep EXCEPT !.todo = @ \ {s}]
    <3>1. sweep' \in SweepTypes /\ sweep'.stage = "sweeping"
      BY <1>0, <2>2, <2>3 DEF SweepTypes
    <3> QED BY <3>1, SweepAtRest
  <2> DEFINE y == [sweep EXCEPT !.todo = @ \ {s}, !.stage = "proven", !.stream = s,
                      !.proven = IF s \in gated THEN TailPos(rows[s]) ELSE sweep.tails[s]]
  <2>4. CASE (s \in gated => ProvenTerminal(s)) /\ sweep' = y
    <3>1. TailPos(rows[s]) \in Positions \cup {NoTail} /\ rows[s] \in SUBSET Rows
      BY TailTypes
    <3>2. /\ y \in SweepTypes /\ y.stage = "proven" /\ y.stream = s
          /\ s \in gated => y.proven = TailPos(rows[s])
      BY <1>0, <3>1 DEF SweepTypes
    <3> HIDE DEF y
    <3>3. s \in gated => \E r \in rows[s] : r.pos = y.proven /\ r.terminal
      <4> SUFFICES ASSUME s \in gated PROVE \E r \in rows[s] : r.pos = y.proven /\ r.terminal
        OBVIOUS
      <4>1. rows[s] # {} /\ At(rows[s], TailPos(rows[s])).terminal
        BY <2>4 DEF ProvenTerminal
      <4>2. At(rows[s], TailPos(rows[s])) \in rows[s] /\ At(rows[s], TailPos(rows[s])).pos = TailPos(rows[s])
        BY <3>1, <4>1, HeadIs
      <4> QED BY <3>2, <4>1, <4>2
    <3> QED BY <2>2, <2>4, <3>2, <3>3 DEF SweepFits, SweepTypes
  <2> QED BY <2>1, <2>3, <2>4 DEF Prove
<1> QED BY <1>3, <1>4, <1>5, <1>6, <1>7, <1>8, <1>9, SweepOwners

-----------------------------------------------------------------------------
(* The next sequence number is a number: finitely many numbers have a      *)
(* greatest one.                                                           *)
LEMMA Bounded ==
    ASSUME NEW n \in Nat, NEW f \in [1..n -> Nat]
    PROVE  \E b \in Nat : \A i \in 1..n : f[i] <= b
<1> DEFINE P(k) == \E b \in Nat : \A i \in 1..k : f[i] <= b
           S == {k \in Nat : k <= n /\ ~P(k)}
<1>1. P(0)
  <2>1. \A i \in 1..0 : f[i] <= 0
    OBVIOUS
  <2> QED BY <2>1
<1>2. ASSUME NEW k \in Nat, k < n, P(k) PROVE P(k + 1)
  <2>1. PICK b \in Nat : \A i \in 1..k : f[i] <= b
    BY <1>2
  <2>2. k + 1 \in 1..n /\ f[k + 1] \in Nat
    BY <1>2
  <2>3. PICK d \in Nat : b <= d /\ f[k + 1] <= d
    <3>1. b <= b + f[k + 1] /\ f[k + 1] <= b + f[k + 1] /\ b + f[k + 1] \in Nat
      BY <2>2
    <3> QED BY <3>1
  <2>4. \A i \in 1..(k + 1) : f[i] <= d
    <3> SUFFICES ASSUME NEW i \in 1..(k + 1) PROVE f[i] <= d
      OBVIOUS
    <3>1. CASE i = k + 1
      BY <2>3, <3>1
    <3>2. CASE i # k + 1
      <4>1. i \in 1..k /\ i \in 1..n /\ f[i] \in Nat
        BY <1>2, <3>2
      <4> QED BY <2>1, <2>3, <4>1
    <3> QED BY <3>1, <3>2
  <2> QED BY <2>4
<1> HIDE DEF P
<1>3. S = {}
  <2> SUFFICES ASSUME S # {} PROVE FALSE
    OBVIOUS
  <2>1. PICK m \in S : \A k \in S : m <= k
    BY LeastNat
  <2>2. m \in Nat /\ m # 0 /\ m <= n
    BY <1>1, <2>1
  <2>3. m - 1 \in Nat /\ m - 1 < n /\ m - 1 \notin S /\ (m - 1) + 1 = m
    BY <2>1, <2>2
  <2>4. P(m - 1)
    BY <2>3
  <2> QED BY <1>2, <2>1, <2>3, <2>4
<1>4. P(n)
  BY <1>3
<1> QED BY <1>4 DEF P

LEMMA GreatestNat ==
    ASSUME NEW S \in SUBSET Nat, S # {}, NEW b \in Nat, \A n \in S : n <= b
    PROVE  \E m \in S : \A n \in S : n <= m
<1> DEFINE T == {n \in Nat : \A k \in S : k <= n}
<1>1. PICK m \in T : \A k \in T : m <= k
  <2>1. b \in T
    OBVIOUS
  <2> QED BY <2>1, LeastNat
<1>2. m \in S
  <2> SUFFICES ASSUME m \notin S PROVE FALSE
    OBVIOUS
  <2>0. m \in Nat /\ \A k \in S : k <= m
    BY <1>1
  <2>1. \A k \in S : k < m /\ k \in Nat
    <3> TAKE k \in S
    <3>1. k \in Nat /\ k <= m /\ k # m
      BY <2>0
    <3> QED BY <2>0, <3>1
  <2>2. m # 0 /\ m \in Nat
    <3>1. PICK k : k \in S
      OBVIOUS
    <3> QED BY <2>0, <2>1, <3>1
  <2>3. m - 1 \in T
    BY <2>1, <2>2
  <2> QED BY <1>1, <2>2, <2>3
<1> QED BY <1>2

LEMMA NextSeqIs ==
    ASSUME NEW C \in Seq(Checkpoints)
    PROVE  NextSeq(C) \in Nat
<1> DEFINE n == Len(C)
           f == [i \in 1..n |-> C[i].seq]
<1>1. n \in Nat /\ DOMAIN C = 1..n /\ \A i \in 1..n : C[i] \in Checkpoints
  OBVIOUS
<1>2. \A x \in Checkpoints : x.seq \in Nat
  BY DEF Checkpoints
<1>3. f \in [1..n -> Nat] /\ Seqs(C) = {f[i] : i \in 1..n}
  BY <1>1, <1>2 DEF Seqs
<1>4. PICK b \in Nat : \A i \in 1..n : f[i] <= b
  <2> HIDE DEF f, n
  <2> QED BY <1>1, <1>3, Bounded
<1>5. Seqs(C) \in SUBSET Nat /\ \A k \in Seqs(C) : k <= b
  <2> HIDE DEF f, n
  <2> QED BY <1>3, <1>4
<1>6. CASE C = << >>
  BY <1>6 DEF NextSeq
<1>7. CASE C # << >>
  <2>1. 1 \in 1..n
    BY <1>7
  <2>2. Seqs(C) # {}
    <3> HIDE DEF f, n
    <3> QED BY <1>3, <2>1
  <2>3. \E m \in Seqs(C) : \A k \in Seqs(C) : k <= m
    BY <1>5, <2>2, GreatestNat
  <2>4. (CHOOSE m \in Seqs(C) : \A k \in Seqs(C) : k <= m) \in Nat
    <3> HIDE DEF f, n
    <3> QED BY <1>5, <2>3
  <2> QED BY <1>7, <2>4 DEF NextSeq
<1> QED BY <1>6, <1>7

LEMMA EmitOwners ==
    ASSUME [Next]_vars
    PROVE  \/ UNCHANGED <<cps, emit>>
           \/ UNCHANGED <<cps, counts, tombs>> /\ sweep' = NoSweep /\ emit' = [emit EXCEPT !["sweep"] = NoEmission]
           \/ \E e \in Emitters : ReadAnchors(e) \/ Snapshot(e) \/ Write(e)
<1>1. CASE \E s \in Streams : Prove(s) \/ VerifyStream(s)
  BY <1>1 DEF Prove, VerifyStream
<1>3. CASE ListCandidates \/ StageTombstone \/ Seal \/ EndSweep \/ KillWorker
            \/ VerifyList \/ VerifyAnchors \/ VerifySeals \/ UNCHANGED vars
  BY <1>3 DEF ListCandidates, StageTombstone, Seal, EndSweep, KillWorker, VerifyList, VerifyAnchors, VerifySeals, vars
<1>4. CASE \E s \in Streams, p \in {NoTail} \cup Positions : LoseTail(s, p)
  BY <1>4 DEF LoseTail
<1>5. CASE \E a \in Appenders, n \in 1..MaxBatch, terminal \in BOOLEAN : Insert(a, n, terminal)
  BY <1>5 DEF Insert
<1>6. CASE \E a \in Appenders, s \in Streams : ReadTail(a, s)
  BY <1>6 DEF ReadTail
<1> QED BY <1>1, <1>3, <1>4, <1>5, <1>6 DEF Next

LEMMA CountsOwners ==
    ASSUME ChainInv, [Next]_vars
    PROVE  counts' \in [sweeps : Nat, verifies : Nat, losses : Nat]
<1>0. counts \in [sweeps : Nat, verifies : Nat, losses : Nat]
  BY DEF ChainInv, AnchorsFit
<1>1. CASE \E s \in Streams : Prove(s) \/ VerifyStream(s)
  BY <1>0, <1>1 DEF Prove, VerifyStream
<1>2. CASE \E e \in Emitters : ReadAnchors(e) \/ Snapshot(e) \/ Write(e)
  BY <1>0, <1>2 DEF ReadAnchors, Snapshot, Write
<1>3. CASE ListCandidates \/ StageTombstone \/ Seal \/ EndSweep \/ KillWorker
            \/ VerifyList \/ VerifyAnchors \/ VerifySeals \/ UNCHANGED vars
  <2>1. CASE ListCandidates \/ VerifyList
    BY <1>0, <2>1 DEF ListCandidates, VerifyList
  <2>2. CASE ~(ListCandidates \/ VerifyList)
    <3>1. UNCHANGED counts
      BY <1>3, <2>2 DEF StageTombstone, Seal, EndSweep, KillWorker, VerifyAnchors, VerifySeals, vars
    <3> QED BY <1>0, <3>1
  <2> QED BY <2>1, <2>2
<1>4. CASE \E s \in Streams, p \in {NoTail} \cup Positions : LoseTail(s, p)
  BY <1>0, <1>4 DEF LoseTail
<1>5. CASE \E a \in Appenders, n \in 1..MaxBatch, terminal \in BOOLEAN : Insert(a, n, terminal)
  BY <1>0, <1>5 DEF Insert
<1>6. CASE \E a \in Appenders, s \in Streams : ReadTail(a, s)
  BY <1>0, <1>6 DEF ReadTail
<1> QED BY <1>1, <1>2, <1>3, <1>4, <1>5, <1>6 DEF Next

(* Heads that fitted fit still. *)
LEMMA HeadsOnward ==
    ASSUME ChainInv, [Next]_vars, NEW H, HeadsFit(H)
    PROVE  HeadsFit(H)'
<1> SUFFICES ASSUME NEW h \in H, Quiet(h.stream)' PROVE Held(h.stream, h.pos, h.hash)'
  BY DEF HeadsFit
<1>1. h \in Heads /\ h.stream \in Streams
  BY DEF HeadsFit, Heads
<1>2. Held(h.stream, h.pos, h.hash)
  BY <1>1, Onward DEF HeadsFit
<1> QED BY <1>1, <1>2, HeldOnward

(* The heads of the moment fit. *)
LEMMA CutFits ==
    ASSUME ChainInv
    PROVE  HeadsFit({HeadOf(s) : s \in {t \in Streams : rows[t] # {}}})
<1> SUFFICES ASSUME NEW s \in Streams, rows[s] # {}
             PROVE  HeadOf(s) \in Heads /\ Held(HeadOf(s).stream, HeadOf(s).pos, HeadOf(s).hash)
  BY DEF HeadsFit
<1>1. /\ TailPos(rows[s]) \in Positions /\ HeadHash(rows[s]) \in Hashes
      /\ At(rows[s], TailPos(rows[s])) \in rows[s] /\ At(rows[s], TailPos(rows[s])).pos = TailPos(rows[s])
      /\ HeadHash(rows[s]) = At(rows[s], TailPos(rows[s])).hash
  BY TailTypes, HeadIs
<1>2. /\ HeadOf(s).stream = s /\ HeadOf(s).pos = TailPos(rows[s]) /\ HeadOf(s).hash = HeadHash(rows[s])
      /\ HeadOf(s) \in Heads
  BY <1>1 DEF HeadOf, Heads
<1> QED BY <1>1, <1>2 DEF Held

EmitTypes ==
    [stage : {"idle", "numbered", "cut"}, seq : Nat, heads : SUBSET Heads, sealed : SUBSET Seals]

(* The sweep's emission belongs to a sweep that has ended: it seals        *)
(* nothing any more.                                                       *)
LEMMA AnchorsPreserved ==
    ASSUME ChainInv, [Next]_vars
    PROVE  AnchorsFit'
<1>0. /\ AnchorsFit /\ tombs \subseteq Seals /\ cps \in Seq(Checkpoints) /\ emit \in [Emitters -> EmitTypes]
      /\ SweepFits /\ "sweep" \in Emitters
      /\ \A i \in DOMAIN cps : HeadsFit(cps[i].heads)
      /\ \A e \in Emitters : HeadsFit(emit[e].heads)
      /\ emit["sweep"].stage # "idle" => sweep.stage = "anchoring"
      /\ emit["sweep"].stage = "cut" => emit["sweep"].sealed = tombs
  BY DEF ChainInv, AnchorsFit, EmitTypes, Emitters
<1>1. NoEmission \in EmitTypes /\ NoEmission.stage = "idle" /\ NoEmission.heads = {}
  BY DEF NoEmission, EmitTypes
<1>2. tombs' \subseteq Seals /\ (tombs' = tombs \/ sweep.stage = "staged")
  <2>1. CASE SealsOne
    <3>1. sweep.stage = "staged" /\ sweep.stream \in Streams /\ sweep.head \in Hashes
      BY <1>0, <2>1 DEF SealsOne, SweepFits
    <3>2. [stream |-> sweep.stream, hash |-> sweep.head] \in Seals
      BY <3>1 DEF Seals
    <3> QED BY <1>0, <2>1, <3>1, <3>2 DEF SealsOne
  <2>2. CASE Still \/ Grows \/ Loses
    BY <1>0, <2>2 DEF Still, Grows, Loses
  <2> QED BY <2>1, <2>2, StepKinds
<1>3. counts' \in [sweeps : Nat, verifies : Nat, losses : Nat]
  BY CountsOwners
<1>4. ASSUME cps' \in Seq(Checkpoints), \A i \in DOMAIN cps' : \E H : H = cps'[i].heads /\ HeadsFit(H),
             emit' \in [Emitters -> EmitTypes], \A e \in Emitters : \E H : H = emit'[e].heads /\ HeadsFit(H),
             emit'["sweep"].stage # "idle" => sweep'.stage = "anchoring",
             emit'["sweep"].stage = "cut" => emit'["sweep"].sealed = tombs'
      PROVE  AnchorsFit'
  <2>1. ASSUME NEW i \in DOMAIN cps' PROVE HeadsFit(cps[i].heads)'
    <3>1. PICK H : H = cps'[i].heads /\ HeadsFit(H)
      BY <1>4, <2>1
    <3>2. HeadsFit(H)'
      BY <3>1, HeadsOnward
    <3> QED BY <3>1, <3>2 DEF HeadsFit
  <2>2. ASSUME NEW e \in Emitters PROVE HeadsFit(emit[e].heads)'
    <3>1. PICK H : H = emit'[e].heads /\ HeadsFit(H)
      BY <1>4, <2>2
    <3>2. HeadsFit(H)'
      BY <3>1, HeadsOnward
    <3> QED BY <3>1, <3>2 DEF HeadsFit
  <2> QED BY <1>2, <1>3, <1>4, <2>1, <2>2 DEF AnchorsFit, EmitTypes
<1>5. CASE UNCHANGED <<cps, emit>>
  <2>1. emit["sweep"].stage # "idle" => sweep'.stage = "anchoring" /\ tombs' = tombs
    <3> SUFFICES ASSUME emit["sweep"].stage # "idle" PROVE sweep'.stage = "anchoring" /\ tombs' = tombs
      OBVIOUS
    <3>1. sweep.stage = "anchoring" /\ tombs' = tombs
      BY <1>0, <1>2
    <3>2. ~ListCandidates /\ ~StageTombstone /\ ~Seal /\ ~EndSweep /\ \A s \in Streams : ~Prove(s)
      BY <3>1 DEF ListCandidates, StageTombstone, Seal, EndSweep, Prove
    <3>3. ~KillWorker
      BY <1>0, <1>1, <1>5 DEF KillWorker
    <3>4. UNCHANGED sweep
      <4>1. CASE \E e \in Emitters : ReadAnchors(e) \/ Snapshot(e) \/ Write(e)
        <5>1. PICK e \in Emitters : ReadAnchors(e) \/ Snapshot(e) \/ Write(e)
          BY <4>1
        <5>2. ~(e = "sweep" /\ Write(e))
          BY <1>0, <1>1, <1>5 DEF Write
        <5> QED BY <5>1, <5>2 DEF ReadAnchors, Snapshot, Write
      <4>2. CASE ~\E e \in Emitters : ReadAnchors(e) \/ Snapshot(e) \/ Write(e)
        BY <3>2, <3>3, <4>2 DEF Next, vars, ReadTail, Insert, VerifyList, VerifyAnchors, VerifySeals,
           VerifyStream, LoseTail
      <4> QED BY <4>1, <4>2
    <3> QED BY <3>1, <3>4
  <2> QED BY <1>0, <1>4, <1>5, <2>1
<1>6. CASE UNCHANGED <<cps, counts, tombs>> /\ sweep' = NoSweep /\ emit' = [emit EXCEPT !["sweep"] = NoEmission]
  <2>1. HeadsFit({})
    BY DEF HeadsFit
  <2>2. emit' \in [Emitters -> EmitTypes] /\ emit'["sweep"] = NoEmission
        /\ \A e \in Emitters : emit'[e].heads = emit[e].heads \/ emit'[e].heads = {}
    BY <1>0, <1>1, <1>6
  <2> QED BY <1>0, <1>1, <1>4, <1>6, <2>1, <2>2
<1>7. ASSUME NEW e \in Emitters, ReadAnchors(e) PROVE AnchorsFit'
  <2> DEFINE y == [NoEmission EXCEPT !.stage = "numbered", !.seq = NextSeq(cps)]
  <2>1. y \in EmitTypes /\ y.stage = "numbered" /\ y.heads = {}
    BY <1>0, NextSeqIs DEF NoEmission, EmitTypes
  <2>2. /\ emit' = [emit EXCEPT ![e] = y] /\ UNCHANGED <<cps, sweep, tombs>>
        /\ e = "sweep" => sweep.stage = "anchoring"
    BY <1>7 DEF ReadAnchors, MayEmit
  <2> HIDE DEF y
  <2>3. HeadsFit({})
    BY DEF HeadsFit
  <2>4. /\ emit' \in [Emitters -> EmitTypes]
        /\ \A d \in Emitters : emit'[d] = IF d = e THEN y ELSE emit[d]
    BY <1>0, <2>1, <2>2
  <2> QED BY <1>0, <1>4, <2>1, <2>2, <2>3, <2>4
<1>8. ASSUME NEW e \in Emitters, Snapshot(e) PROVE AnchorsFit'
  <2> DEFINE H == {HeadOf(s) : s \in {t \in Streams : rows[t] # {}}}
             y == [stage |-> "cut", seq |-> emit[e].seq, heads |-> H, sealed |-> tombs]
  <2>1. HeadsFit(H) /\ H \subseteq Heads
    BY CutFits DEF HeadsFit
  <2> HIDE DEF H
  <2>2. y \in EmitTypes /\ y.stage = "cut" /\ y.heads = H /\ y.sealed = tombs
    BY <1>0, <2>1 DEF EmitTypes
  <2>3. /\ emit' = [emit EXCEPT ![e] = y] /\ UNCHANGED <<cps, sweep, tombs>>
        /\ emit[e].stage = "numbered"
    BY <1>0, <1>8 DEF Snapshot, H
  <2> HIDE DEF y
  <2>4. /\ emit' \in [Emitters -> EmitTypes]
        /\ \A d \in Emitters : emit'[d] = IF d = e THEN y ELSE emit[d]
    BY <1>0, <2>2, <2>3
  <2> QED BY <1>0, <1>4, <2>1, <2>2, <2>3, <2>4
<1>9. ASSUME NEW e \in Emitters, Write(e) PROVE AnchorsFit'
  <2> DEFINE c == [seq |-> emit[e].seq, heads |-> emit[e].heads, sealed |-> emit[e].sealed]
  <2>1. c \in Checkpoints /\ HeadsFit(c.heads)
    BY <1>0 DEF Checkpoints, EmitTypes
  <2>2. /\ \/ cps' = Append(cps, c)
           \/ \E i \in DOMAIN cps : cps' = [cps EXCEPT ![i] = c]
           \/ UNCHANGED cps
        /\ emit' = [emit EXCEPT ![e] = NoEmission] /\ UNCHANGED tombs
        /\ sweep' = IF e = "sweep" THEN NoSweep ELSE sweep
    BY <1>9 DEF Write
  <2> HIDE DEF c
  <2>3. cps' \in Seq(Checkpoints) /\ \A i \in DOMAIN cps' : (cps'[i] = c \/ (i \in DOMAIN cps /\ cps'[i] = cps[i]))
    <3>0. cps \in Seq(Checkpoints) /\ c \in Checkpoints
      BY <1>0, <2>1
    <3>1. CASE cps' = Append(cps, c)
      BY <3>0, <3>1
    <3>2. CASE \E i \in DOMAIN cps : cps' = [cps EXCEPT ![i] = c]
      <4>1. PICK i \in DOMAIN cps : cps' = [cps EXCEPT ![i] = c]
        BY <3>2
      <4> QED BY <3>0, <4>1
    <3>3. CASE UNCHANGED cps
      BY <3>0, <3>3
    <3> QED BY <2>2, <3>1, <3>2, <3>3
  <2>4. \A i \in DOMAIN cps' : \E H : H = cps'[i].heads /\ HeadsFit(H)
    BY <1>0, <2>1, <2>3
  <2>5. /\ emit' \in [Emitters -> EmitTypes]
        /\ \A d \in Emitters : emit'[d] = IF d = e THEN NoEmission ELSE emit[d]
    BY <1>0, <1>1, <2>2
  <2>6. HeadsFit({})
    BY DEF HeadsFit
  <2> QED BY <1>0, <1>1, <1>4, <2>2, <2>3, <2>4, <2>5, <2>6
<1> QED BY <1>5, <1>6, <1>7, <1>8, <1>9, EmitOwners

-----------------------------------------------------------------------------
LEMMA VerifyOwners ==
    ASSUME [Next]_vars
    PROVE  \/ UNCHANGED verify
           \/ VerifyList \/ VerifyAnchors \/ VerifySeals
           \/ \E s \in Streams : VerifyStream(s)
<1>1. CASE \E s \in Streams : Prove(s) \/ VerifyStream(s)
  BY <1>1 DEF Prove
<1>2. CASE \E e \in Emitters : ReadAnchors(e) \/ Snapshot(e) \/ Write(e)
  BY <1>2 DEF ReadAnchors, Snapshot, Write
<1>3. CASE ListCandidates \/ StageTombstone \/ Seal \/ EndSweep \/ KillWorker
            \/ VerifyList \/ VerifyAnchors \/ VerifySeals \/ UNCHANGED vars
  BY <1>3 DEF ListCandidates, StageTombstone, Seal, EndSweep, KillWorker, vars
<1>4. CASE \E s \in Streams, p \in {NoTail} \cup Positions : LoseTail(s, p)
  BY <1>4 DEF LoseTail
<1>5. CASE \E a \in Appenders, n \in 1..MaxBatch, terminal \in BOOLEAN : Insert(a, n, terminal)
  BY <1>5 DEF Insert
<1>6. CASE \E a \in Appenders, s \in Streams : ReadTail(a, s)
  BY <1>6 DEF ReadTail
<1> QED BY <1>1, <1>2, <1>3, <1>4, <1>5, <1>6 DEF Next

VerifyTypes ==
    [stage : {"idle", "listed", "walking", "done"}, todo : SUBSET Streams,
     cps : Seq(Checkpoints), seen : [Streams -> SUBSET Rows], sealed : SUBSET Seals,
     report : {"none", "ok", "missing", "broken"}, lostBefore : SUBSET Hashes,
     listed : SUBSET Streams]

(* What the verifier compares, in the terms of what it saw: a stream whose *)
(* chain it accepted holds the row of every head it did not object to.     *)
LEMMA NotContradicted ==
    ASSUME NEW R \in SUBSET Rows, OnePer(R), ChainOk(R), R # {}, NEW h \in Heads, ~Contradicts(R, h)
    PROVE  \E r \in R : r.pos = h.pos /\ r.hash = h.hash
<1>1. h.pos \in Nat /\ TailPos(R) \in Nat
  BY ChainAssumption, TailIs DEF Heads, Positions
<1>2. h.pos <= TailPos(R)
  BY <1>1 DEF Contradicts
<1>3. PICK q \in R : q.pos = TailPos(R)
  BY TailIs
<1>4. h.pos \in 0..q.pos
  BY <1>1, <1>2, <1>3
<1>5. Has(R, h.pos)
  BY <1>4, ChainIsContiguous
<1>6. At(R, h.pos) \in R /\ At(R, h.pos).pos = h.pos
  BY <1>5, AtIs
<1> QED BY <1>5, <1>6 DEF Contradicts

(* Conversely a head whose row is there is not objected to. *)
LEMMA HeldNotContradicted ==
    ASSUME NEW R \in SUBSET Rows, OnePer(R), \A q, r \in R : q.hash = r.hash => q = r,
           NEW h, NEW r \in R, r.pos = h.pos, r.hash = h.hash
    PROVE  ~Contradicts(R, h)
<1>1. /\ TailPos(R) \in Positions /\ r.pos <= TailPos(R) /\ r.pos \in Nat /\ TailPos(R) \in Nat
  BY ChainAssumption, TailIs, RowTypes DEF Positions
<1>2. /\ At(R, TailPos(R)) \in R /\ At(R, TailPos(R)).pos = TailPos(R)
      /\ HeadHash(R) = At(R, TailPos(R)).hash
      /\ \A q \in R : q.pos = TailPos(R) => At(R, TailPos(R)) = q
  BY HeadIs
<1>3. ~(h.pos > TailPos(R))
  BY <1>1
<1>4. (h.pos = TailPos(R)) = (h.hash = HeadHash(R))
  <2>1. h.pos = TailPos(R) => h.hash = HeadHash(R)
    BY <1>2
  <2>2. h.hash = HeadHash(R) => h.pos = TailPos(R)
    BY <1>2
  <2> QED BY <2>1, <2>2
<1>5. Has(R, h.pos) => At(R, h.pos).hash = h.hash
  BY AtIs
<1> QED BY <1>3, <1>4, <1>5 DEF Contradicts

(* The report of a finished walk. *)
LEMMA ReportFits ==
    ASSUME ChainInv, VerifySeals
    PROVE  LossIsReported' /\ AlarmsAreExplained'
<1>0. /\ verify \in VerifyTypes /\ tombs \subseteq Seals /\ \A s \in Streams : SeenFits(s)
      /\ \A i \in DOMAIN verify.cps : verify.cps[i] \in Checkpoints /\ HeadsFit(verify.cps[i].heads)
      /\ verify.stage = "walking" /\ verify.todo = {}
  BY DEF ChainInv, VerifyFits, VerifyTypes, AnchorsFit, VerifySeals
<1>1. PICK stale \in BOOLEAN :
         verify' = [verify EXCEPT !.stage = "done", !.sealed = tombs, !.report = RollUp(tombs, stale)]
  BY DEF VerifySeals
<1>2. /\ verify'.cps = verify.cps /\ verify'.seen = verify.seen /\ verify'.sealed = tombs
      /\ verify'.report = RollUp(tombs, stale) /\ verify'.lostBefore = verify.lostBefore
      /\ verify'.listed = verify.listed /\ UNCHANGED <<tombs, counts>>
  BY <1>0, <1>1 DEF VerifyTypes, VerifySeals
<1>3. \A h \in AnchoredHeads(verify.cps) : h \in Heads /\ h.stream \in Streams
  BY <1>0 DEF AnchoredHeads, HeadsFit, Heads
<1>4. \A i \in DOMAIN verify.cps : \A h \in verify.cps[i].heads : h \in AnchoredHeads(verify.cps)
  BY DEF AnchoredHeads
<1>5. LossIsReported'
  <2> SUFFICES ASSUME RollUp(tombs, stale) = "ok", NEW h \in AnchoredHeads(verify.cps),
                      h.hash \in verify.lostBefore, \A t \in tombs : t.stream # h.stream
               PROVE  FALSE
    BY <1>2, <1>4 DEF LossIsReported
  <2>1. verify.cps # << >> /\ ~AnchorBroken(tombs)
    BY DEF RollUp
  <2>2. Live(h.stream) /\ ~Contradicts(verify.seen[h.stream], h)
    BY <2>1 DEF AnchorBroken
  <2>3. /\ verify.seen[h.stream] \in SUBSET Rows /\ OnePer(verify.seen[h.stream])
        /\ \A r \in verify.seen[h.stream] : r.hash \notin verify.lostBefore
    BY <1>0, <1>3 DEF SeenFits
  <2>4. PICK r \in verify.seen[h.stream] : r.hash = h.hash
    BY <1>3, <2>2, <2>3, NotContradicted DEF Live
  <2> QED BY <2>3, <2>4
<1>6. AlarmsAreExplained'
  <2> SUFFICES ASSUME RollUp(tombs, stale) = "broken", ~(counts.losses > 0),
                      \A t \in tombs : t \in AnchoredSeals(verify.cps) /\ verify.seen[t.stream] = {},
                      \A h \in AnchoredHeads(verify.cps) : h.stream \in verify.listed,
                      ~ForkedSeq(verify.cps)
               PROVE  FALSE
    BY <1>2 DEF AlarmsAreExplained
  <2>1. counts.losses = 0
    BY DEF ChainInv, AnchorsFit
  <2>2. \A s \in Streams : ChainOk(verify.seen[s])
    <3> SUFFICES ASSUME NEW s \in Streams PROVE ChainOk(verify.seen[s])
      OBVIOUS
    <3>1. CASE Quiet(s)
      BY <1>0, <3>1 DEF SeenFits
    <3>2. CASE ~Quiet(s)
      BY <2>1, <3>2 DEF Quiet, ChainOk
    <3> QED BY <3>1, <3>2
  <2>3. verify.listed \subseteq Streams
    BY <1>0 DEF VerifyTypes
  <2>4. AnchorBroken(tombs)
    BY <2>2, <2>3 DEF RollUp
  <2>5. PICK h \in AnchoredHeads(verify.cps) :
            IF Live(h.stream) THEN Contradicts(verify.seen[h.stream], h)
                              ELSE \A t \in tombs : t.stream # h.stream
    BY <2>4 DEF AnchorBroken
  <2>6. h \in Heads /\ h.stream \in Streams /\ h.stream \in verify.listed
    BY <1>3
  <2>7. Quiet(h.stream)
    BY <2>1, <2>5 DEF Live, Quiet
  <2>8. PICK r \in verify.seen[h.stream] : r.pos = h.pos /\ r.hash = h.hash
    BY <1>0, <2>6, <2>7 DEF SeenFits
  <2>9. Live(h.stream)
    BY <2>2, <2>6, <2>8 DEF Live
  <2>10. /\ verify.seen[h.stream] \in SUBSET Rows /\ OnePer(verify.seen[h.stream])
         /\ \A p, q \in verify.seen[h.stream] : p.hash = q.hash => p = q
    BY <1>0, <2>6 DEF SeenFits
  <2>11. ~Contradicts(verify.seen[h.stream], h)
    BY <2>8, <2>10, HeldNotContradicted
  <2> QED BY <2>5, <2>9, <2>11
<1> QED BY <1>5, <1>6

(* What SeenFits asks, of the rows S seen of stream s. *)
LEMMA SeenIs ==
    ASSUME NEW s \in Streams, verify'.seen[s] \subseteq Rows, OnePer(verify'.seen[s]),
           \A q, r \in verify'.seen[s] : q.hash = r.hash => q = r,
           \A r \in verify'.seen[s] : r.hash \notin verify'.lostBefore,
           Quiet(s)' => ChainOk(verify'.seen[s]),
           Quiet(s)' /\ verify'.stage = "walking" /\ s \in verify'.listed \ verify'.todo =>
              \A h \in AnchoredHeads(verify'.cps) :
                  h.stream = s => \E r \in verify'.seen[s] : r.pos = h.pos /\ r.hash = h.hash
    PROVE  SeenFits(s)'
BY DEF SeenFits, OnePer, ChainOk, Has, At, AnchoredHeads

LEMMA VerifyPreserved ==
    ASSUME ChainInv, [Next]_vars
    PROVE  VerifyFits'
<1>0. /\ VerifyFits /\ verify \in VerifyTypes /\ verify.lostBefore \subseteq lost /\ lost \subseteq lost'
      /\ lost \subseteq Hashes /\ cps \in Seq(Checkpoints) /\ tombs \subseteq Seals
      /\ \A i \in DOMAIN verify.cps : HeadsFit(verify.cps[i].heads)
      /\ \A s \in Streams : SeenFits(s)
      /\ verify.stage # "done" => verify.report = "none"
      /\ verify.stage = "listed" => verify.todo = verify.listed
  BY RowsPreserved DEF ChainInv, VerifyFits, VerifyTypes, LostFits, AnchorsFit
<1>1. ASSUME verify' \in VerifyTypes, verify'.lostBefore \subseteq lost',
             \A i \in DOMAIN verify'.cps : \E H : H = verify'.cps[i].heads /\ HeadsFit(H),
             \A s \in Streams : SeenFits(s)',
             verify'.stage # "done" => verify'.report = "none",
             verify'.stage = "listed" => verify'.todo = verify'.listed,
             LossIsReported', AlarmsAreExplained'
      PROVE  VerifyFits'
  <2>1. ASSUME NEW i \in DOMAIN verify'.cps PROVE HeadsFit(verify.cps[i].heads)'
    <3>1. PICK H : H = verify'.cps[i].heads /\ HeadsFit(H)
      BY <1>1, <2>1
    <3>2. HeadsFit(H)'
      BY <3>1, HeadsOnward
    <3> QED BY <3>1, <3>2 DEF HeadsFit
  <2> QED BY <1>1, <2>1 DEF VerifyFits, VerifyTypes
<1>2. verify'.report = "none" => LossIsReported' /\ AlarmsAreExplained'
  BY DEF LossIsReported, AlarmsAreExplained
<1>3. ASSUME NEW s \in Streams, verify'.seen[s] = verify.seen[s], verify'.lostBefore = verify.lostBefore,
             verify'.cps = verify.cps, verify'.stage = "walking" => verify.stage = "walking",
             s \in verify'.listed \ verify'.todo => s \in verify.listed \ verify.todo
      PROVE  SeenFits(s)'
  <2>1. SeenFits(s) /\ (Quiet(s)' => Quiet(s))
    BY <1>0, Onward
  <2> QED BY <1>3, <2>1, SeenIs DEF SeenFits
<1>4. CASE UNCHANGED verify
  <2>1. \A s \in Streams : SeenFits(s)'
    BY <1>3, <1>4
  <2>2. LossIsReported /\ AlarmsAreExplained
    BY <1>0 DEF VerifyFits
  <2>3. LossIsReported'
    BY <1>4, <2>2 DEF LossIsReported
  <2>4. counts.losses > 0 => counts'.losses > 0
    <3>1. counts.losses \in Nat /\ (Still \/ Grows \/ SealsOne \/ Loses)
      BY StepKinds DEF ChainInv, AnchorsFit
    <3> QED BY <3>1 DEF Still, Grows, SealsOne, Loses
  <2>5. AlarmsAreExplained'
    BY <1>4, <2>2, <2>4 DEF AlarmsAreExplained, AnchoredSeals, AnchoredHeads, ForkedSeq, Seqs
  <2> QED BY <1>0, <1>1, <1>4, <2>1, <2>3, <2>5
<1>5. CASE VerifyList
  <2> DEFINE live == {s \in Streams : rows[s] # {}}
  <2>1. verify' = [NoVerify EXCEPT !.stage = "listed", !.listed = live, !.todo = live, !.lostBefore = lost]
    BY <1>5 DEF VerifyList
  <2>2. << >> \in Seq(Checkpoints) /\ live \subseteq Streams
    OBVIOUS
  <2> HIDE DEF live
  <2>3. /\ verify' \in VerifyTypes /\ verify'.stage = "listed" /\ verify'.report = "none"
        /\ verify'.todo = verify'.listed /\ verify'.lostBefore = lost /\ verify'.cps = << >>
        /\ \A s \in Streams : verify'.seen[s] = {}
    BY <1>0, <2>1, <2>2 DEF NoVerify, VerifyTypes
  <2>4. \A s \in Streams : SeenFits(s)'
    <3> SUFFICES ASSUME NEW s \in Streams PROVE SeenFits(s)'
      OBVIOUS
    <3>1. OnePer({}) /\ ChainOk({})
      BY DEF OnePer, ChainOk
    <3> QED BY <2>3, <3>1, SeenIs
  <2> QED BY <1>0, <1>1, <1>2, <2>3, <2>4
<1>6. CASE VerifyAnchors
  <2>1. /\ verify' = [verify EXCEPT !.stage = "walking", !.cps = cps] /\ verify.stage = "listed"
    BY <1>6 DEF VerifyAnchors
  <2>2. /\ verify' \in VerifyTypes /\ verify'.stage = "walking" /\ verify'.report = verify.report
        /\ verify'.todo = verify.todo /\ verify'.listed = verify.listed /\ verify'.lostBefore = verify.lostBefore
        /\ verify'.cps = cps /\ verify'.seen = verify.seen
    BY <1>0, <2>1 DEF VerifyTypes
  <2>3. \A i \in DOMAIN cps : HeadsFit(cps[i].heads)
    BY DEF ChainInv, AnchorsFit
  <2>4. \A s \in Streams : SeenFits(s)'
    <3> SUFFICES ASSUME NEW s \in Streams PROVE SeenFits(s)'
      OBVIOUS
    <3>1. SeenFits(s) /\ (Quiet(s)' => Quiet(s))
      BY <1>0, Onward
    <3> QED BY <1>0, <2>1, <2>2, <3>1, SeenIs DEF SeenFits
  <2> QED BY <1>0, <1>1, <1>2, <2>1, <2>2, <2>3, <2>4
<1>7. ASSUME NEW s \in Streams, VerifyStream(s) PROVE VerifyFits'
  <2>1. /\ verify' = [verify EXCEPT !.todo = @ \ {s}, !.seen[s] = rows[s]] /\ verify.stage = "walking"
        /\ UNCHANGED <<rows, tombs, counts>>
    BY <1>7 DEF VerifyStream
  <2>2. /\ rows[s] \in SUBSET Rows /\ OnePer(rows[s]) /\ (Quiet(s) => ChainOk(rows[s]))
        /\ \A q, r \in rows[s] : q.hash = r.hash => q = r
        /\ \A r \in rows[s] : r.hash \notin lost
    BY DEF ChainInv, RowsFit, Chained, LostFits
  <2>3. /\ verify' \in VerifyTypes /\ verify'.stage = "walking" /\ verify'.report = verify.report
        /\ verify'.todo = verify.todo \ {s} /\ verify'.listed = verify.listed /\ verify'.lostBefore = verify.lostBefore
        /\ verify'.cps = verify.cps /\ verify'.seen[s] = rows[s]
        /\ \A t \in Streams \ {s} : verify'.seen[t] = verify.seen[t]
    BY <1>0, <2>1, <2>2 DEF VerifyTypes
  <2>4. SeenFits(s)'
    <3>1. Quiet(s)' = Quiet(s)
      BY <2>1 DEF Quiet
    <3>2. \A h \in AnchoredHeads(verify.cps) :
             h.stream = s /\ Quiet(s) => \E r \in rows[s] : r.pos = h.pos /\ r.hash = h.hash
      BY <1>0 DEF AnchoredHeads, HeadsFit, Held
    <3> QED BY <1>0, <2>2, <2>3, <3>1, <3>2, SeenIs
  <2>5. \A t \in Streams \ {s} : SeenFits(t)'
    BY <1>3, <2>1, <2>3
  <2> QED BY <1>0, <1>1, <1>2, <2>1, <2>3, <2>4, <2>5
<1>8. CASE VerifySeals
  <2>1. PICK stale \in BOOLEAN :
           verify' = [verify EXCEPT !.stage = "done", !.sealed = tombs, !.report = RollUp(tombs, stale)]
    BY <1>8 DEF VerifySeals
  <2>2. RollUp(tombs, stale) \in {"none", "ok", "missing", "broken"}
    BY DEF RollUp
  <2>3. /\ verify' \in VerifyTypes /\ verify'.stage = "done"
        /\ verify'.todo = verify.todo /\ verify'.listed = verify.listed /\ verify'.lostBefore = verify.lostBefore
        /\ verify'.cps = verify.cps /\ verify'.seen = verify.seen
    BY <1>0, <2>1, <2>2 DEF VerifyTypes
  <2>4. \A s \in Streams : SeenFits(s)'
    BY <1>3, <2>3
  <2> QED BY <1>0, <1>1, <1>8, <2>3, <2>4, ReportFits
<1> QED BY <1>4, <1>5, <1>6, <1>7, <1>8, VerifyOwners

-----------------------------------------------------------------------------
LEMMA ChainStep == ChainInv /\ [Next]_vars => ChainInv'
<1> SUFFICES ASSUME ChainInv, [Next]_vars PROVE ChainInv'
  OBVIOUS
<1>1. gated' \subseteq Streams
  <2>1. gated' = gated
    BY SweepOwners DEF ListCandidates, StageTombstone, Seal, EndSweep, Prove
  <2> QED BY <2>1 DEF ChainInv
<1> QED BY <1>1, RowsPreserved, AppendsPreserved, ChainedPreserved, SweepPreserved, AnchorsPreserved,
           VerifyPreserved DEF ChainInv

LEMMA ChainAlways == Spec => []ChainInv
BY ChainInit, ChainStep, PTL DEF Spec

(* Whatever appends race each other through append_with_conn, the rows of  *)
(* a stream that was not sealed and lost nothing are one chain from the    *)
(* genesis hash: the unlocked tail read and the unique index suffice, for  *)
(* any number of appenders, streams and batch sizes.                       *)
THEOREM AppendsMakeOneChain == Spec => []OneChain
<1>1. ChainInv => OneChain
  BY DEF ChainInv, Chained, Quiet, OneChain
<1> QED BY <1>1, ChainAlways, PTL

(* verify-event-chain does not report ok while a checkpoint it read names  *)
(* a lost event of a stream that is not sealed.                            *)
THEOREM LossesAreReported == Spec => []LossIsReported
<1>1. ChainInv => LossIsReported
  BY DEF ChainInv, VerifyFits
<1> QED BY <1>1, ChainAlways, PTL

(* A break that verify-event-chain reports while appends, sweeps and       *)
(* emissions go on has one of the named explanations.                      *)
THEOREM AlarmsHaveExplanations == Spec => []AlarmsAreExplained
<1>1. ChainInv => AlarmsAreExplained
  BY DEF ChainInv, VerifyFits
<1> QED BY <1>1, ChainAlways, PTL

(* seal_and_remove removes the whole chain its caller proved, up to the    *)
(* head its tombstone names, and nothing newer.                            *)
THEOREM SealsAreProved == Spec => SealsWhatWasProved
<1> DEFINE Proved(t) ==
        LET R == rows[t.stream]
        IN  /\ R # {} /\ rows'[t.stream] = {}
            /\ TailPos(R) = sweep.proven /\ HeadHash(R) = t.hash
            /\ Cardinality(R) = TailPos(R) + 1
            /\ t.stream \in gated => At(R, TailPos(R)).terminal
<1>1. ASSUME ChainInv, [Next]_vars, counts.losses = 0, NEW t \in tombs' \ tombs PROVE Proved(t)
  <2>1. SealsOne
    BY <1>1, StepKinds DEF Still, Grows, Loses
  <2>2. /\ sweep.stage = "staged" /\ t = [stream |-> sweep.stream, hash |-> sweep.head]
        /\ CountMatches(rows[sweep.stream])
        /\ rows' = [rows EXCEPT ![sweep.stream] = @ \ Removed(rows[sweep.stream])]
    BY <1>1, <2>1 DEF SealsOne
  <2> DEFINE s == sweep.stream
             R == rows[s]
  <2>3. /\ s \in Streams /\ sweep.proven \in Nat
    BY <1>1, <2>2, ChainAssumption DEF ChainInv, SweepFits, Positions
  <2>4. PICK r \in R : r.pos = sweep.proven /\ r.hash = sweep.head /\ (s \in gated => r.terminal)
    BY <1>1, <2>2 DEF ChainInv, SweepFits
  <2>5. t.stream = s /\ t.hash = sweep.head
    BY <2>2
  <2>6. R \in SUBSET Rows /\ OnePer(R) /\ R # {} /\ rows \in [Streams -> SUBSET Rows]
    BY <1>1, <2>3, <2>4 DEF ChainInv, RowsFit
  <2>7. Removed(R) = R /\ \A q \in R : q.pos <= sweep.proven
    <3>1. Cardinality({}) = 0
      BY FS_EmptySet
    <3> QED BY <2>2, <2>3, <3>1 DEF CountMatches, Removed
  <2>8. Cardinality(R) = sweep.proven + 1
    BY <2>2, <2>7 DEF CountMatches
  <2>9. rows'[s] = {}
    BY <2>2, <2>3, <2>6, <2>7
  <2>10. TailPos(R) = sweep.proven
    <3>1. TailPos(R) \in Positions /\ (\A q \in R : q.pos <= TailPos(R)) /\ \E q \in R : q.pos = TailPos(R)
      BY <2>6, TailIs
    <3> QED BY <2>3, <2>4, <2>7, <3>1, ChainAssumption DEF Positions
  <2>11. At(R, TailPos(R)) = r /\ HeadHash(R) = r.hash
    BY <2>4, <2>6, <2>10, HeadIs
  <2> QED BY <2>4, <2>5, <2>6, <2>8, <2>9, <2>10, <2>11
<1>2. ChainInv /\ [Next]_vars => [counts.losses = 0 => \A t \in tombs' \ tombs : Proved(t)]_vars
  BY <1>1
<1> QED BY <1>2, ChainAlways, PTL DEF Spec, SealsWhatWasProved

(* The checkpoint that closes a sweep (eventstore_archive.rs) anchors every*)
(* seal there is.                                                          *)
THEOREM SealsAreAnchored == Spec => SweepAnchorsItsSeals
<1>1. ASSUME ChainInv, [Next]_vars, sweep.stage = "anchoring", sweep'.stage = "idle", cps' # cps
      PROVE  tombs \subseteq AnchoredSeals(cps')
  <2>1. PICK e \in Emitters : Write(e)
    BY <1>1, EmitOwners DEF ReadAnchors, Snapshot
  <2>2. e = "sweep"
    BY <1>1, <2>1 DEF Write
  <2> DEFINE c == [seq |-> emit[e].seq, heads |-> emit[e].heads, sealed |-> emit[e].sealed]
  <2>3. c.sealed = tombs /\ cps \in Seq(Checkpoints)
    BY <1>1, <2>1, <2>2 DEF ChainInv, AnchorsFit, Write
  <2>4. cps' = Append(cps, c) \/ \E i \in DOMAIN cps : cps' = [cps EXCEPT ![i] = c]
    BY <1>1, <2>1 DEF Write
  <2> HIDE DEF c
  <2>5. \E i \in DOMAIN cps' : cps'[i] = c
    BY <2>3, <2>4
  <2> QED BY <2>3, <2>5 DEF AnchoredSeals
<1>2. ChainInv /\ [Next]_vars =>
        [sweep.stage = "anchoring" /\ sweep'.stage = "idle" /\ cps' # cps => tombs \subseteq AnchoredSeals(cps')]_vars
  BY <1>1
<1> QED BY <1>2, ChainAlways, PTL DEF Spec, SweepAnchorsItsSeals
=============================================================================
