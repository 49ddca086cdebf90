----------------------------- MODULE EventChain -----------------------------
(***************************************************************************)
(* The hash-chained event table, the retention sweep that seals and        *)
(* removes whole streams, the checkpoints that anchor the stream heads     *)
(* outside the database, and the verifier that compares the two.  Nothing  *)
(* here takes a lock: appends are serialised by the unique index on        *)
(* (stream_id, stream_position) alone, and every other actor works from    *)
(* reads that may be stale when it acts.                                   *)
(*                                                                         *)
(* A hash is the number its event was minted under: the chain's hashes     *)
(* cover the stream, the position, the payload and the predecessor, and    *)
(* are taken to collide for no two events.                                 *)
(***************************************************************************)
EXTENDS Integers, FiniteSets, Sequences

CONSTANTS
    Streams,
    Appenders,
    MaxEvents,      \* bound: events minted
    MaxBatch,       \* bound: events in one append
    MaxSweeps, MaxCheckpoints, MaxVerifies, MaxLosses \* bounds

ASSUME ChainAssumption ==
    /\ MaxEvents \in Nat /\ MaxBatch \in Nat \ {0}
    /\ MaxSweeps \in Nat /\ MaxCheckpoints \in Nat /\ MaxVerifies \in Nat /\ MaxLosses \in Nat

VARIABLES
    gated,   \* streams of the categories sealed only after their terminal event; never changes
    rows,    \* [Streams -> the committed rows of the stream]
    minted,  \* events minted so far
    append,  \* [Appenders -> the tail an append has read and not yet built on]
    sweep,   \* the retention sweep: its stage and what its proofs read
    tombs,   \* the StreamSealed records of the audit-meta stream
    cps,     \* the checkpoints in the anchor store
    emit,    \* [Emitters -> how far a checkpoint emission is]
    verify,  \* the verify-event-chain run
    lost,    \* history: events lost
    counts   \* sweeps, verifications and losses so far

vars == <<gated, rows, minted, append, sweep, tombs, cps, emit, verify, lost, counts>>

Genesis == 0
NoTail == -1
NoStream == "none"
Hashes == 1..MaxEvents
Positions == 0..(MaxEvents - 1)
Emitters == {"tick", "sweep"}

Rows == [pos : Positions, hash : Hashes, prev : Hashes \cup {Genesis}, terminal : BOOLEAN]
Heads == [stream : Streams, pos : Positions, hash : Hashes]
Seals == [stream : Streams, hash : Hashes]

Has(R, p) == \E r \in R : r.pos = p
At(R, p) == CHOOSE r \in R : r.pos = p
TailPos(R) == IF R = {} THEN NoTail ELSE CHOOSE p \in {r.pos : r \in R} : \A r \in R : r.pos <= p
HeadHash(R) == IF R = {} THEN Genesis ELSE At(R, TailPos(R)).hash

NoAppend == [stream |-> NoStream, tail |-> NoTail, head |-> Genesis]
NoSweep == [stage |-> "idle", tails |-> [s \in Streams |-> NoTail], todo |-> {}, sealed |-> FALSE,
            stream |-> NoStream, proven |-> NoTail, head |-> Genesis]
NoEmission == [stage |-> "idle", seq |-> 0, heads |-> {}, sealed |-> {}]
NoVerify == [stage |-> "idle", todo |-> {}, cps |-> << >>, seen |-> [s \in Streams |-> {}],
             sealed |-> {}, report |-> "none", lostBefore |-> {}, listed |-> {}]

Init ==
    /\ gated \in SUBSET Streams
    /\ rows = [s \in Streams |-> {}]
    /\ minted = 0
    /\ append = [a \in Appenders |-> NoAppend]
    /\ sweep = NoSweep
    /\ tombs = {}
    /\ cps = << >>
    /\ emit = [e \in Emitters |-> NoEmission]
    /\ verify = NoVerify
    /\ lost = {}
    /\ counts = [sweeps |-> 0, verifies |-> 0, losses |-> 0]

-----------------------------------------------------------------------------
(* Appending.  The transaction reads the tail without a lock, checks the   *)
(* caller's expected version against it, and builds on what it read.  An   *)
(* expected version that does not match ends the append with no effect.    *)

ReadTail(a, s) ==
    /\ append[a] = NoAppend
    /\ minted < MaxEvents
    /\ append' = [append EXCEPT ![a] = [stream |-> s, tail |-> TailPos(rows[s]), head |-> HeadHash(rows[s])]]
    /\ UNCHANGED <<gated, rows, minted, sweep, tombs, cps, emit, verify, lost, counts>>

(* Mutant: every row of a batch chains from the tail. *)
BatchUnlinked(x, n, terminal) ==
    {[pos |-> x.tail + i, hash |-> minted + i, prev |-> x.head,
      terminal |-> terminal /\ i = n] : i \in 1..n}

(* The rows of a batch of n chain from the tail that was read. *)
Batch(x, n, terminal) ==
    {[pos |-> x.tail + i, hash |-> minted + i,
      prev |-> IF i = 1 THEN x.head ELSE minted + i - 1,
      terminal |-> terminal /\ i = n] : i \in 1..n}

(* The unique index refuses a position that is taken. *)
Clashes(s, batch) == \E r \in batch : Has(rows[s], r.pos)

Insert(a, n, terminal) ==
    LET x == append[a]
        batch == Batch(x, n, terminal)
    IN  /\ x # NoAppend
        /\ terminal => x.stream \in gated
        /\ minted + n <= MaxEvents
        /\ append' = [append EXCEPT ![a] = NoAppend]
        /\ IF Clashes(x.stream, batch)
           THEN UNCHANGED <<rows, minted>>
           ELSE /\ rows' = [rows EXCEPT ![x.stream] = @ \cup batch]
                /\ minted' = minted + n
        /\ UNCHANGED <<gated, sweep, tombs, cps, emit, verify, lost, counts>>

-----------------------------------------------------------------------------
(* The retention sweep (single flight).  It lists the streams with their   *)
(* tails, proves each one, and seals it if the stream is still at the      *)
(* version the proof was read at.  A step that fails, or finds the stream  *)
(* moved, leaves the stream whole for the next sweep.                      *)

ListCandidates ==
    /\ sweep.stage = "idle" /\ counts.sweeps < MaxSweeps
    /\ sweep' = [NoSweep EXCEPT !.stage = "sweeping", !.tails = [s \in Streams |-> TailPos(rows[s])],
                                !.todo = {s \in Streams : rows[s] # {}}]
    /\ counts' = [counts EXCEPT !.sweeps = @ + 1]
    /\ UNCHANGED <<gated, rows, minted, append, tombs, cps, emit, verify, lost>>

NextStream == [sweep EXCEPT !.stage = "sweeping", !.stream = NoStream, !.proven = NoTail, !.head = Genesis]

ProvenTerminal(s) == rows[s] # {} /\ At(rows[s], TailPos(rows[s])).terminal

(* A gated stream is read again and proved terminal at that read's tail;   *)
(* an age-gated one stands at the tail the listing saw.  A stream whose    *)
(* floor has not elapsed, like one that cannot be proved, is skipped.      *)
Prove(s) ==
    /\ sweep.stage = "sweeping" /\ s \in sweep.todo
    /\ \/ sweep' = [sweep EXCEPT !.todo = @ \ {s}]
       \/ /\ s \in gated => ProvenTerminal(s)
          /\ sweep' = [sweep EXCEPT
                 !.todo = @ \ {s}, !.stage = "proven", !.stream = s,
                 !.proven = IF s \in gated THEN TailPos(rows[s]) ELSE sweep.tails[s]]
    /\ UNCHANGED <<gated, rows, minted, append, tombs, cps, emit, verify, lost, counts>>

AtProvenTail(R) == R # {} /\ TailPos(R) = sweep.proven

(* The seal transaction reads the head and stages the tombstone. *)
StageTombstone ==
    /\ sweep.stage = "proven"
    /\ LET R == rows[sweep.stream]
       IN  \/ AtProvenTail(R) /\ sweep' = [sweep EXCEPT !.stage = "staged", !.proven = TailPos(R), !.head = HeadHash(R)]
           \/ sweep' = NextStream
    /\ UNCHANGED <<gated, rows, minted, append, tombs, cps, emit, verify, lost, counts>>

(* The DELETE takes nothing from a stream that has grown. *)
Removed(R) == IF \A r \in R : r.pos <= sweep.proven THEN R ELSE {}

(* Mutant: the removal's row count is not compared with the tombstone's.   *)
Uncounted(R) == TRUE

(* What was removed must be as many events as the tombstone claims. *)
CountMatches(R) == Cardinality(Removed(R)) = sweep.proven + 1

(* Removal and commit: an insert between the two is one after the commit.  *)
Seal ==
    /\ sweep.stage = "staged"
    /\ LET s == sweep.stream
           R == rows[s]
       IN  \/ /\ CountMatches(R)
              /\ rows' = [rows EXCEPT ![s] = @ \ Removed(R)]
              /\ tombs' = tombs \cup {[stream |-> s, hash |-> sweep.head]}
              /\ sweep' = [NextStream EXCEPT !.sealed = TRUE]
           \/ /\ sweep' = NextStream
              /\ UNCHANGED <<rows, tombs>>
    /\ UNCHANGED <<gated, minted, append, cps, emit, verify, lost, counts>>

(* A sweep that sealed something anchors its seals by a checkpoint. *)
EndSweep ==
    /\ sweep.stage = "sweeping" /\ sweep.todo = {}
    /\ sweep' = IF sweep.sealed THEN [NoSweep EXCEPT !.stage = "anchoring"] ELSE NoSweep
    /\ UNCHANGED <<gated, rows, minted, append, tombs, cps, emit, verify, lost, counts>>

(* The worker is killed: a staged transaction rolls back, seals stay. *)
KillWorker ==
    /\ sweep.stage # "idle"
    /\ sweep' = NoSweep
    /\ emit' = [emit EXCEPT !["sweep"] = NoEmission]
    /\ UNCHANGED <<gated, rows, minted, append, tombs, cps, verify, lost, counts>>

-----------------------------------------------------------------------------
(* Emitting a checkpoint: the sequence number from the anchor store, then  *)
(* one consistent cut of the database, then the write.                     *)

(* Mutant: the sweep's checkpoint is begun before the sweep has ended. *)
MayEmitEarly(e) ==
    /\ emit[e].stage = "idle"
    /\ e = "sweep" => sweep.stage # "idle"

(* One kind's cycles are serial; the sweep's belongs to another kind, and  *)
(* the two may overlap.                                                    *)
MayEmit(e) ==
    /\ emit[e].stage = "idle"
    /\ e = "sweep" => sweep.stage = "anchoring"

Seqs(C) == {C[i].seq : i \in DOMAIN C}
NextSeq(C) == IF C = << >> THEN 1 ELSE 1 + CHOOSE n \in Seqs(C) : \A m \in Seqs(C) : m <= n

ReadAnchors(e) ==
    /\ MayEmit(e) /\ Len(cps) < MaxCheckpoints
    /\ emit' = [emit EXCEPT ![e] = [NoEmission EXCEPT !.stage = "numbered", !.seq = NextSeq(cps)]]
    /\ UNCHANGED <<gated, rows, minted, append, sweep, tombs, cps, verify, lost, counts>>

HeadOf(s) == [stream |-> s, pos |-> TailPos(rows[s]), hash |-> HeadHash(rows[s])]

Snapshot(e) ==
    /\ emit[e].stage = "numbered"
    /\ emit' = [emit EXCEPT ![e] = [stage |-> "cut", seq |-> @.seq,
                                    heads |-> {HeadOf(s) : s \in {t \in Streams : rows[t] # {}}},
                                    sealed |-> tombs]]
    /\ UNCHANGED <<gated, rows, minted, append, sweep, tombs, cps, verify, lost, counts>>

(* The object's key is the second and the number: of two objects with both *)
(* in common, the later stays.  A read or write that fails ends the cycle. *)
Write(e) ==
    /\ emit[e].stage = "cut"
    /\ LET c == [seq |-> emit[e].seq, heads |-> emit[e].heads, sealed |-> emit[e].sealed]
       IN  \/ cps' = Append(cps, c)
           \/ \E i \in DOMAIN cps : cps[i].seq = c.seq /\ cps' = [cps EXCEPT ![i] = c]
           \/ UNCHANGED cps
    /\ emit' = [emit EXCEPT ![e] = NoEmission]
    /\ sweep' = IF e = "sweep" THEN NoSweep ELSE sweep
    /\ UNCHANGED <<gated, rows, minted, append, tombs, verify, lost, counts>>

-----------------------------------------------------------------------------
(* verify-event-chain: the streams are listed, the checkpoints read, each  *)
(* listed stream walked, and the seals read last, each by its own query.   *)

VerifyList ==
    /\ verify.stage \in {"idle", "done"} /\ counts.verifies < MaxVerifies
    /\ LET live == {s \in Streams : rows[s] # {}}
       IN  verify' = [NoVerify EXCEPT !.stage = "listed", !.listed = live, !.todo = live, !.lostBefore = lost]
    /\ counts' = [counts EXCEPT !.verifies = @ + 1]
    /\ UNCHANGED <<gated, rows, minted, append, sweep, tombs, cps, emit, lost>>

VerifyAnchors ==
    /\ verify.stage = "listed"
    /\ verify' = [verify EXCEPT !.stage = "walking", !.cps = cps]
    /\ UNCHANGED <<gated, rows, minted, append, sweep, tombs, cps, emit, lost, counts>>

VerifyStream(s) ==
    /\ verify.stage = "walking" /\ s \in verify.todo
    /\ verify' = [verify EXCEPT !.todo = @ \ {s}, !.seen[s] = rows[s]]
    /\ UNCHANGED <<gated, rows, minted, append, sweep, tombs, cps, emit, lost, counts>>

(* The walk: positions contiguous from 0, each row chained to the one      *)
(* before it and the first to the genesis hash.                            *)
ChainOk(R) ==
    \A r \in R : /\ r.pos = 0 \/ Has(R, r.pos - 1)
                 /\ r.prev = IF r.pos = 0 THEN Genesis ELSE At(R, r.pos - 1).hash

(* An anchored head must be in the live chain, at its position. *)
Contradicts(R, h) ==
    \/ h.pos > TailPos(R)
    \/ (h.pos = TailPos(R)) # (h.hash = HeadHash(R))
    \/ Has(R, h.pos) /\ At(R, h.pos).hash # h.hash

(* Mutant: only the newest checkpoint is held against the streams. *)
NewestHeads(C) == UNION {C[i].heads : i \in {j \in DOMAIN C : C[j].seq + 1 = NextSeq(C)}}

AnchoredHeads(C) == UNION {C[i].heads : i \in DOMAIN C}

AnchoredSeals(C) == UNION {C[i].sealed : i \in DOMAIN C}

ForkedSeq(C) == Cardinality(Seqs(C)) # Len(C)

SeqGap(C) == Seqs(C) # 1..Cardinality(Seqs(C))

(* A stream the walk found empty or broken has no live head. *)
Live(s) == verify.seen[s] # {} /\ ChainOk(verify.seen[s])

(* Mutant: the checkpoints are those of the moment, not those read before  *)
(* the streams.                                                            *)
AnchorBrokenLate(sealed) ==
    \/ ForkedSeq(cps)
    \/ \E h \in AnchoredHeads(cps) :
          IF Live(h.stream) THEN Contradicts(verify.seen[h.stream], h)
                            ELSE \A t \in sealed : t.stream # h.stream
    \/ ~(sealed \subseteq AnchoredSeals(cps))

AnchorBroken(sealed) ==
    \/ ForkedSeq(verify.cps)
    \/ \E h \in AnchoredHeads(verify.cps) :
          IF Live(h.stream) THEN Contradicts(verify.seen[h.stream], h)
                            ELSE \A t \in sealed : t.stream # h.stream
    \/ ~(sealed \subseteq AnchoredSeals(verify.cps))

(* Broken outranks a missing or stale anchor, which outranks ok. *)
RollUp(sealed, stale) ==
    IF (\E s \in verify.listed : ~ChainOk(verify.seen[s])) \/ (verify.cps # << >> /\ AnchorBroken(sealed))
    THEN "broken"
    ELSE IF verify.cps = << >> \/ SeqGap(verify.cps) \/ stale THEN "missing" ELSE "ok"

VerifySeals ==
    /\ verify.stage = "walking" /\ verify.todo = {}
    /\ \E stale \in BOOLEAN :
          verify' = [verify EXCEPT !.stage = "done", !.sealed = tombs, !.report = RollUp(tombs, stale)]
    /\ UNCHANGED <<gated, rows, minted, append, sweep, tombs, cps, emit, lost, counts>>

-----------------------------------------------------------------------------
(* Outside the program's control: a stream's events past position p are    *)
(* lost (storage failure, a partial restore).                              *)
LoseTail(s, p) ==
    /\ counts.losses < MaxLosses /\ p < TailPos(rows[s])
    /\ rows' = [rows EXCEPT ![s] = {r \in @ : r.pos <= p}]
    /\ lost' = lost \cup {r.hash : r \in {q \in rows[s] : q.pos > p}}
    /\ counts' = [counts EXCEPT !.losses = @ + 1]
    /\ UNCHANGED <<gated, minted, append, sweep, tombs, cps, emit, verify>>

Next ==
    \/ \E a \in Appenders, s \in Streams : ReadTail(a, s)
    \/ \E a \in Appenders, n \in 1..MaxBatch, terminal \in BOOLEAN : Insert(a, n, terminal)
    \/ ListCandidates \/ StageTombstone \/ Seal \/ EndSweep \/ KillWorker
    \/ \E s \in Streams : Prove(s)
    \/ \E e \in Emitters : ReadAnchors(e) \/ Snapshot(e) \/ Write(e)
    \/ VerifyList \/ VerifyAnchors \/ VerifySeals
    \/ \E s \in Streams : VerifyStream(s)
    \/ \E s \in Streams, p \in {NoTail} \cup Positions : LoseTail(s, p)

Spec == Init /\ [][Next]_vars

-----------------------------------------------------------------------------
(* The type invariant: rows, reads in progress, seals, anchors and the     *)
(* verifier's notes have their shapes, and no stream holds two rows at one *)
(* position.                                                               *)
TypeOK ==
    /\ rows \in [Streams -> SUBSET Rows]
    /\ \A s \in Streams : \A q, r \in rows[s] : q.pos = r.pos => q = r
    /\ minted \in 0..MaxEvents
    /\ append \in [Appenders -> [stream : Streams \cup {NoStream}, tail : Positions \cup {NoTail},
                                 head : Hashes \cup {Genesis}]]
    /\ sweep.stage \in {"idle", "sweeping", "proven", "staged", "anchoring"}
    /\ sweep.todo \subseteq Streams /\ sweep.stream \in Streams \cup {NoStream}
    /\ sweep.proven \in Positions \cup {NoTail} /\ sweep.head \in Hashes \cup {Genesis}
    /\ tombs \subseteq Seals
    /\ \A i \in DOMAIN cps : cps[i].heads \subseteq Heads /\ cps[i].sealed \subseteq Seals
    /\ \A e \in Emitters : emit[e].stage \in {"idle", "numbered", "cut"}
    /\ verify.stage \in {"idle", "listed", "walking", "done"}
    /\ verify.report \in {"none", "ok", "missing", "broken"}
    /\ lost \subseteq Hashes /\ gated \subseteq Streams

(* Whatever appends race each other, the rows of a stream that was never   *)
(* sealed and lost nothing form one chain from the genesis hash: the       *)
(* unlocked tail read of append_with_conn and the unique index suffice.    *)
OneChain ==
    counts.losses = 0 =>
        \A s \in Streams : (\A t \in tombs : t.stream # s) => ChainOk(rows[s])

(* What seal_and_remove removes is what its caller proved: when a          *)
(* tombstone appears (and no event was lost outside the program), the      *)
(* stream's whole chain up to the head the tombstone names is gone,        *)
(* nothing newer was there, and a gated stream ended in its terminal event.*)
SealsWhatWasProved ==
    [][counts.losses = 0 => \A t \in tombs' \ tombs :
          LET R == rows[t.stream]
          IN  /\ R # {} /\ rows'[t.stream] = {}
              /\ TailPos(R) = sweep.proven /\ HeadHash(R) = t.hash
              /\ Cardinality(R) = TailPos(R) + 1
              /\ t.stream \in gated => At(R, TailPos(R)).terminal]_vars

(* A sweep that writes its closing checkpoint leaves no seal unanchored:   *)
(* the cut is taken after the seals committed (eventstore_archive.rs).     *)
SweepAnchorsItsSeals ==
    [][sweep.stage = "anchoring" /\ sweep'.stage = "idle" /\ cps' # cps
          => tombs \subseteq AnchoredSeals(cps')]_vars

(* While a checkpoint the verifier reads names a lost event, the report is *)
(* not ok, however the stream grew again and whatever later checkpoints    *)
(* say of it, until the stream is sealed.                                  *)
LossIsReported ==
    verify.report = "ok" =>
        \A i \in DOMAIN verify.cps : \A h \in verify.cps[i].heads :
            h.hash \in verify.lostBefore => \E t \in verify.sealed : t.stream = h.stream

(* The verifier runs beside appends, sweeps and emissions.  It reports a   *)
(* break only where there is one to explain: events were lost, a seal is   *)
(* not yet anchored by a checkpoint it read, a sealed stream came back to  *)
(* life, a stream was begun and anchored after the listing, or two         *)
(* emissions overlapped and took one number.                               *)
AlarmsAreExplained ==
    verify.report = "broken" =>
        \/ counts.losses > 0
        \/ \E t \in verify.sealed : t \notin AnchoredSeals(verify.cps) \/ verify.seen[t.stream] # {}
        \/ \E h \in AnchoredHeads(verify.cps) : h.stream \notin verify.listed
        \/ ForkedSeq(verify.cps)

=============================================================================
