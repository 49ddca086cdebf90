----------------------- MODULE PolicyProjectionProofs -----------------------
(***************************************************************************)
(* The policy projection against its stream, for any writers, exclusions   *)
(* and bounds and whatever overlaps or fails.                              *)
(*                                                                         *)
(* The fold is a recursive function; that it exists and what one more      *)
(* event makes of it is shown by the least position at which it would      *)
(* fail.  With these two facts the rest is one step per action: a call     *)
(* that appends stands on the whole stream, because its version is the     *)
(* stream's length, so what it writes is the fold of what it appended to.  *)
(***************************************************************************)
EXTENDS PolicyProjection, SequenceTheorems, WellFoundedInduction, TLAPS

-----------------------------------------------------------------------------
(* The fold. *)

LEMMA NatWellFounded == IsWellFoundedOn({ss \in Nat \X Nat : ss[1] < ss[2]}, Nat)
BY NatLessThanWellFounded DEF OpToRel

LEMMA LeastNat ==
    ASSUME NEW S \in SUBSET Nat, S # {}
    PROVE  \E m \in S : \A k \in S : m <= k
<1>1. PICK x \in S : \A y \in S : ~(<<y, x>> \in {ss \in Nat \X Nat : ss[1] < ss[2]})
  BY NatWellFounded, WFMin, Zenon
<1>2. \A y \in S : ~(y < x)
  <2> TAKE y \in S
  <2>1. <<y, x>> \in Nat \X Nat /\ <<y, x>>[1] = y /\ <<y, x>>[2] = x
    OBVIOUS
  <2> QED BY <1>1, <2>1
<1> QED BY <1>2

Unfolds(u, s, e) == u = [n \in 0..Len(e) |-> IF n = 0 THEN s ELSE Apply(u[n - 1], e[n])]

(* What an unfolding says position by position. *)
LEMMA UnfoldingSteps ==
    ASSUME NEW s, NEW e, NEW u, Len(e) \in Nat
    PROVE  Unfolds(u, s, e) <=> /\ u = [n \in 0..Len(e) |-> u[n]]
                                /\ u[0] = s
                                /\ \A n \in 1..Len(e) : u[n] = Apply(u[n - 1], e[n])
<1>1. ASSUME Unfolds(u, s, e)
      PROVE  /\ u = [n \in 0..Len(e) |-> u[n]]
             /\ u[0] = s
             /\ \A n \in 1..Len(e) : u[n] = Apply(u[n - 1], e[n])
  BY <1>1 DEF Unfolds
<1>2. ASSUME u = [n \in 0..Len(e) |-> u[n]], u[0] = s,
             \A n \in 1..Len(e) : u[n] = Apply(u[n - 1], e[n])
      PROVE  Unfolds(u, s, e)
  <2> DEFINE v == [n \in 0..Len(e) |-> IF n = 0 THEN s ELSE Apply(u[n - 1], e[n])]
  <2>1. \A n \in 0..Len(e) : u[n] = v[n]
    BY <1>2
  <2>2. u = v
    BY <1>2, <2>1
  <2> QED BY <2>2 DEF Unfolds
<1> QED BY <1>1, <1>2

(* There is one of every length. *)
LEMMA UnfoldingExists ==
    ASSUME NEW s, NEW e, Len(e) \in Nat
    PROVE  \E u : Unfolds(u, s, e)
<1> DEFINE Upto(u, m) == /\ u = [n \in 0..m |-> u[n]]
                         /\ u[0] = s
                         /\ \A n \in 1..m : u[n] = Apply(u[n - 1], e[n])
           Bad == {m \in Nat : ~ \E u : Upto(u, m)}
<1>1. Bad = {}
  <2> SUFFICES ASSUME Bad # {} PROVE FALSE
    OBVIOUS
  <2>1. PICK m \in Bad : \A k \in Bad : m <= k
    <3>1. Bad \in SUBSET Nat
      OBVIOUS
    <3> HIDE DEF Bad
    <3> QED BY <3>1, LeastNat
  <2>2. m # 0
    <3>1. Upto([n \in 0..0 |-> s], 0)
      OBVIOUS
    <3> QED BY <2>1, <3>1
  <2>3. m - 1 \in Nat /\ m - 1 \notin Bad
    <3>1. m \in Nat
      BY <2>1
    <3> HIDE DEF Bad
    <3> QED BY <2>1, <2>2, <3>1
  <2>4. PICK u : Upto(u, m - 1)
    BY <2>3
  <2> DEFINE v == [n \in 0..m |-> IF n = m THEN Apply(u[m - 1], e[m]) ELSE u[n]]
  <2>5. Upto(v, m)
    <3>1. m \in Nat /\ m > 0
      BY <2>1, <2>2
    <3>2. v[0] = s
      BY <2>4, <3>1
    <3>3. ASSUME NEW n \in 1..m PROVE v[n] = Apply(v[n - 1], e[n])
      <4>1. CASE n = m
        BY <3>1, <4>1
      <4>2. CASE n # m
        <5>1. n \in 1..(m - 1) /\ n \in 0..m /\ n - 1 \in 0..m /\ n - 1 # m
          BY <3>1, <4>2
        <5>2. v[n] = u[n] /\ v[n - 1] = u[n - 1]
          BY <4>2, <5>1
        <5>3. u[n] = Apply(u[n - 1], e[n])
          BY <2>4, <5>1
        <5> QED BY <5>2, <5>3
      <4> QED BY <4>1, <4>2
    <3>4. v = [n \in 0..m |-> v[n]]
      OBVIOUS
    <3> QED BY <3>2, <3>3, <3>4
  <2> QED BY <2>1, <2>5
<1>2. Len(e) \notin Bad
  BY <1>1
<1>3. PICK u : Upto(u, Len(e))
  BY <1>2
<1> QED BY <1>3, UnfoldingSteps

(* The fold is the last value of an unfolding. *)
LEMMA FoldedIs ==
    ASSUME NEW s, NEW e, Len(e) \in Nat
    PROVE  \E u : Unfolds(u, s, e) /\ Folded(s, e) = u[Len(e)]
<1>1. PICK w : Unfolds(w, s, e)
  BY UnfoldingExists
<1> QED BY <1>1 DEF Folded, Unfolds

(* Unfoldings of sequences that agree at the beginning agree there. *)
LEMMA UnfoldingsAgree ==
    ASSUME NEW s, NEW d, NEW e, Len(d) \in Nat, Len(e) \in Nat, Len(d) <= Len(e),
           \A n \in 1..Len(d) : d[n] = e[n],
           NEW u, NEW v, Unfolds(u, s, d), Unfolds(v, s, e)
    PROVE  \A n \in 0..Len(d) : u[n] = v[n]
<1> DEFINE Bad == {n \in Nat : n <= Len(d) /\ u[n] # v[n]}
<1>1. Bad = {}
  <2> SUFFICES ASSUME Bad # {} PROVE FALSE
    OBVIOUS
  <2>1. PICK m \in Bad : \A k \in Bad : m <= k
    <3>1. Bad \in SUBSET Nat
      OBVIOUS
    <3> HIDE DEF Bad
    <3> QED BY <3>1, LeastNat
  <2>2. m # 0
    BY <2>1, UnfoldingSteps
  <2>3. m - 1 \in Nat /\ m - 1 \notin Bad /\ m \in 1..Len(d) /\ m \in 1..Len(e)
    BY <2>1, <2>2
  <2>4. u[m - 1] = v[m - 1]
    BY <2>1, <2>3
  <2>5. u[m] = Apply(u[m - 1], d[m]) /\ v[m] = Apply(v[m - 1], e[m])
    BY <2>3, UnfoldingSteps
  <2> QED BY <2>1, <2>3, <2>4, <2>5
<1> QED BY <1>1

(* The two facts the rest needs. *)
LEMMA FoldedNothing ==
    ASSUME NEW s
    PROVE  Folded(s, << >>) = s
<1>1. Len(<< >>) = 0
  OBVIOUS
<1>2. PICK u : Unfolds(u, s, << >>) /\ Folded(s, << >>) = u[0]
  BY <1>1, FoldedIs
<1> QED BY <1>1, <1>2, UnfoldingSteps

LEMMA FoldedMore ==
    ASSUME NEW s, NEW T, NEW e \in Seq(T), NEW x \in T
    PROVE  Folded(s, Append(e, x)) = Apply(Folded(s, e), x)
<1> DEFINE d == Append(e, x)
<1>1. /\ Len(e) \in Nat /\ Len(d) = Len(e) + 1 /\ Len(d) \in Nat
      /\ d[Len(d)] = x /\ \A n \in 1..Len(e) : d[n] = e[n]
  OBVIOUS
<1>2. PICK u : Unfolds(u, s, e) /\ Folded(s, e) = u[Len(e)]
  BY <1>1, FoldedIs
<1> HIDE DEF d
<1>3. PICK v : Unfolds(v, s, d) /\ Folded(s, d) = v[Len(d)]
  BY <1>1, FoldedIs
<1>4. u[Len(e)] = v[Len(e)]
  <2>1. Len(e) <= Len(d) /\ Len(e) \in 0..Len(e) /\ \A n \in 1..Len(e) : e[n] = d[n]
    BY <1>1
  <2>2. Len(e) \in Nat /\ Len(d) \in Nat /\ Unfolds(u, s, e) /\ Unfolds(v, s, d)
    BY <1>1, <1>2, <1>3
  <2>3. \A n \in 0..Len(e) : u[n] = v[n]
    BY <2>1, <2>2, UnfoldingsAgree
  <2> QED BY <2>1, <2>3
<1>5. v[Len(d)] = Apply(v[Len(d) - 1], d[Len(d)])
  BY <1>1, <1>3, UnfoldingSteps
<1>6. Folded(s, d) = Apply(Folded(s, e), x)
  BY <1>1, <1>2, <1>3, <1>4, <1>5
<1> QED BY <1>6 DEF d

-----------------------------------------------------------------------------
(* One event. *)

(* Two replays that differ at most in their versions and exclusions. *)
SameFields(p, q) == p.gate = q.gate /\ p.aux = q.aux /\ p.archived = q.archived

LEMMA PolicyFields ==
    ASSUME NEW p \in Policies, NEW q \in Policies
    PROVE  /\ p.gate \in Fields /\ p.aux \in Fields /\ p.archived \in BOOLEAN /\ p.version \in 0..MaxEvents
           /\ p = q <=> SameFields(p, q) /\ p.version = q.version
  BY DEF Policies, SameFields

LEMMA ReplayFields ==
    ASSUME NEW r \in Replays
    PROVE  /\ r = [policy |-> r.policy, excl |-> r.excl]
           /\ r.policy \in Policies /\ r.excl \subseteq Exclusions
  BY DEF Replays

LEMMA ApplyCases ==
    ASSUME NEW r \in Replays, NEW x \in Events
    PROVE  /\ Apply(r, x) \in Replays
           /\ Apply(r, x).policy.version = r.policy.version
           /\ Apply(r, x).policy.gate = IF x.kind = "gate" THEN x.value ELSE r.policy.gate
           /\ Apply(r, x).policy.aux = IF x.kind = "aux" THEN x.value ELSE r.policy.aux
           /\ Apply(r, x).policy.archived = IF x.kind = "archived" THEN TRUE
                                            ELSE IF x.kind = "reactivated" THEN FALSE
                                            ELSE r.policy.archived
           /\ Apply(r, x).excl = IF x.kind = "added" THEN r.excl \cup {x.value}
                                 ELSE IF x.kind = "removed" THEN r.excl \ {x.value} ELSE r.excl
<1> USE DEF Replays, Policies
<1>1. CASE x.kind = "gate"
  <2>1. x.value \in Fields BY <1>1 DEF Events
  <2>2. Apply(r, x) = [r EXCEPT !.policy.gate = x.value] BY <1>1 DEF Apply
  <2> QED BY <1>1, <2>1, <2>2
<1>2. CASE x.kind = "aux"
  <2>1. x.value \in Fields BY <1>2 DEF Events
  <2>2. Apply(r, x) = [r EXCEPT !.policy.aux = x.value] BY <1>2 DEF Apply
  <2> QED BY <1>2, <2>1, <2>2
<1>3. CASE x.kind = "archived"
  <2> DEFINE q == [r.policy EXCEPT !.archived = TRUE]
  <2>1. /\ q \in Policies /\ q.gate = r.policy.gate /\ q.aux = r.policy.aux
        /\ q.archived = TRUE /\ q.version = r.policy.version
    OBVIOUS
  <2>2. Apply(r, x) = [r EXCEPT !.policy = q] BY <1>3 DEF Apply
  <2> HIDE DEF q
  <2>3. Apply(r, x) \in Replays /\ Apply(r, x).policy = q /\ Apply(r, x).excl = r.excl
    BY <2>1, <2>2
  <2> QED BY <1>3, <2>1, <2>3
<1>4. CASE x.kind = "reactivated"
  <2> DEFINE q == [r.policy EXCEPT !.archived = FALSE]
  <2>1. /\ q \in Policies /\ q.gate = r.policy.gate /\ q.aux = r.policy.aux
        /\ q.archived = FALSE /\ q.version = r.policy.version
    OBVIOUS
  <2>2. Apply(r, x) = [r EXCEPT !.policy = q] BY <1>4 DEF Apply
  <2> HIDE DEF q
  <2>3. Apply(r, x) \in Replays /\ Apply(r, x).policy = q /\ Apply(r, x).excl = r.excl
    BY <2>1, <2>2
  <2> QED BY <1>4, <2>1, <2>3
<1>5. CASE x.kind = "added"
  <2>1. x.value \in Exclusions BY <1>5 DEF Events
  <2>2. Apply(r, x) = [r EXCEPT !.excl = @ \cup {x.value}] BY <1>5 DEF Apply
  <2> QED BY <1>5, <2>1, <2>2
<1>6. CASE x.kind = "removed"
  <2>2. Apply(r, x) = [r EXCEPT !.excl = @ \ {x.value}] BY <1>6 DEF Apply
  <2> QED BY <1>6, <2>2
<1>7. x.kind \in {"gate", "aux", "archived", "reactivated", "added", "removed"}
  BY DEF Events
<1> QED BY <1>1, <1>2, <1>3, <1>4, <1>5, <1>6, <1>7

LEMMA ApplyAgrees ==
    ASSUME NEW r \in Replays, NEW q \in Replays, NEW x \in Events, SameFields(r.policy, q.policy)
    PROVE  SameFields(Apply(r, x).policy, Apply(q, x).policy)
<1> DEFINE After(s) ==
      /\ Apply(s, x).policy.gate = IF x.kind = "gate" THEN x.value ELSE s.policy.gate
      /\ Apply(s, x).policy.aux = IF x.kind = "aux" THEN x.value ELSE s.policy.aux
      /\ Apply(s, x).policy.archived = IF x.kind = "archived" THEN TRUE
                                       ELSE IF x.kind = "reactivated" THEN FALSE
                                       ELSE s.policy.archived
<1>1. After(r)
  BY ApplyCases
<1>2. After(q)
  BY ApplyCases
<1> QED BY <1>1, <1>2 DEF SameFields

-----------------------------------------------------------------------------
(* What the fold computes: replays, at the version of the stream. *)

LEMMA FoldedType ==
    ASSUME NEW r \in Replays, NEW e \in Seq(Events)
    PROVE  Folded(r, e) \in Replays /\ Folded(r, e).policy.version = r.policy.version
<1>1. PICK u : Unfolds(u, r, e) /\ Folded(r, e) = u[Len(e)]
  BY FoldedIs
<1> DEFINE Fits(x) == x \in Replays /\ x.policy.version = r.policy.version
           Bad == {n \in Nat : n <= Len(e) /\ ~Fits(u[n])}
<1>2. Bad = {}
  <2> SUFFICES ASSUME Bad # {} PROVE FALSE
    OBVIOUS
  <2>1. PICK m \in Bad : \A k \in Bad : m <= k
    <3>1. Bad \in SUBSET Nat
      OBVIOUS
    <3> HIDE DEF Bad
    <3> QED BY <3>1, LeastNat
  <2>2. u[0] = r /\ \A n \in 1..Len(e) : u[n] = Apply(u[n - 1], e[n])
    BY <1>1, UnfoldingSteps
  <2>3. m # 0
    BY <2>1, <2>2
  <2>4. m - 1 \in Nat /\ m - 1 \notin Bad /\ m \in 1..Len(e)
    BY <2>1, <2>3
  <2>5. Fits(u[m - 1]) /\ e[m] \in Events /\ u[m] = Apply(u[m - 1], e[m])
    BY <2>1, <2>2, <2>4
  <2>6. ASSUME NEW x \in Replays, NEW y \in Events, x.policy.version = r.policy.version
        PROVE  Fits(Apply(x, y))
    BY <2>6, ApplyCases
  <2>7. Fits(u[m])
    BY <2>5, <2>6
  <2> QED BY <2>1, <2>7
<1>3. Len(e) \in Nat /\ Len(e) \notin Bad
  BY <1>2
<1> QED BY <1>1, <1>3

LEMMA Beginning == Replay(Created, {}) \in Replays /\ Created \in Policies
  BY PolicyAssumption DEF Replay, Created, Replays, Policies, Fields

LEMMA FoldStreamFields ==
    ASSUME NEW e \in Seq(Events), Len(e) <= MaxEvents
    PROVE  LET f == Folded(Replay(Created, {}), e) IN
           /\ f \in Replays /\ FoldStream(e) \in Replays
           /\ SameFields(FoldStream(e).policy, f.policy) /\ FoldStream(e).excl = f.excl
           /\ FoldStream(e).policy.version = Len(e)
<1> DEFINE f == Folded(Replay(Created, {}), e)
<1>1. f \in Replays
  BY Beginning, FoldedType
<1>2. Len(e) \in 0..MaxEvents
  BY PolicyAssumption
<1> HIDE DEF f
<1>3. FoldStream(e) = [f EXCEPT !.policy.version = Len(e)]
  BY DEF FoldStream, f
<1>4. /\ FoldStream(e) \in Replays
      /\ SameFields(FoldStream(e).policy, f.policy) /\ FoldStream(e).excl = f.excl
      /\ FoldStream(e).policy.version = Len(e)
  BY <1>1, <1>2, <1>3 DEF Replays, Policies, SameFields
<1> QED BY <1>1, <1>4 DEF f

(* One more event on the stream. *)
LEMMA FoldStreamMore ==
    ASSUME NEW e \in Seq(Events), NEW x \in Events, Len(e) + 1 <= MaxEvents
    PROVE  LET d == e \o <<x>> IN
           /\ d \in Seq(Events) /\ Len(d) = Len(e) + 1
           /\ FoldStream(e) \in Replays /\ FoldStream(d) \in Replays
           /\ SameFields(FoldStream(d).policy, Apply(FoldStream(e), x).policy)
           /\ FoldStream(d).excl = Apply(FoldStream(e), x).excl
           /\ FoldStream(d).policy.version = Len(e) + 1
<1> DEFINE d == e \o <<x>>
           f == Folded(Replay(Created, {}), e)
           g == Folded(Replay(Created, {}), d)
<1>1. d = Append(e, x)
  BY AppendIsConcat
<1>2. d \in Seq(Events) /\ Len(d) = Len(e) + 1 /\ Len(e) <= MaxEvents /\ Len(d) <= MaxEvents
  BY <1>1, PolicyAssumption
<1>3. g = Apply(f, x)
  <2>1. Folded(Replay(Created, {}), Append(e, x)) = Apply(Folded(Replay(Created, {}), e), x)
    BY FoldedMore
  <2> QED BY <1>1, <2>1
<1>4. /\ f \in Replays /\ FoldStream(e) \in Replays
      /\ SameFields(FoldStream(e).policy, f.policy) /\ FoldStream(e).excl = f.excl
  BY <1>2, FoldStreamFields
<1> HIDE DEF d
<1>5. /\ g \in Replays /\ FoldStream(d) \in Replays
      /\ SameFields(FoldStream(d).policy, g.policy) /\ FoldStream(d).excl = g.excl
      /\ FoldStream(d).policy.version = Len(d)
  BY <1>2, FoldStreamFields
<1> HIDE DEF f, g
<1>6. SameFields(Apply(FoldStream(e), x).policy, Apply(f, x).policy)
  BY <1>4, ApplyAgrees
<1>7. Apply(FoldStream(e), x).excl = Apply(f, x).excl
  BY <1>4, ApplyCases
<1>8. SameFields(FoldStream(d).policy, Apply(FoldStream(e), x).policy)
  BY <1>3, <1>5, <1>6 DEF SameFields
<1> QED BY <1>2, <1>3, <1>4, <1>5, <1>7, <1>8 DEF d

-----------------------------------------------------------------------------
(* A batch of no, one or two events, as the mutations make them. *)

SmallBatch(b) == \/ b = << >>
                 \/ \E x \in Events : b = <<x>>
                 \/ \E x, y \in Events : b = <<x>> \o <<y>>

LEMMA FoldedBatch ==
    ASSUME NEW s, NEW x \in Events, NEW y \in Events
    PROVE  /\ Folded(s, << >>) = s
           /\ Folded(s, <<x>>) = Apply(s, x)
           /\ Folded(s, <<x>> \o <<y>>) = Apply(Apply(s, x), y)
<1>1. << >> \in Seq(Events) /\ <<x>> \in Seq(Events) /\ Append(<< >>, x) = <<x>>
  OBVIOUS
<1>2. Append(<<x>>, y) = <<x>> \o <<y>>
  BY <1>1, AppendIsConcat
<1>3. Folded(s, << >>) = s
  BY FoldedNothing
<1>4. Folded(s, Append(<< >>, x)) = Apply(Folded(s, << >>), x)
  BY <1>1, FoldedMore
<1>5. Folded(s, Append(<<x>>, y)) = Apply(Folded(s, <<x>>), y)
  <2> DEFINE z == <<x>>
  <2>1. z \in Seq(Events)
    BY <1>1
  <2> HIDE DEF z
  <2>2. Folded(s, Append(z, y)) = Apply(Folded(s, z), y)
    BY <2>1, FoldedMore
  <2> QED BY <2>2 DEF z
<1> QED BY <1>1, <1>2, <1>3, <1>4, <1>5

LEMMA SmallBatchSeq ==
    ASSUME NEW b, SmallBatch(b)
    PROVE  b \in Seq(Events)
<1>1. CASE b = << >>
  BY <1>1
<1>2. ASSUME NEW x \in Events, b = <<x>> PROVE b \in Seq(Events)
  BY <1>2
<1>3. ASSUME NEW x \in Events, NEW y \in Events, b = <<x>> \o <<y>> PROVE b \in Seq(Events)
  <2>1. <<x>> \in Seq(Events) /\ <<y>> \in Seq(Events)
    OBVIOUS
  <2> QED BY <1>3, <2>1, ConcatProperties
<1> QED BY <1>1, <1>2, <1>3 DEF SmallBatch

(* One event on a state that has the fields of the stream. *)
LEMMA LandOne ==
    ASSUME NEW e \in Seq(Events), NEW x \in Events, Len(e) + 1 <= MaxEvents,
           NEW r \in Replays, SameFields(r.policy, FoldStream(e).policy)
    PROVE  /\ Apply(r, x) \in Replays
           /\ Apply(r, x).policy.version = r.policy.version
           /\ SameFields(Apply(r, x).policy, FoldStream(e \o <<x>>).policy)
<1>1. FoldStream(e) \in Replays /\ SameFields(FoldStream(e \o <<x>>).policy, Apply(FoldStream(e), x).policy)
  BY FoldStreamMore
<1>2. SameFields(Apply(r, x).policy, Apply(FoldStream(e), x).policy)
  BY <1>1, ApplyAgrees
<1>3. Apply(r, x) \in Replays /\ Apply(r, x).policy.version = r.policy.version
  BY ApplyCases
<1> QED BY <1>1, <1>2, <1>3 DEF SameFields

(* A batch appended to the stream a state stands on folds into that state  *)
(* as the stream folds it.                                                 *)
LEMMA BatchLands ==
    ASSUME NEW e \in Seq(Events), NEW b, SmallBatch(b), Len(e) + Len(b) <= MaxEvents,
           NEW r \in Replays, r.policy = FoldStream(e).policy
    PROVE  /\ e \o b \in Seq(Events) /\ Len(e \o b) = Len(e) + Len(b) /\ Len(b) \in Nat
           /\ ApplyBatch(r, b) \in Replays
           /\ ApplyBatch(r, b).policy = FoldStream(e \o b).policy
<1>1. b \in Seq(Events) /\ e \o b \in Seq(Events) /\ Len(e \o b) = Len(e) + Len(b) /\ Len(b) \in Nat
  BY SmallBatchSeq, ConcatProperties
<1>2. /\ r.policy.version = Len(e)
      /\ FoldStream(e \o b) \in Replays /\ FoldStream(e \o b).policy.version = Len(e) + Len(b)
  <2>1. Len(e) <= MaxEvents
    BY <1>1, PolicyAssumption
  <2> QED BY <1>1, <2>1, FoldStreamFields
<1>3. Folded(r, b) \in Replays /\ SameFields(Folded(r, b).policy, FoldStream(e \o b).policy)
  <2>1. CASE b = << >>
    BY <2>1, FoldedNothing, ConcatEmptySeq DEF SameFields
  <2>2. ASSUME NEW x \in Events, b = <<x>>
        PROVE  Folded(r, b) \in Replays /\ SameFields(Folded(r, b).policy, FoldStream(e \o b).policy)
    <3>1. Folded(r, b) = Apply(r, x) /\ Len(e) + 1 <= MaxEvents
      BY <2>2, FoldedBatch
    <3> QED BY <2>2, <3>1, LandOne DEF SameFields
  <2>3. ASSUME NEW x \in Events, NEW y \in Events, b = <<x>> \o <<y>>
        PROVE  Folded(r, b) \in Replays /\ SameFields(Folded(r, b).policy, FoldStream(e \o b).policy)
    <3> DEFINE d == e \o <<x>>
    <3>1. <<x>> \in Seq(Events) /\ <<y>> \in Seq(Events) /\ Len(<<x>>) = 1 /\ Len(<<y>>) = 1
      OBVIOUS
    <3>2. Len(b) = 2
      BY <2>3, <3>1, ConcatProperties
    <3>3. d \in Seq(Events) /\ Len(d) = Len(e) + 1 /\ Len(d) + 1 <= MaxEvents /\ Len(e) + 1 <= MaxEvents
      BY <3>1, <3>2, ConcatProperties, PolicyAssumption
    <3>4. e \o b = d \o <<y>>
      BY <2>3, <3>1, ConcatAssociative
    <3>5. Folded(r, b) = Apply(Apply(r, x), y)
      BY <2>3, FoldedBatch
    <3>6. Apply(r, x) \in Replays /\ SameFields(Apply(r, x).policy, FoldStream(d).policy)
      BY <3>3, LandOne DEF SameFields
    <3> HIDE DEF d
    <3>7. /\ Apply(Apply(r, x), y) \in Replays
          /\ SameFields(Apply(Apply(r, x), y).policy, FoldStream(d \o <<y>>).policy)
      BY <3>3, <3>6, LandOne
    <3> QED BY <3>4, <3>5, <3>7
  <2> QED BY <2>1, <2>2, <2>3 DEF SmallBatch
<1>4. ApplyBatch(r, b) = [Folded(r, b) EXCEPT !.policy.version = Len(e) + Len(b)]
  BY <1>2 DEF ApplyBatch
<1>5. Len(e) + Len(b) \in 0..MaxEvents
  BY <1>1
<1>6. /\ ApplyBatch(r, b) \in Replays
      /\ SameFields(ApplyBatch(r, b).policy, Folded(r, b).policy)
      /\ ApplyBatch(r, b).policy.version = Len(e) + Len(b)
  BY <1>3, <1>4, <1>5 DEF Replays, Policies, SameFields
<1>7. ApplyBatch(r, b).policy = FoldStream(e \o b).policy
  <2>1. ApplyBatch(r, b).policy \in Policies /\ FoldStream(e \o b).policy \in Policies
    BY <1>2, <1>6, ReplayFields
  <2>2. SameFields(ApplyBatch(r, b).policy, FoldStream(e \o b).policy)
    BY <1>3, <1>6 DEF SameFields
  <2> QED BY <1>2, <1>6, <2>1, <2>2, PolicyFields
<1> QED BY <1>1, <1>6, <1>7

(* What a mutation appends. *)

LEMMA DiffCases ==
    ASSUME NEW f, NEW want \in SUBSET Fields, want # Fields, NEW have \in Fields
    PROVE  \/ Diff(f, want, have) = << >> /\ (want = {} \/ have \in want)
           \/ /\ want # {} /\ have \notin want
              /\ \E v \in Fields : want = {v} /\ Diff(f, want, have) = <<Event(f, v)>>
<1>1. CASE want = {} \/ have \in want
  BY <1>1 DEF Diff
<1>2. CASE ~(want = {} \/ have \in want)
  <2>0. Fields = {0, 1}
    BY DEF Fields
  <2>1. PICK v \in Fields : want = {v}
    <3>1. PICK v \in want : TRUE
      BY <1>2
    <3>2. want = {v}
      BY <2>0, <3>1
    <3> QED BY <3>1, <3>2
  <2>2. (CHOOSE x \in want : TRUE) = v
    BY <2>1
  <2>3. Diff(f, want, have) = <<Event(f, v)>>
    BY <1>2, <2>2 DEF Diff
  <2> QED BY <1>2, <2>1, <2>3
<1> QED BY <1>1, <1>2

LEMMA UpdateBatch ==
    ASSUME NEW o \in UpdateOps, NEW r \in Replays
    PROVE  /\ SmallBatch(Intent(o, r))
           /\ o.aux = {} /\ ~Satisfied(o, r) =>
                \E v \in Fields : Event("gate", v) \in Events /\ Intent(o, r) = <<Event("gate", v)>>
           /\ \/ Intent(o, r) = << >> /\ Satisfied(o, r)
              \/ \E v \in Fields : /\ o.gate = {v} /\ (o.aux = {} \/ r.policy.aux \in o.aux)
                                   /\ Event("gate", v) \in Events /\ Intent(o, r) = <<Event("gate", v)>>
              \/ \E v \in Fields : /\ o.aux = {v} /\ (o.gate = {} \/ r.policy.gate \in o.gate)
                                   /\ Event("aux", v) \in Events /\ Intent(o, r) = <<Event("aux", v)>>
              \/ \E v, z \in Fields : /\ o.gate = {v} /\ o.aux = {z}
                                      /\ Event("gate", v) \in Events /\ Event("aux", z) \in Events
                                      /\ Intent(o, r) = <<Event("gate", v)>> \o <<Event("aux", z)>>
<1> DEFINE dg == Diff("gate", o.gate, r.policy.gate)
           da == Diff("aux", o.aux, r.policy.aux)
<1>1. /\ o.kind = "update" /\ o.gate \in SUBSET Fields /\ o.aux \in SUBSET Fields
      /\ o.gate # Fields /\ o.aux # Fields
  BY DEF UpdateOps
<1>2. r.policy.gate \in Fields /\ r.policy.aux \in Fields
  BY ReplayFields, PolicyFields
<1>3. Intent(o, r) = dg \o da
  BY <1>1 DEF Intent
<1>4. Satisfied(o, r) <=> (o.gate = {} \/ r.policy.gate \in o.gate) /\ (o.aux = {} \/ r.policy.aux \in o.aux)
  BY <1>1 DEF Satisfied
<1>0. \A v \in Fields : Event("gate", v) \in Events /\ Event("aux", v) \in Events
  BY DEF Event, Events
<1>5. \/ dg = << >> /\ (o.gate = {} \/ r.policy.gate \in o.gate)
      \/ /\ o.gate # {} /\ r.policy.gate \notin o.gate
         /\ \E v \in Fields : /\ o.gate = {v} /\ Event("gate", v) \in Events /\ dg = <<Event("gate", v)>>
  BY <1>0, <1>1, <1>2, DiffCases
<1>6. \/ da = << >> /\ (o.aux = {} \/ r.policy.aux \in o.aux)
      \/ /\ o.aux # {} /\ r.policy.aux \notin o.aux
         /\ \E v \in Fields : /\ o.aux = {v} /\ Event("aux", v) \in Events /\ da = <<Event("aux", v)>>
  BY <1>0, <1>1, <1>2, DiffCases
<1> HIDE DEF dg, da
<1>7. << >> \in Seq(Events) /\ << >> \o << >> = << >>
  BY ConcatEmptySeq
<1>8. \A x \in Events : <<x>> \o << >> = <<x>> /\ << >> \o <<x>> = <<x>>
  <2> TAKE x \in Events
  <2>1. <<x>> \in Seq(Events)
    OBVIOUS
  <2> QED BY <2>1, ConcatEmptySeq
<1>a. CASE dg = << >> /\ (o.gate = {} \/ r.policy.gate \in o.gate)
  <2>1. CASE da = << >> /\ (o.aux = {} \/ r.policy.aux \in o.aux)
    BY <1>a, <2>1, <1>3, <1>4, <1>7 DEF SmallBatch
  <2>2. ASSUME o.aux # {}, NEW v \in Fields, o.aux = {v}, Event("aux", v) \in Events, da = <<Event("aux", v)>>
        PROVE  Intent(o, r) = <<Event("aux", v)>>
    BY <1>a, <2>2, <1>3, <1>8
  <2> QED BY <1>a, <2>1, <2>2, <1>6 DEF SmallBatch
<1>b. CASE /\ o.gate # {} /\ r.policy.gate \notin o.gate
           /\ \E v \in Fields : /\ o.gate = {v} /\ Event("gate", v) \in Events /\ dg = <<Event("gate", v)>>
  <2>1. PICK v \in Fields : o.gate = {v} /\ Event("gate", v) \in Events /\ dg = <<Event("gate", v)>>
    BY <1>b
  <2>2. CASE da = << >> /\ (o.aux = {} \/ r.policy.aux \in o.aux)
    <3>1. Intent(o, r) = <<Event("gate", v)>>
      BY <2>1, <2>2, <1>3, <1>8
    <3> QED BY <2>1, <2>2, <3>1 DEF SmallBatch
  <2>3. CASE /\ o.aux # {} /\ r.policy.aux \notin o.aux
             /\ \E z \in Fields : /\ o.aux = {z} /\ Event("aux", z) \in Events /\ da = <<Event("aux", z)>>
    <3>1. PICK z \in Fields : o.aux = {z} /\ Event("aux", z) \in Events /\ da = <<Event("aux", z)>>
      BY <2>3
    <3>2. Intent(o, r) = <<Event("gate", v)>> \o <<Event("aux", z)>>
      BY <2>1, <3>1, <1>3
    <3> QED BY <2>1, <2>3, <3>1, <3>2 DEF SmallBatch
  <2> QED BY <1>6, <2>2, <2>3
<1> QED BY <1>5, <1>a, <1>b

(* The stream after one more event, field by field. *)
LEMMA FoldStreamOne ==
    ASSUME NEW e \in Seq(Events), NEW x \in Events, Len(e) + 1 <= MaxEvents
    PROVE  LET f == FoldStream(e)
               g == FoldStream(e \o <<x>>)
           IN  /\ g.policy.gate = IF x.kind = "gate" THEN x.value ELSE f.policy.gate
               /\ g.policy.aux = IF x.kind = "aux" THEN x.value ELSE f.policy.aux
               /\ g.policy.archived = IF x.kind = "archived" THEN TRUE
                                      ELSE IF x.kind = "reactivated" THEN FALSE ELSE f.policy.archived
               /\ g.excl = IF x.kind = "added" THEN f.excl \cup {x.value}
                           ELSE IF x.kind = "removed" THEN f.excl \ {x.value} ELSE f.excl
<1> DEFINE f == FoldStream(e)
           g == FoldStream(e \o <<x>>)
           a == Apply(f, x)
<1>1. f \in Replays /\ SameFields(g.policy, a.policy) /\ g.excl = a.excl
  BY FoldStreamMore
<1>2. /\ a.policy.gate = IF x.kind = "gate" THEN x.value ELSE f.policy.gate
      /\ a.policy.aux = IF x.kind = "aux" THEN x.value ELSE f.policy.aux
      /\ a.policy.archived = IF x.kind = "archived" THEN TRUE
                             ELSE IF x.kind = "reactivated" THEN FALSE ELSE f.policy.archived
      /\ a.excl = IF x.kind = "added" THEN f.excl \cup {x.value}
                  ELSE IF x.kind = "removed" THEN f.excl \ {x.value} ELSE f.excl
  <2> HIDE DEF f
  <2> QED BY <1>1, ApplyCases
<1> HIDE DEF f, g, a
<1>3. /\ g.policy.gate = IF x.kind = "gate" THEN x.value ELSE f.policy.gate
      /\ g.policy.aux = IF x.kind = "aux" THEN x.value ELSE f.policy.aux
      /\ g.policy.archived = IF x.kind = "archived" THEN TRUE
                             ELSE IF x.kind = "reactivated" THEN FALSE ELSE f.policy.archived
      /\ g.excl = IF x.kind = "added" THEN f.excl \cup {x.value}
                  ELSE IF x.kind = "removed" THEN f.excl \ {x.value} ELSE f.excl
  BY <1>1, <1>2 DEF SameFields
<1> QED BY <1>3 DEF f, g

(* A batch decided against the stream it is appended to states the intent. *)
LEMMA BatchRecords ==
    ASSUME NEW e \in Seq(Events), NEW o \in AllOps,
           NEW r \in Replays, r.policy = FoldStream(e).policy,
           Len(e) + Len(Intent(o, r)) <= MaxEvents
    PROVE  SmallBatch(Intent(o, r)) /\ Satisfied(o, FoldStream(e \o Intent(o, r)))
<1> DEFINE b == Intent(o, r)
           f == FoldStream(e)
<1>0. /\ Len(e) \in Nat /\ MaxEvents \in Nat
      /\ \A x, y \in Events : Len(<<x>>) = 1 /\ <<x>> \in Seq(Events)
      /\ \A v \in Fields : /\ Event("gate", v).kind = "gate" /\ Event("gate", v).value = v
                           /\ Event("aux", v).kind = "aux" /\ Event("aux", v).value = v
  BY PolicyAssumption DEF Event
<1>1. CASE o \in UpdateOps
  <2>1. o.kind = "update"
    BY <1>1 DEF UpdateOps
  <2>2. SmallBatch(b)
    BY <1>1, UpdateBatch
  <2>3. \A s : Satisfied(o, s) <=> /\ o.gate = {} \/ s.policy.gate \in o.gate
                                   /\ o.aux = {} \/ s.policy.aux \in o.aux
    BY <2>1 DEF Satisfied
  <2>4. ASSUME b = << >>, Satisfied(o, r)
        PROVE  Satisfied(o, FoldStream(e \o b))
    <3>1. e \o b = e
      BY <2>4, ConcatEmptySeq
    <3> QED BY <2>2, <2>3, <2>4, <3>1
  <2>5. ASSUME NEW v \in Fields, o.gate = {v}, o.aux = {} \/ r.policy.aux \in o.aux,
               Event("gate", v) \in Events, b = <<Event("gate", v)>>
        PROVE  Satisfied(o, FoldStream(e \o b))
    <3> DEFINE g == FoldStream(e \o <<Event("gate", v)>>)
    <3>1. Len(e) + 1 <= MaxEvents
      BY <1>0, <2>5
    <3>2. g.policy.gate = v /\ g.policy.aux = f.policy.aux
      <4> DEFINE x == Event("gate", v)
      <4>1. x \in Events /\ x.kind = "gate" /\ x.value = v
        BY <1>0, <2>5
      <4> HIDE DEF x
      <4>2. FoldStream(e \o <<x>>).policy.gate = v /\ FoldStream(e \o <<x>>).policy.aux = FoldStream(e).policy.aux
        BY <3>1, <4>1, FoldStreamOne
      <4> QED BY <4>2 DEF x
    <3>3. FoldStream(e \o b) = g
      BY <2>5
    <3> QED BY <2>3, <2>5, <3>2, <3>3
  <2>6. ASSUME NEW v \in Fields, o.aux = {v}, o.gate = {} \/ r.policy.gate \in o.gate,
               Event("aux", v) \in Events, b = <<Event("aux", v)>>
        PROVE  Satisfied(o, FoldStream(e \o b))
    <3> DEFINE g == FoldStream(e \o <<Event("aux", v)>>)
    <3>1. Len(e) + 1 <= MaxEvents
      BY <1>0, <2>6
    <3>2. g.policy.aux = v /\ g.policy.gate = f.policy.gate
      <4> DEFINE x == Event("aux", v)
      <4>1. x \in Events /\ x.kind = "aux" /\ x.value = v
        BY <1>0, <2>6
      <4> HIDE DEF x
      <4>2. FoldStream(e \o <<x>>).policy.aux = v /\ FoldStream(e \o <<x>>).policy.gate = FoldStream(e).policy.gate
        BY <3>1, <4>1, FoldStreamOne
      <4> QED BY <4>2 DEF x
    <3>3. FoldStream(e \o b) = g
      BY <2>6
    <3> QED BY <2>3, <2>6, <3>2, <3>3
  <2>7. ASSUME NEW v \in Fields, NEW z \in Fields, o.gate = {v}, o.aux = {z},
               Event("gate", v) \in Events, Event("aux", z) \in Events,
               b = <<Event("gate", v)>> \o <<Event("aux", z)>>
        PROVE  Satisfied(o, FoldStream(e \o b))
    <3> DEFINE d == e \o <<Event("gate", v)>>
               g == FoldStream(d \o <<Event("aux", z)>>)
    <3>1. Len(b) = 2 /\ d \in Seq(Events) /\ Len(d) = Len(e) + 1
      BY <1>0, <2>7, ConcatProperties
    <3>2. e \o b = d \o <<Event("aux", z)>>
      BY <1>0, <2>7, ConcatAssociative
    <3>3. Len(e) + 1 <= MaxEvents /\ Len(d) + 1 <= MaxEvents
      BY <1>0, <3>1
    <3>4. FoldStream(d).policy.gate = v
      <4> DEFINE x == Event("gate", v)
      <4>1. x \in Events /\ x.kind = "gate" /\ x.value = v
        BY <1>0, <2>7
      <4> HIDE DEF x
      <4>2. FoldStream(e \o <<x>>).policy.gate = v
        BY <3>3, <4>1, FoldStreamOne
      <4> QED BY <4>2 DEF x
    <3> HIDE DEF d
    <3>5. g.policy.aux = z /\ g.policy.gate = FoldStream(d).policy.gate
      <4> DEFINE x == Event("aux", z)
      <4>1. x \in Events /\ x.kind = "aux" /\ x.value = z
        BY <1>0, <2>7
      <4> HIDE DEF x
      <4>2. FoldStream(d \o <<x>>).policy.aux = z /\ FoldStream(d \o <<x>>).policy.gate = FoldStream(d).policy.gate
        BY <3>1, <3>3, <4>1, FoldStreamOne
      <4> QED BY <4>2 DEF x
    <3>6. FoldStream(e \o b) = g
      BY <3>2
    <3> QED BY <2>3, <2>7, <3>4, <3>5, <3>6
  <2>8. \/ b = << >> /\ Satisfied(o, r)
        \/ \E v \in Fields : /\ o.gate = {v} /\ (o.aux = {} \/ r.policy.aux \in o.aux)
                             /\ Event("gate", v) \in Events /\ b = <<Event("gate", v)>>
        \/ \E v \in Fields : /\ o.aux = {v} /\ (o.gate = {} \/ r.policy.gate \in o.gate)
                             /\ Event("aux", v) \in Events /\ b = <<Event("aux", v)>>
        \/ \E v, z \in Fields : /\ o.gate = {v} /\ o.aux = {z}
                                /\ Event("gate", v) \in Events /\ Event("aux", z) \in Events
                                /\ b = <<Event("gate", v)>> \o <<Event("aux", z)>>
    BY <1>1, UpdateBatch
  <2> HIDE DEF b
  <2>9. Satisfied(o, FoldStream(e \o b))
    <3>1. CASE \E v \in Fields : /\ o.gate = {v} /\ (o.aux = {} \/ r.policy.aux \in o.aux)
                                 /\ Event("gate", v) \in Events /\ b = <<Event("gate", v)>>
      BY <2>5, <3>1, Zenon
    <3>2. CASE \E v \in Fields : /\ o.aux = {v} /\ (o.gate = {} \/ r.policy.gate \in o.gate)
                                 /\ Event("aux", v) \in Events /\ b = <<Event("aux", v)>>
      BY <2>6, <3>2, Zenon
    <3>3. CASE \E v, z \in Fields : /\ o.gate = {v} /\ o.aux = {z}
                                    /\ Event("gate", v) \in Events /\ Event("aux", z) \in Events
                                    /\ b = <<Event("gate", v)>> \o <<Event("aux", z)>>
      BY <2>7, <3>3, Zenon
    <3> QED BY <2>4, <2>8, <3>1, <3>2, <3>3, Zenon
  <2> QED BY <2>2, <2>9 DEF b
<1>2. ASSUME NEW x \in Events, b = <<x>>,
             \/ x.kind = "archived" /\ \A s : s.policy.archived => Satisfied(o, s)
             \/ x.kind = "reactivated" /\ \A s : ~s.policy.archived => Satisfied(o, s)
             \/ x.kind = "added" /\ \A s : x.value \in s.excl => Satisfied(o, s)
             \/ x.kind = "removed" /\ \A s : x.value \notin s.excl => Satisfied(o, s)
      PROVE  SmallBatch(b) /\ Satisfied(o, FoldStream(e \o b))
  <2> DEFINE g == FoldStream(e \o <<x>>)
  <2>1. Len(e) + 1 <= MaxEvents
    BY <1>0, <1>2
  <2>2. /\ x.kind = "archived" => g.policy.archived
        /\ x.kind = "reactivated" => ~g.policy.archived
        /\ x.kind = "added" => x.value \in g.excl
        /\ x.kind = "removed" => x.value \notin g.excl
    BY <2>1, FoldStreamOne
  <2>3. FoldStream(e \o b) = g
    BY <1>2
  <2> HIDE DEF g, b
  <2>4. Satisfied(o, g)
    BY <1>2, <2>2, Zenon
  <2>5. SmallBatch(b)
    BY <1>2 DEF SmallBatch
  <2> QED BY <2>3, <2>4, <2>5
<1>3. CASE o \in [kind : {"archive", "reactivate"}]
  <2>1. CASE o.kind = "archive"
    <3>1. Event("archived", TRUE) \in Events
      BY DEF Event, Events
    <3>2. b = <<Event("archived", TRUE)>> /\ Event("archived", TRUE).kind = "archived"
      BY <2>1 DEF Intent, Event
    <3>3. \A s : s.policy.archived => Satisfied(o, s)
      BY <2>1 DEF Satisfied
    <3> HIDE DEF b
    <3>4. SmallBatch(b) /\ Satisfied(o, FoldStream(e \o b))
      BY <1>2, <3>1, <3>2, <3>3
    <3> QED BY <3>4 DEF b
  <2>2. CASE o.kind = "reactivate"
    <3>1. Event("reactivated", TRUE) \in Events
      BY DEF Event, Events
    <3>2. b = <<Event("reactivated", TRUE)>> /\ Event("reactivated", TRUE).kind = "reactivated"
      BY <2>2 DEF Intent, Event
    <3>3. \A s : ~s.policy.archived => Satisfied(o, s)
      BY <2>2 DEF Satisfied
    <3> HIDE DEF b
    <3>4. SmallBatch(b) /\ Satisfied(o, FoldStream(e \o b))
      BY <1>2, <3>1, <3>2, <3>3
    <3> QED BY <3>4 DEF b
  <2> QED BY <1>3, <2>1, <2>2
<1>4. CASE o \in [kind : {"add", "remove"}, id : Exclusions]
  <2>0. o.id \in Exclusions /\ o.kind \in {"add", "remove"}
    BY <1>4
  <2>1. CASE o.kind = "add"
    <3>1. Event("added", o.id) \in Events
      BY <2>0 DEF Event, Events
    <3>2. /\ b = <<Event("added", o.id)>>
          /\ Event("added", o.id).kind = "added" /\ Event("added", o.id).value = o.id
      BY <2>1 DEF Intent, Event
    <3>3. \A s : o.id \in s.excl => Satisfied(o, s)
      BY <2>1 DEF Satisfied
    <3> HIDE DEF b
    <3>4. SmallBatch(b) /\ Satisfied(o, FoldStream(e \o b))
      BY <1>2, <3>1, <3>2, <3>3
    <3> QED BY <3>4 DEF b
  <2>2. CASE o.kind = "remove"
    <3>1. Event("removed", o.id) \in Events
      BY <2>0 DEF Event, Events
    <3>2. /\ b = <<Event("removed", o.id)>>
          /\ Event("removed", o.id).kind = "removed" /\ Event("removed", o.id).value = o.id
      BY <2>2 DEF Intent, Event
    <3>3. \A s : o.id \notin s.excl => Satisfied(o, s)
      BY <2>2 DEF Satisfied
    <3> HIDE DEF b
    <3>4. SmallBatch(b) /\ Satisfied(o, FoldStream(e \o b))
      BY <1>2, <3>1, <3>2, <3>3
    <3> QED BY <3>4 DEF b
  <2> QED BY <2>0, <2>1, <2>2
<1> QED BY <1>1, <1>3, <1>4 DEF AllOps

-----------------------------------------------------------------------------
(* The inductive invariant. *)

CallRecords == [stage : Stages, op : AllOps, base : Replays, st : Replays, new : Seq(Events),
                since : Nat, alone : BOOLEAN]

(* The policy is what the stream said at its version. *)
StandsOn(p, s) == p.version <= Len(s) /\ p = FoldStream(SubSeq(s, 1, p.version)).policy

(* The stream has stated the intent since the call began, or since the row *)
(* it read.                                                                *)
Recorded(c, s) == \E n \in Asked(c)..Len(s) : Satisfied(c.op, FoldStream(SubSeq(s, 1, n)))

Deciding == {"listing", "first", "rebase", "second"}

(* A call before its batch lands, and after, for a stream s and a row r. *)
CallDecides(c) ==
    /\ c.stage = "listing" => c.op.kind = "remove"
    /\ c.stage # "second" => c.st.policy = c.base.policy

CallWrites(c, s, r) ==
    /\ c.stage = "exclusion" => c.op.kind \in {"add", "remove"}
    /\ c.alone => c.st.policy.version = Len(s)
    /\ c.alone /\ c.stage = "enqueue" => r = c.st.policy

CallFacts(c, s, r) ==
    /\ StandsOn(c.st.policy, s) /\ c.base.policy.version <= c.st.policy.version
    /\ c.since <= Len(s)
    /\ c.stage \in Deciding => CallDecides(c)
    /\ c.stage \notin Deciding => Recorded(c, s)
    /\ c.stage \notin Deciding \cup {"unchanged"} => CallWrites(c, s, r)

Typed ==
    /\ stream \in Seq(Events) /\ Len(stream) <= MaxEvents
    /\ row \in Policies /\ exclRows \subseteq Exclusions
    /\ calls \in [Writers -> {Idle} \cup CallRecords]
    /\ queued \in 0..MaxQueued /\ faults \in 0..MaxFaults
    /\ enforced \in [gate : Fields, excl : SUBSET Exclusions]

Overlap == \A v, w \in Writers : v # w /\ Busy(v) /\ Busy(w) => ~calls[v].alone

IInv ==
    /\ Typed
    /\ StandsOn(row, stream)
    /\ \A w \in Writers : Busy(w) => CallFacts(calls[w], stream, row)
    /\ Overlap

-----------------------------------------------------------------------------
(* What a longer stream leaves as it was. *)

LEMMA PrefixStable ==
    ASSUME NEW s \in Seq(Events), NEW b \in Seq(Events), NEW n \in 0..Len(s)
    PROVE  /\ SubSeq(s, 1, n) \in Seq(Events) /\ Len(SubSeq(s, 1, n)) = n
           /\ SubSeq(s \o b, 1, n) = SubSeq(s, 1, n)
<1>1. \A i \in 1..n : s[i] \in Events
  OBVIOUS
<1>2. SubSeq(s, 1, n) \in Seq(Events) /\ Len(SubSeq(s, 1, n)) = n
  <2>1. 1 \in Int /\ n \in Int /\ (1 <= n \/ n = 0)
    OBVIOUS
  <2> QED BY <1>1, <2>1, SubSeqProperties
<1>3. CASE n = 0
  BY <1>3, SubSeqEmpty
<1>4. CASE n # 0
  <2>1. 1 \in 1..Len(s) /\ n \in 1..Len(s)
    BY <1>4
  <2> QED BY <2>1, SubSeqOfConcat1
<1> QED BY <1>2, <1>3, <1>4

LEMMA StandsOnGrows ==
    ASSUME NEW s \in Seq(Events), NEW b \in Seq(Events), NEW p \in Policies, StandsOn(p, s)
    PROVE  StandsOn(p, s \o b)
<1>1. p.version \in 0..Len(s)
  BY PolicyFields DEF StandsOn
<1>2. SubSeq(s \o b, 1, p.version) = SubSeq(s, 1, p.version) /\ Len(s \o b) = Len(s) + Len(b) /\ Len(b) \in Nat
  BY <1>1, PrefixStable, ConcatProperties
<1>3. p = FoldStream(SubSeq(s \o b, 1, p.version)).policy
  BY <1>2, Zenon DEF StandsOn
<1>4. p.version <= Len(s \o b)
  BY <1>1, <1>2
<1> QED BY <1>3, <1>4 DEF StandsOn

LEMMA RecordedGrows ==
    ASSUME NEW s \in Seq(Events), NEW b \in Seq(Events), NEW c, Asked(c) \in Nat, Recorded(c, s)
    PROVE  Recorded(c, s \o b)
<1>1. PICK n \in Asked(c)..Len(s) : Satisfied(c.op, FoldStream(SubSeq(s, 1, n)))
  BY DEF Recorded
<1>2. n \in 0..Len(s)
  BY <1>1
<1>3. SubSeq(s \o b, 1, n) = SubSeq(s, 1, n) /\ Len(s \o b) = Len(s) + Len(b) /\ Len(b) \in Nat
  BY <1>2, PrefixStable, ConcatProperties
<1>4. Satisfied(c.op, FoldStream(SubSeq(s \o b, 1, n)))
  BY <1>1, <1>3, Zenon
<1>5. n \in Asked(c)..Len(s \o b)
  BY <1>1, <1>3
<1> QED BY <1>4, <1>5 DEF Recorded

(* The policy that stands on the whole stream. *)
LEMMA StandsOnAll ==
    ASSUME NEW s \in Seq(Events), NEW p
    PROVE  /\ SubSeq(s, 1, Len(s)) = s
           /\ p.version = Len(s) => (StandsOn(p, s) <=> p = FoldStream(s).policy)
<1>1. SubSeq(s, 1, Len(s)) = s
  BY SubSeqFull
<1>2. ASSUME p.version = Len(s)
      PROVE  StandsOn(p, s) <=> p = FoldStream(s).policy
  <2>1. SubSeq(s, 1, p.version) = s /\ p.version <= Len(s)
    BY <1>1, <1>2
  <2> QED BY <2>1 DEF StandsOn
<1> QED BY <1>1, <1>2

(* A call that is not alone keeps its facts whatever others do. *)
LEMMA OthersKeep ==
    ASSUME NEW s \in Seq(Events), NEW b \in Seq(Events), NEW q, NEW r, NEW c \in CallRecords,
           CallFacts(c, s, q), ~c.alone
    PROVE  CallFacts(c, s \o b, r)
<1>1. c.st.policy \in Policies /\ Asked(c) \in Nat
  <2>1. c.st.policy \in Policies /\ c.base.policy.version \in Nat /\ c.since \in Nat
    BY ReplayFields, PolicyFields DEF CallRecords
  <2> QED BY <2>1 DEF Asked
<1>2. StandsOn(c.st.policy, s \o b)
  BY <1>1, StandsOnGrows DEF CallFacts
<1>3. Len(s \o b) = Len(s) + Len(b) /\ Len(b) \in Nat
  BY ConcatProperties
<1>4. Recorded(c, s) => Recorded(c, s \o b)
  BY <1>1, RecordedGrows
<1>5. CallWrites(c, s, q) => CallWrites(c, s \o b, r)
  BY DEF CallWrites
<1>6. c.since \in Nat
  BY DEF CallRecords
<1> QED BY <1>2, <1>3, <1>4, <1>5, <1>6 DEF CallFacts

LEMMA CallShapes ==
    ASSUME NEW c \in {Idle} \cup CallRecords
    PROVE  /\ c.stage # "idle" <=> c \in CallRecords
           /\ c.stage = "idle" <=> c = Idle
  BY DEF Idle, CallRecords, Stages

(* A step of the call at w: what it must supply. *)
LEMMA StepOf ==
    ASSUME IInv, NEW w \in Writers, Busy(w), NEW c \in {Idle} \cup CallRecords,
           Becomes(w, c), c # Idle => c.alone = calls[w].alone,
           NEW b \in Seq(Events), stream' = stream \o b, Len(stream') <= MaxEvents,
           row' \in Policies, StandsOn(row', stream'),
           c # Idle => CallFacts(c, stream', row'),
           exclRows' \subseteq Exclusions, queued' \in 0..MaxQueued, faults' \in 0..MaxFaults,
           enforced' \in [gate : Fields, excl : SUBSET Exclusions]
    PROVE  IInv'
<1> USE DEF IInv, Typed
<1>1. calls' = [calls EXCEPT ![w] = c]
  BY DEF Becomes
<1>2. calls' \in [Writers -> {Idle} \cup CallRecords]
  BY <1>1
<1>3. stream' \in Seq(Events)
  BY ConcatProperties
<1>4. ASSUME NEW v \in Writers, v # w, Busy(v)
      PROVE  CallFacts(calls'[v], stream', row')
  <2>1. calls'[v] = calls[v] /\ calls[v] \in CallRecords
    BY <1>1, <1>4, CallShapes DEF Busy
  <2>2. ~calls[v].alone /\ CallFacts(calls[v], stream, row)
    BY <1>4 DEF Overlap
  <2> QED BY <2>1, <2>2, OthersKeep
<1>5. \A v \in Writers : Busy(v)' => CallFacts(calls'[v], stream', row')
  BY <1>1, <1>4, CallShapes DEF Busy
<1>6. Overlap'
  <2> SUFFICES ASSUME NEW u \in Writers, NEW v \in Writers, u # v, Busy(u)', Busy(v)'
               PROVE  ~calls'[u].alone
    BY DEF Overlap
  <2>1. Busy(u) /\ Busy(v)
    BY <1>1 DEF Busy
  <2>2. ~calls[u].alone
    BY <2>1 DEF Overlap
  <2>3. calls'[u].alone = calls[u].alone
    BY <1>1, CallShapes DEF Busy
  <2> QED BY <2>2, <2>3
<1> QED BY <1>2, <1>3, <1>5, <1>6

-----------------------------------------------------------------------------
(* The steps. *)

LEMMA InitIInv == Init => IInv
<1> SUFFICES ASSUME Init PROVE IInv
  OBVIOUS
<1>1. << >> \in Seq(Events) /\ Len(<< >>) = 0 /\ 0 <= MaxEvents /\ 0 \in 0..MaxQueued /\ 0 \in 0..MaxFaults
  BY PolicyAssumption
<1>2. StandsOn(Created, << >>)
  <2>1. Folded(Replay(Created, {}), << >>) = Replay(Created, {})
    BY FoldedNothing
  <2>2. /\ FoldStream(<< >>) \in Replays /\ SameFields(FoldStream(<< >>).policy, Replay(Created, {}).policy)
        /\ FoldStream(<< >>).policy.version = 0
    BY <1>1, <2>1, FoldStreamFields
  <2>3. Replay(Created, {}).policy = Created /\ Created.version = 0
    BY DEF Replay, Created
  <2>4. FoldStream(<< >>).policy \in Policies /\ Created \in Policies
    BY <2>2, ReplayFields, Beginning
  <2>5. FoldStream(<< >>).policy = Created
    BY <2>2, <2>3, <2>4, PolicyFields
  <2> QED BY <1>1, <2>3, <2>5, StandsOnAll
<1>3. Typed
  <2>1. enforced \in [gate : Fields, excl : SUBSET Exclusions]
    BY DEF Init, Created, Fields
  <2> QED BY <1>1, <2>1, Beginning DEF Init, Typed
<1>4. \A w \in Writers : ~Busy(w)
  BY DEF Init, Busy, Idle
<1> QED BY <1>2, <1>3, <1>4 DEF Init, IInv, Overlap

(* What a call is, and what is left as it is. *)
LEMMA CallOf ==
    ASSUME IInv, NEW w \in Writers, Busy(w)
    PROVE  LET c == calls[w] IN
           /\ c \in CallRecords /\ CallFacts(c, stream, row)
           /\ c.stage \in Stages /\ c.op \in AllOps /\ c.base \in Replays /\ c.st \in Replays
           /\ c.new \in Seq(Events) /\ c.since \in Nat /\ c.alone \in BOOLEAN
           /\ c.base.policy \in Policies /\ c.st.policy \in Policies
<1>1. calls[w] \in CallRecords
  BY CallShapes DEF IInv, Typed, Busy
<1>2. calls[w].base \in Replays /\ calls[w].st \in Replays
  BY <1>1 DEF CallRecords
<1> QED BY <1>1, <1>2, ReplayFields DEF CallRecords, IInv

LEMMA StreamStays ==
    ASSUME IInv, UNCHANGED stream
    PROVE  << >> \in Seq(Events) /\ stream' = stream \o << >> /\ Len(stream') <= MaxEvents
  BY ConcatEmptySeq DEF IInv, Typed

LEMMA BeginStep ==
    ASSUME IInv, NEW w \in Writers, NEW o \in AllOps, Begin(w, o)
    PROVE  IInv'
<1> USE DEF IInv, Typed
<1> DEFINE read == Replay(row, {})
           call == [stage |-> FirstStage(o, read),
                    op |-> o, base |-> read, st |-> read, new |-> << >>,
                    since |-> Len(stream), alone |-> \A v \in Writers : ~Busy(v)]
<1>1. /\ ~Busy(w) /\ Admits(o) /\ UNCHANGED <<stream, row, exclRows, queued, enforced, faults>>
      /\ calls' = [v \in Writers |-> IF v = w THEN call
                                     ELSE IF Busy(v) THEN [calls[v] EXCEPT !.alone = FALSE] ELSE Idle]
  BY DEF Begin
<1>2. read \in Replays /\ read.policy = row
  BY DEF Replays, Replay
<1>3. call \in CallRecords
  <2>1. << >> \in Seq(Events) /\ Len(stream) \in Nat
    OBVIOUS
  <2>2. FirstStage(o, read) \in Stages
    BY DEF FirstStage, Stages
  <2> HIDE DEF read
  <2> QED BY <1>2, <2>1, <2>2 DEF CallRecords
<1>4. CallFacts(call, stream, row)
  <2>2. /\ call.stage \in {"listing", "first", "unchanged"} /\ (call.stage = "listing" => o.kind = "remove")
        /\ call.stage = "unchanged" => o.kind = "update" /\ Satisfied(o, read)
    BY DEF FirstStage
  <2>3. StandsOn(read.policy, stream) /\ row.version \in 0..MaxEvents
    BY <1>2, PolicyFields
  <2>4. ASSUME call.stage = "unchanged" PROVE Recorded(call, stream)
    <3>1. row.version \in 0..Len(stream) /\ Asked(call) = row.version
      BY <1>2, <2>3, <2>4, PolicyFields DEF Asked, StandsOn
    <3>2. row = FoldStream(SubSeq(stream, 1, row.version)).policy
      BY Zenon DEF StandsOn
    <3>3. Satisfied(o, FoldStream(SubSeq(stream, 1, row.version)))
      <4>1. \A s : s.policy = row => Satisfied(o, s)
        BY <1>2, <2>2, <2>4 DEF Satisfied
      <4> QED BY <3>2, <4>1, Zenon
    <3>4. row.version \in Asked(call)..Len(stream) /\ call.op = o
      BY <3>1
    <3> HIDE DEF call
    <3> QED BY <3>3, <3>4, Zenon DEF Recorded
  <2> HIDE DEF read
  <2>5. call.stage # "second" /\ call.st = read /\ call.base = read /\ call.since = Len(stream) /\ call.op = o
    BY <2>2
  <2>6. CallDecides(call)
    BY <2>2, <2>5 DEF CallDecides
  <2> HIDE DEF call
  <2> QED BY <1>2, <2>2, <2>3, <2>4, <2>5, <2>6, PolicyFields DEF CallFacts, Deciding
<1>5. ASSUME NEW v \in Writers, v # w, Busy(v)
      PROVE  /\ calls'[v] \in CallRecords /\ ~calls'[v].alone
             /\ CallFacts(calls'[v], stream, row)
  <2> DEFINE c == calls[v]
             d == [c EXCEPT !.alone = FALSE]
  <2>1. c \in CallRecords /\ CallFacts(c, stream, row)
    BY <1>5, CallOf
  <2>2. calls'[v] = d
    BY <1>1, <1>5
  <2> HIDE DEF c
  <2>3. /\ d \in CallRecords /\ d.stage = c.stage /\ d.op = c.op /\ d.base = c.base /\ d.st = c.st
        /\ d.new = c.new /\ d.since = c.since /\ d.alone = FALSE
    BY <2>1 DEF CallRecords
  <2> HIDE DEF d
  <2>4. CallDecides(c) => CallDecides(d)
    BY <2>3 DEF CallDecides
  <2>5. Recorded(c, stream) => Recorded(d, stream)
    BY <2>3, Zenon DEF Recorded, Asked
  <2>6. CallWrites(c, stream, row) => CallWrites(d, stream, row)
    BY <2>3 DEF CallWrites
  <2> QED BY <2>1, <2>2, <2>3, <2>4, <2>5, <2>6 DEF CallFacts
<1> HIDE DEF call, read
<1>6. calls' \in [Writers -> {Idle} \cup CallRecords]
  <2>1. \A v \in Writers : calls'[v] \in {Idle} \cup CallRecords
    BY <1>1, <1>3, <1>5
  <2>2. calls' = [v \in Writers |-> calls'[v]]
    BY <1>1
  <2> QED BY <2>1, <2>2
<1>7. \A v \in Writers : Busy(v)' => v = w \/ Busy(v)
  BY <1>1 DEF Busy, Idle
<1>8. \A v \in Writers : Busy(v)' => CallFacts(calls'[v], stream', row')
  BY <1>1, <1>4, <1>5, <1>7
<1>9. Overlap'
  <2> SUFFICES ASSUME NEW u \in Writers, NEW v \in Writers, u # v, Busy(u)', Busy(v)'
               PROVE  ~calls'[u].alone
    BY DEF Overlap
  <2>1. CASE u # w
    BY <1>5, <1>7, <2>1
  <2>2. CASE u = w
    <3>1. Busy(v)
      BY <1>7, <2>2
    <3>2. ~call.alone
      BY <3>1 DEF call
    <3> QED BY <1>1, <2>2, <3>2
  <2> QED BY <2>1, <2>2
<1> QED BY <1>1, <1>6, <1>8, <1>9

(* The batch lands: the call stood on the whole stream. *)
LEMMA LandedFacts ==
    ASSUME NEW c \in CallRecords, NEW s \in Seq(Events), NEW q, NEW r,
           CallFacts(c, s, q), c.stage \in {"first", "second"},
           c.st.policy.version = Len(s), Len(s) + Len(Batch(c)) <= MaxEvents
    PROVE  /\ Batch(c) \in Seq(Events) /\ Landed(c) \in CallRecords /\ Landed(c).alone = c.alone
           /\ Len(s \o Batch(c)) <= MaxEvents
           /\ CallFacts(Landed(c), s \o Batch(c), r)
<1> DEFINE b == Batch(c)
           d == Landed(c)
           t == s \o b
<1>1. /\ c.op \in AllOps /\ c.base \in Replays /\ c.st \in Replays /\ c.since \in Nat
      /\ c.base.policy \in Policies /\ c.st.policy \in Policies
  BY ReplayFields DEF CallRecords
<1>2. c.st.policy = FoldStream(s).policy
  BY StandsOnAll DEF CallFacts
<1>3. SmallBatch(b) /\ Satisfied(c.op, FoldStream(t))
  BY <1>1, <1>2, BatchRecords DEF Batch
<1>4. /\ b \in Seq(Events) /\ t \in Seq(Events) /\ Len(t) = Len(s) + Len(b) /\ Len(b) \in Nat
      /\ ApplyBatch(c.st, b) \in Replays /\ ApplyBatch(c.st, b).policy = FoldStream(t).policy
  BY <1>1, <1>2, <1>3, BatchLands, SmallBatchSeq
<1>5. /\ d.new = b /\ d.st = ApplyBatch(c.st, b) /\ d.op = c.op /\ d.base = c.base
      /\ d.since = c.since /\ d.alone = c.alone
      /\ d.stage = IF c.op.kind \in {"add", "remove"} THEN "exclusion" ELSE "projection"
      /\ d \in CallRecords
  <2> HIDE DEF b
  <2>1. d = [c EXCEPT !.new = b, !.st = ApplyBatch(c.st, b),
                      !.stage = IF c.op.kind \in {"add", "remove"} THEN "exclusion" ELSE "projection"]
    BY DEF Landed, b
  <2> HIDE DEF d
  <2> QED BY <1>4, <2>1 DEF CallRecords, Stages
<1>6. Len(t) <= MaxEvents
  BY <1>4
<1>7. d.st.policy.version = Len(t)
  BY <1>4, <1>5, <1>6, FoldStreamFields
<1>8. StandsOn(d.st.policy, t)
  BY <1>4, <1>5, <1>7, StandsOnAll
<1>9. Recorded(d, t)
  <2>1. c.since <= Len(t) /\ Len(t) \in c.since..Len(t)
    BY <1>1, <1>4 DEF CallFacts
  <2>2. Satisfied(d.op, FoldStream(SubSeq(t, 1, Len(t))))
    <3>1. SubSeq(t, 1, Len(t)) = t
      BY <1>4, StandsOnAll
    <3> QED BY <1>3, <1>5, <3>1, Zenon
  <2>3. Asked(d) = c.since
    BY <1>5 DEF Asked
  <2> QED BY <2>1, <2>2, <2>3 DEF Recorded
<1>11. c.base.policy.version <= d.st.policy.version /\ c.since <= Len(t)
  <2>1. c.base.policy.version \in Nat /\ c.base.policy.version <= Len(s)
    BY <1>1, PolicyFields DEF CallFacts
  <2> QED BY <1>1, <1>4, <1>7, <2>1 DEF CallFacts
<1> HIDE DEF b, d, t
<1>12. CallWrites(d, t, r)
  BY <1>5, <1>7 DEF CallWrites
<1>13. CallFacts(d, t, r)
  BY <1>5, <1>8, <1>9, <1>11, <1>12 DEF CallFacts, Deciding
<1> QED BY <1>4, <1>5, <1>6, <1>13 DEF b, d, t

LEMMA AppendStep ==
    ASSUME IInv, NEW w \in Writers, calls[w].stage \in {"first", "second"}, TryAppend(w),
           UNCHANGED <<row, exclRows, queued, enforced, faults>>
    PROVE  IInv'
<1> DEFINE c == calls[w]
<1>1. Busy(w)
  BY DEF Busy
<1>2. c \in CallRecords /\ CallFacts(c, stream, row) /\ stream \in Seq(Events)
  BY <1>1, CallOf DEF IInv, Typed
<1>3. /\ c.st.policy.version = Len(stream) /\ Len(stream) + Len(Batch(c)) <= MaxEvents
      /\ stream' = stream \o Batch(c) /\ Becomes(w, Landed(c))
  BY DEF TryAppend
<1> HIDE DEF c
<1>4. /\ Batch(c) \in Seq(Events) /\ Landed(c) \in CallRecords /\ Landed(c).alone = c.alone
      /\ Len(stream \o Batch(c)) <= MaxEvents
      /\ CallFacts(Landed(c), stream \o Batch(c), row)
  <2>1. c.stage \in {"first", "second"}
    BY DEF c
  <2> QED BY <1>2, <1>3, <2>1, LandedFacts
<1>5. StandsOn(row, stream \o Batch(c))
  BY <1>2, <1>4, StandsOnGrows DEF IInv, Typed
<1>6. /\ Landed(c) \in {Idle} \cup CallRecords /\ Landed(c).alone = calls[w].alone
      /\ Len(stream') <= MaxEvents /\ row' \in Policies /\ StandsOn(row', stream')
      /\ CallFacts(Landed(c), stream', row')
      /\ exclRows' \subseteq Exclusions /\ queued' \in 0..MaxQueued /\ faults' \in 0..MaxFaults
      /\ enforced' \in [gate : Fields, excl : SUBSET Exclusions]
  BY <1>3, <1>4, <1>5 DEF IInv, Typed, c
<1> QED BY <1>1, <1>3, <1>4, <1>6, StepOf

(* A step that leaves the stream. *)
LEMMA StepOnSame ==
    ASSUME IInv, NEW w \in Writers, Busy(w), NEW c \in {Idle} \cup CallRecords,
           Becomes(w, c), c # Idle => c.alone = calls[w].alone, UNCHANGED stream,
           row' \in Policies, StandsOn(row', stream),
           c # Idle => CallFacts(c, stream, row'),
           exclRows' \subseteq Exclusions, queued' \in 0..MaxQueued, faults' \in 0..MaxFaults,
           enforced' \in [gate : Fields, excl : SUBSET Exclusions]
    PROVE  IInv'
<1>1. << >> \in Seq(Events) /\ stream' = stream \o << >> /\ Len(stream') <= MaxEvents /\ stream' = stream
  BY StreamStays
<1>2. StandsOn(row', stream') /\ (c # Idle => CallFacts(c, stream', row'))
  BY <1>1
<1> QED BY <1>1, <1>2, StepOf

LEMMA ListStep ==
    ASSUME IInv, NEW w \in Writers, ListExclusions(w)
    PROVE  IInv'
<1> DEFINE c == calls[w]
           d == [c EXCEPT !.stage = "first", !.base.excl = exclRows, !.st.excl = exclRows]
           n == IF c.op.id \in exclRows THEN d ELSE Idle
<1>1. Busy(w) /\ c.stage = "listing" /\ Becomes(w, n) /\ UNCHANGED <<stream, row, exclRows, queued, enforced, faults>>
  BY DEF ListExclusions, At, Busy
<1>2. c \in CallRecords /\ CallFacts(c, stream, row) /\ c.base \in Replays /\ c.st \in Replays
  BY <1>1, CallOf
<1> HIDE DEF c
<1>3. /\ d \in CallRecords /\ d.stage = "first" /\ d.op = c.op /\ d.base.policy = c.base.policy
      /\ d.st.policy = c.st.policy /\ d.new = c.new /\ d.since = c.since /\ d.alone = c.alone
  BY <1>2 DEF CallRecords, Stages, Replays, IInv, Typed
<1> HIDE DEF d
<1>4. c.op.kind = "remove" /\ CallDecides(c)
  BY <1>1, <1>2 DEF CallFacts, CallDecides, Deciding
<1>5. CallDecides(d)
  BY <1>1, <1>3, <1>4 DEF CallDecides
<1>6. CallFacts(d, stream, row)
  BY <1>2, <1>3, <1>4, <1>5 DEF CallFacts, Deciding
<1>7. /\ n \in {Idle} \cup CallRecords /\ (n # Idle => n.alone = calls[w].alone /\ CallFacts(n, stream, row'))
      /\ row' \in Policies /\ StandsOn(row', stream)
      /\ exclRows' \subseteq Exclusions /\ queued' \in 0..MaxQueued /\ faults' \in 0..MaxFaults
      /\ enforced' \in [gate : Fields, excl : SUBSET Exclusions]
  BY <1>1, <1>3, <1>6 DEF IInv, Typed, c
<1> HIDE DEF n
<1> QED BY <1>1, <1>7, StepOnSame

LEMMA FirstStep ==
    ASSUME IInv, NEW w \in Writers, FirstAttempt(w)
    PROVE  IInv'
<1>1. CASE TryAppend(w)
  BY <1>1, AppendStep DEF FirstAttempt, At
<1>2. CASE ~TryAppend(w)
  <2> DEFINE c == calls[w]
             d == [c EXCEPT !.stage = "rebase"]
  <2>1. /\ Busy(w) /\ c.stage = "first" /\ Becomes(w, d)
        /\ UNCHANGED <<stream, row, exclRows, queued, enforced, faults>>
    BY <1>2 DEF FirstAttempt, At, Busy
  <2>2. c \in CallRecords /\ CallFacts(c, stream, row)
    BY <2>1, CallOf
  <2> HIDE DEF c
  <2>3. /\ d \in CallRecords /\ d.stage = "rebase" /\ d.op = c.op /\ d.base = c.base
        /\ d.st = c.st /\ d.new = c.new /\ d.since = c.since /\ d.alone = c.alone
    BY <2>2 DEF CallRecords, Stages
  <2> HIDE DEF d
  <2>4. CallDecides(d)
    BY <2>1, <2>2, <2>3 DEF CallFacts, CallDecides, Deciding
  <2>5. CallFacts(d, stream, row)
    BY <2>2, <2>3, <2>4 DEF CallFacts, Deciding
  <2>6. /\ d \in {Idle} \cup CallRecords /\ d.alone = calls[w].alone /\ CallFacts(d, stream, row')
        /\ row' \in Policies /\ StandsOn(row', stream)
        /\ exclRows' \subseteq Exclusions /\ queued' \in 0..MaxQueued /\ faults' \in 0..MaxFaults
        /\ enforced' \in [gate : Fields, excl : SUBSET Exclusions]
    BY <2>1, <2>3, <2>5 DEF IInv, Typed, c
  <2> QED BY <2>1, <2>6, StepOnSame
<1> QED BY <1>1, <1>2

(* A call that only ends. *)
LEMMA EndStep ==
    ASSUME IInv, NEW w \in Writers, Busy(w), Becomes(w, Idle),
           UNCHANGED <<stream, row, exclRows, enforced>>,
           queued' \in 0..MaxQueued, faults' \in 0..MaxFaults
    PROVE  IInv'
<1>1. /\ Idle \in {Idle} \cup CallRecords /\ row' \in Policies /\ StandsOn(row', stream)
      /\ exclRows' \subseteq Exclusions /\ enforced' \in [gate : Fields, excl : SUBSET Exclusions]
  BY DEF IInv, Typed
<1> DEFINE c == Idle
<1>2. c \in {Idle} \cup CallRecords /\ Becomes(w, c) /\ ~(c # Idle)
  BY <1>1
<1> HIDE DEF c
<1> QED BY <1>1, <1>2, StepOnSame

LEMMA RebaseStep ==
    ASSUME IInv, NEW w \in Writers, Rebase(w)
    PROVE  IInv'
<1> DEFINE c == calls[w]
           s == FoldStream(stream)
           h == [c EXCEPT !.st = s, !.stage = IF c.op.kind = "remove" THEN "exclusion" ELSE "projection"]
           d == [c EXCEPT !.st = s, !.stage = "second"]
           n == IF Refused(c.op, s) THEN Idle ELSE IF Satisfied(c.op, s) THEN h ELSE d
<1>1. /\ Busy(w) /\ c.stage = "rebase" /\ Becomes(w, n)
      /\ UNCHANGED <<stream, row, exclRows, queued, enforced, faults>>
  BY DEF Rebase, At, Busy, Rebased, Healed
<1>2. /\ c \in CallRecords /\ CallFacts(c, stream, row) /\ c.base.policy \in Policies
      /\ c.since \in Nat /\ c.op \in AllOps
  BY <1>1, CallOf
<1>3. stream \in Seq(Events) /\ Len(stream) <= MaxEvents
  BY DEF IInv, Typed
<1>4. s \in Replays /\ s.policy.version = Len(stream)
  BY <1>3, FoldStreamFields
<1>5. StandsOn(s.policy, stream)
  BY <1>3, <1>4, StandsOnAll
<1>6. c.base.policy.version <= Len(stream) /\ c.since <= Len(stream) /\ CallDecides(c)
  BY <1>1, <1>2, PolicyFields DEF CallFacts, CallDecides, StandsOn, Deciding
<1>7. Satisfied(c.op, s) => Recorded(c, stream) /\ Asked(c) = c.since
  <2>1. Len(stream) \in c.since..Len(stream)
    BY <1>2, <1>3, <1>6
  <2>2. SubSeq(stream, 1, Len(stream)) = stream
    BY <1>3, StandsOnAll
  <2>3. Asked(c) = c.since
    BY <1>1 DEF Asked
  <2> QED BY <2>1, <2>2, <2>3, Zenon DEF Recorded
<1> HIDE DEF c, s
<1>8. ASSUME Satisfied(c.op, s)
      PROVE  h \in CallRecords /\ h.alone = c.alone /\ CallFacts(h, stream, row)
  <2>1. /\ h \in CallRecords /\ h.op = c.op /\ h.base = c.base
        /\ h.st = s /\ h.new = c.new /\ h.since = c.since /\ h.alone = c.alone
        /\ h.stage = IF c.op.kind = "remove" THEN "exclusion" ELSE "projection"
    BY <1>2, <1>4 DEF CallRecords, Stages
  <2> HIDE DEF h
  <2>2. Recorded(h, stream)
    <3>1. Asked(h) = Asked(c) /\ h.op = c.op
      BY <1>7, <1>8, <2>1 DEF Asked
    <3> QED BY <1>7, <1>8, <3>1 DEF Recorded
  <2>3. CallWrites(h, stream, row)
    BY <1>4, <2>1 DEF CallWrites
  <2> QED BY <1>2, <1>4, <1>5, <1>6, <2>1, <2>2, <2>3 DEF CallFacts, Deciding
<1>9. ASSUME ~Satisfied(c.op, s)
      PROVE  d \in CallRecords /\ d.alone = c.alone /\ CallFacts(d, stream, row)
  <2>1. /\ d \in CallRecords /\ d.op = c.op /\ d.base = c.base /\ d.stage = "second"
        /\ d.st = s /\ d.new = c.new /\ d.since = c.since /\ d.alone = c.alone
    BY <1>2, <1>4 DEF CallRecords, Stages
  <2> HIDE DEF d
  <2>2. CallDecides(d)
    BY <1>6, <1>9, <2>1 DEF CallDecides
  <2> QED BY <1>2, <1>4, <1>5, <1>6, <2>1, <2>2 DEF CallFacts, Deciding
<1> HIDE DEF h, d
<1>10. /\ n \in {Idle} \cup CallRecords /\ (n # Idle => n.alone = calls[w].alone /\ CallFacts(n, stream, row'))
       /\ row' \in Policies /\ StandsOn(row', stream)
       /\ exclRows' \subseteq Exclusions /\ queued' \in 0..MaxQueued /\ faults' \in 0..MaxFaults
       /\ enforced' \in [gate : Fields, excl : SUBSET Exclusions]
  BY <1>1, <1>8, <1>9 DEF IInv, Typed, c
<1> HIDE DEF n
<1> QED BY <1>1, <1>10, StepOnSame

LEMMA SecondStep ==
    ASSUME IInv, NEW w \in Writers, SecondAttempt(w)
    PROVE  IInv'
<1>1. CASE TryAppend(w)
  BY <1>1, AppendStep DEF SecondAttempt, At
<1>2. CASE ~TryAppend(w)
  <2>1. /\ Busy(w) /\ Becomes(w, Idle) /\ UNCHANGED <<stream, row, exclRows, enforced>>
        /\ queued' \in 0..MaxQueued /\ faults' \in 0..MaxFaults
    BY <1>2 DEF SecondAttempt, At, Busy, IInv, Typed
  <2> QED BY <2>1, EndStep
<1> QED BY <1>1, <1>2

LEMMA ExclusionStep ==
    ASSUME IInv, NEW w \in Writers, WriteExclusion(w)
    PROVE  IInv'
<1> DEFINE c == calls[w]
           d == [c EXCEPT !.stage = "projection"]
<1>1. /\ Busy(w) /\ c.stage = "exclusion" /\ Becomes(w, d)
      /\ exclRows' = (IF c.op.kind = "add" THEN exclRows \cup {c.op.id} ELSE exclRows \ {c.op.id})
      /\ UNCHANGED <<stream, row, queued, enforced, faults>>
  BY DEF WriteExclusion, At, Busy
<1>2. c \in CallRecords /\ CallFacts(c, stream, row) /\ c.op \in AllOps
  BY <1>1, CallOf
<1> HIDE DEF c
<1>3. /\ d \in CallRecords /\ d.stage = "projection" /\ d.op = c.op /\ d.base = c.base
      /\ d.st = c.st /\ d.new = c.new /\ d.since = c.since /\ d.alone = c.alone
  BY <1>2 DEF CallRecords, Stages
<1> HIDE DEF d
<1>4. CallWrites(c, stream, row)
  BY <1>1, <1>2 DEF CallFacts, Deciding
<1>5. Recorded(d, stream)
  <2>1. Asked(d) = Asked(c) /\ d.op = c.op
    BY <1>1, <1>3 DEF Asked
  <2>2. Recorded(c, stream)
    BY <1>1, <1>2 DEF CallFacts, Deciding
  <2> QED BY <2>1, <2>2 DEF Recorded
<1>6. CallWrites(d, stream, row)
  BY <1>3, <1>4 DEF CallWrites
<1>7. CallFacts(d, stream, row)
  BY <1>2, <1>3, <1>5, <1>6 DEF CallFacts, Deciding
<1>8. exclRows' \subseteq Exclusions
  <2>1. c.op.kind = "add" => c.op.id \in Exclusions
    BY <1>2 DEF AllOps, UpdateOps
  <2> QED BY <1>1, <2>1 DEF IInv, Typed
<1>9. /\ d \in {Idle} \cup CallRecords /\ d.alone = calls[w].alone /\ CallFacts(d, stream, row')
      /\ row' \in Policies /\ StandsOn(row', stream)
      /\ queued' \in 0..MaxQueued /\ faults' \in 0..MaxFaults
      /\ enforced' \in [gate : Fields, excl : SUBSET Exclusions]
  BY <1>1, <1>3, <1>7 DEF IInv, Typed, c
<1> QED BY <1>1, <1>8, <1>9, StepOnSame

LEMMA ProjectionStep ==
    ASSUME IInv, NEW w \in Writers, WriteProjection(w)
    PROVE  IInv'
<1> DEFINE c == calls[w]
           d == [c EXCEPT !.stage = "enqueue"]
           n == IF Owes(c) THEN d ELSE Idle
<1>1. /\ Busy(w) /\ c.stage = "projection" /\ Becomes(w, n) /\ row' = c.st.policy
      /\ UNCHANGED <<stream, exclRows, queued, enforced, faults>>
  BY DEF WriteProjection, At, Busy
<1>2. c \in CallRecords /\ CallFacts(c, stream, row) /\ c.st.policy \in Policies
  BY <1>1, CallOf
<1> HIDE DEF c
<1>3. /\ d \in CallRecords /\ d.stage = "enqueue" /\ d.op = c.op /\ d.base = c.base
      /\ d.st = c.st /\ d.new = c.new /\ d.since = c.since /\ d.alone = c.alone
  BY <1>2 DEF CallRecords, Stages
<1> HIDE DEF d
<1>4. CallWrites(c, stream, row)
  BY <1>1, <1>2 DEF CallFacts, Deciding
<1>5. Recorded(d, stream)
  <2>1. Asked(d) = Asked(c) /\ d.op = c.op
    BY <1>1, <1>3 DEF Asked
  <2>2. Recorded(c, stream)
    BY <1>1, <1>2 DEF CallFacts, Deciding
  <2> QED BY <2>1, <2>2 DEF Recorded
<1>6. CallWrites(d, stream, row')
  BY <1>1, <1>3, <1>4 DEF CallWrites
<1>7. CallFacts(d, stream, row')
  BY <1>2, <1>3, <1>5, <1>6 DEF CallFacts, Deciding
<1>8. /\ n \in {Idle} \cup CallRecords /\ (n # Idle => n.alone = calls[w].alone /\ CallFacts(n, stream, row'))
      /\ row' \in Policies /\ StandsOn(row', stream)
      /\ exclRows' \subseteq Exclusions /\ queued' \in 0..MaxQueued /\ faults' \in 0..MaxFaults
      /\ enforced' \in [gate : Fields, excl : SUBSET Exclusions]
  BY <1>1, <1>2, <1>3, <1>7 DEF IInv, Typed, CallFacts, c
<1> HIDE DEF n
<1> QED BY <1>1, <1>8, StepOnSame

LEMMA AnswerStep ==
    ASSUME IInv, NEW w \in Writers, AnswerFromRow(w)
    PROVE  IInv'
<1>1. /\ Busy(w) /\ Becomes(w, Idle) /\ UNCHANGED <<stream, row, exclRows, enforced>>
      /\ queued' \in 0..MaxQueued /\ faults' \in 0..MaxFaults
  BY DEF AnswerFromRow, At, Busy, IInv, Typed
<1> QED BY <1>1, EndStep

LEMMA EnqueueStep ==
    ASSUME IInv, NEW w \in Writers, Enqueue(w)
    PROVE  IInv'
<1>1. /\ Busy(w) /\ Becomes(w, Idle) /\ UNCHANGED <<stream, row, exclRows, enforced>>
  BY DEF Enqueue, At, Busy
<1>2. queued' \in 0..MaxQueued /\ faults' \in 0..MaxFaults
  BY PolicyAssumption DEF Enqueue, IInv, Typed
<1> QED BY <1>1, <1>2, EndStep

LEMMA FailStep ==
    ASSUME IInv, NEW w \in Writers, Fail(w)
    PROVE  IInv'
<1>1. /\ Busy(w) /\ Becomes(w, Idle) /\ UNCHANGED <<stream, row, exclRows, enforced>>
  BY DEF Fail
<1>2. queued' \in 0..MaxQueued /\ faults' \in 0..MaxFaults
  BY PolicyAssumption DEF Fail, IInv, Typed
<1> QED BY <1>1, <1>2, EndStep

(* A step that leaves the stream, the row and the calls. *)
LEMMA PassStep ==
    ASSUME IInv, RunPass \/ UNCHANGED vars
    PROVE  IInv'
<1>1. UNCHANGED <<stream, row, calls, exclRows, faults>>
  BY DEF RunPass, vars
<1>2. queued' \in 0..MaxQueued /\ enforced' \in [gate : Fields, excl : SUBSET Exclusions]
  <2>1. CASE UNCHANGED vars
    BY <2>1 DEF vars, IInv, Typed
  <2>2. CASE RunPass
    <3>1. row.gate \in Fields
      BY PolicyFields DEF IInv, Typed
    <3> QED BY <2>2, <3>1, PolicyAssumption DEF RunPass, IInv, Typed
  <2> QED BY <2>1, <2>2
<1>3. Typed'
  BY <1>1, <1>2 DEF IInv, Typed
<1>4. \A w \in Writers : Busy(w)' <=> Busy(w)
  BY <1>1 DEF Busy
<1>5. Overlap'
  BY <1>1, <1>4 DEF IInv, Overlap
<1> QED BY <1>1, <1>3, <1>4, <1>5 DEF IInv

LEMMA NextIInv == IInv /\ [Next]_vars => IInv'
<1> SUFFICES ASSUME IInv, [Next]_vars PROVE IInv'
  OBVIOUS
<1>1. ASSUME NEW w \in Writers, NEW o \in AllOps, Begin(w, o) PROVE IInv'
  BY <1>1, BeginStep
<1>2. ASSUME NEW w \in Writers,
             \/ AnswerFromRow(w) \/ ListExclusions(w) \/ FirstAttempt(w) \/ Rebase(w) \/ SecondAttempt(w)
             \/ WriteExclusion(w) \/ WriteProjection(w) \/ Enqueue(w) \/ Fail(w)
      PROVE  IInv'
  BY <1>2, AnswerStep, ListStep, FirstStep, RebaseStep, SecondStep, ExclusionStep, ProjectionStep, EnqueueStep, FailStep
<1> QED BY <1>1, <1>2, PassStep DEF Next

-----------------------------------------------------------------------------
(* The theorems. *)

LEMMA Invariance == Spec => []IInv
  BY InitIInv, NextIInv, PTL DEF Spec

(* The state has its type, and no row or call stands on a version the      *)
(* stream has not reached.                                                 *)
THEOREM TypeCorrect == Spec => []TypeOK
<1>1. IInv => TypeOK
  <2> SUFFICES ASSUME IInv PROVE TypeOK
    OBVIOUS
  <2>1. row.version <= Len(stream)
    BY DEF IInv, StandsOn
  <2>2. ASSUME NEW w \in Writers, calls[w] # Idle
        PROVE  LET c == calls[w]
               IN  /\ c.stage \in Stages /\ c.op \in AllOps
                   /\ {c.base, c.st} \subseteq Replays /\ c.new \in Seq(Events)
                   /\ c.since <= Len(stream) /\ c.alone \in BOOLEAN
                   /\ c.base.policy.version <= c.st.policy.version
                   /\ c.st.policy.version <= Len(stream)
    <3>1. Busy(w)
      BY <2>2, CallShapes DEF IInv, Typed, Busy
    <3> QED BY <3>1, CallOf DEF CallFacts, StandsOn
  <2> QED BY <2>1, <2>2 DEF TypeOK, IInv, Typed
<1> QED BY <1>1, Invariance, PTL

(* The projection row, and the policy every call is about to write, is     *)
(* what the stream said at the version it carries, for any writers and     *)
(* whatever calls overlap, fail or overwrite each other's row              *)
(* (apply_policy_batch, rebase_policy_from_stream).                        *)
THEOREM RowFollowsStream == Spec => []RowIsStreamPrefix
<1>1. IInv => RowIsStreamPrefix
  <2> SUFFICES ASSUME IInv PROVE RowIsStreamPrefix
    OBVIOUS
  <2>1. row = FoldStream(SubSeq(stream, 1, row.version)).policy
    BY Zenon DEF IInv, StandsOn
  <2>2. ASSUME NEW w \in {v \in Writers : Busy(v)}
        PROVE  calls[w].st.policy = FoldStream(SubSeq(stream, 1, calls[w].st.policy.version)).policy
    <3>1. CallFacts(calls[w], stream, row)
      BY CallOf
    <3> QED BY <3>1, Zenon DEF CallFacts, StandsOn
  <2> QED BY <2>1, <2>2, Zenon DEF RowIsStreamPrefix
<1> QED BY <1>1, Invariance, PTL

(* A call is told Ok from the row, by its last write that owes no pass, or *)
(* at its enqueue.                                                         *)
LEMMA SuccessShape ==
    ASSUME IInv, [Next]_vars, NEW w \in Writers, Succeeds(w)
    PROVE  /\ Busy(w) /\ calls[w].stage \notin Deciding
           /\ \/ calls[w].stage = "unchanged"
              \/ calls[w].stage = "projection" /\ row' = calls[w].st.policy
              \/ calls[w].stage = "enqueue" /\ row' = row
           /\ stream' = stream
<1> DEFINE Goal == AnswerFromRow(w) \/ WriteProjection(w) \/ Enqueue(w)
<1>1. /\ Busy(w) /\ calls[w].stage \in {"unchanged", "projection", "enqueue"} /\ calls'[w] = Idle
      /\ faults' = faults \/ calls[w].stage = "enqueue"
  BY DEF Succeeds, At
<1>2. calls \in [Writers -> {Idle} \cup CallRecords] /\ calls[w] \in CallRecords /\ faults \in Nat
  BY <1>1, CallOf DEF IInv, Typed
<1>3. calls'[w] # calls[w]
  BY <1>1 DEF Idle
<1>4. ASSUME NEW v \in Writers, NEW o \in AllOps, Begin(v, o) PROVE Goal
  <2>1. v # w
    BY <1>1, <1>4 DEF Begin
  <2>2. calls'[w] = [calls[w] EXCEPT !.alone = FALSE]
    BY <1>1, <1>4, <2>1 DEF Begin
  <2>3. calls'[w].stage = calls[w].stage
    BY <1>2, <2>2 DEF CallRecords
  <2> QED BY <1>1, <2>3 DEF Idle
<1>5. ASSUME NEW v \in Writers,
             \/ AnswerFromRow(v) \/ ListExclusions(v) \/ FirstAttempt(v) \/ Rebase(v) \/ SecondAttempt(v)
             \/ WriteExclusion(v) \/ WriteProjection(v) \/ Enqueue(v) \/ Fail(v)
      PROVE  Goal
  <2>1. \E c : Becomes(v, c)
    BY <1>5, Zenon DEF AnswerFromRow, ListExclusions, FirstAttempt, TryAppend, Rebase, SecondAttempt, WriteExclusion,
                WriteProjection, Enqueue, Fail
  <2>2. v = w
    BY <1>2, <1>3, <2>1 DEF Becomes
  <2>3. AnswerFromRow(w) \/ WriteProjection(w) \/ Enqueue(w) \/ Fail(w)
    BY <1>1, <1>5, <2>2 DEF ListExclusions, FirstAttempt, Rebase, SecondAttempt, WriteExclusion, At
  <2>4. ~Fail(w)
    BY <1>1, <1>2 DEF Fail, At
  <2> QED BY <2>3, <2>4
<1>6. Goal
  BY <1>1, <1>3, <1>4, <1>5 DEF Next, RunPass, vars
<1> QED BY <1>1, <1>6 DEF AnswerFromRow, WriteProjection, Enqueue, At, Deciding

(* A call that no other call overlapped, and that the row did not answer,  *)
(* leaves the row at the head of the stream, however far behind an earlier *)
(* failed write had left it (write_projection).                            *)
THEOREM AloneCallHealsTheRow == Spec => AloneCallHeals
<1>1. IInv /\ [Next]_vars =>
        [\A w \in Writers : Succeeds(w) /\ calls[w].alone /\ ~At(w, "unchanged")
                            => row' = FoldStream(stream').policy]_vars
  <2> SUFFICES ASSUME IInv, [Next]_vars, NEW w \in Writers, Succeeds(w), calls[w].alone, ~At(w, "unchanged")
               PROVE  row' = FoldStream(stream').policy
    OBVIOUS
  <2> DEFINE c == calls[w]
  <2>1. /\ Busy(w) /\ c.stage \notin Deciding /\ c.stage # "unchanged" /\ stream' = stream
        /\ \/ c.stage = "projection" /\ row' = c.st.policy
           \/ c.stage = "enqueue" /\ row' = row
    BY SuccessShape DEF At
  <2>2. CallFacts(c, stream, row) /\ stream \in Seq(Events)
    BY <2>1, CallOf DEF IInv, Typed
  <2>3. row' = c.st.policy /\ c.st.policy.version = Len(stream)
    BY <2>1, <2>2 DEF CallFacts, CallWrites
  <2>4. c.st.policy = FoldStream(stream).policy
    BY <2>2, <2>3, StandsOnAll DEF CallFacts
  <2> QED BY <2>1, <2>3, <2>4
<1> QED BY <1>1, Invariance, PTL DEF Spec, AloneCallHeals

(* A call that is told Ok has its intent on record: the stream stated what *)
(* it asked for between its beginning and its answer, or, if the row       *)
(* answered it, at that row's version or later.                            *)
THEOREM IntentIsRecorded == Spec => IntentRecorded
<1>1. IInv /\ [Next]_vars =>
        [\A w \in Writers : Succeeds(w) =>
           \E n \in Asked(calls[w])..Len(stream) :
              Satisfied(calls[w].op, FoldStream(SubSeq(stream, 1, n)))]_vars
  <2> SUFFICES ASSUME IInv, [Next]_vars, NEW w \in Writers, Succeeds(w)
               PROVE  Recorded(calls[w], stream)
    BY DEF Recorded
  <2>1. Busy(w) /\ calls[w].stage \notin Deciding
    BY SuccessShape
  <2> QED BY <2>1, CallOf DEF CallFacts
<1> QED BY <1>1, Invariance, PTL DEF Spec, IntentRecorded

=============================================================================
