--------------------------- MODULE BacklogProofs ---------------------------
(***************************************************************************)
(* Two bounds on what a paged pass over a backlog leaves out: the tighten  *)
(* walk misses no more artifacts than others took out of its population,   *)
(* and the release sweep leaves a waiting candidate out of no more batches *)
(* than Rotation and the faults account for.                               *)
(***************************************************************************)
EXTENDS SweepRotation, TightenWalk, FiniteSetTheorems, FunctionTheorems, SequenceTheorems, WellFoundedInduction, TLAPS

-----------------------------------------------------------------------------
(* Counting. *)

LEMMA NatWellFounded == IsWellFoundedOn({ss \in Nat \X Nat : ss[1] < ss[2]}, Nat)
BY NatLessThanWellFounded DEF OpToRel

LEMMA LeastNat ==
    ASSUME NEW S \in SUBSET Nat, S # {}
    PROVE  \E m \in S : \A k \in S : m <= k
<1>1. PICK x \in S : \A y \in S : ~(<<y, x>> \in {ss \in Nat \X Nat : ss[1] < ss[2]})
  BY NatWellFounded, WFMin, Zenon
<1>2. \A y \in S : ~(y < x)
  <2> TAKE y \in S
  <2>1. <<y, x>> \in Nat \X Nat /\ <<y, x>>[1] = y /\ <<y, x>>[2] = x
    OBVIOUS
  <2> QED BY <1>1, <2>1
<1> QED BY <1>2

LEMMA PartCount ==
    ASSUME NEW T, IsFiniteSet(T), NEW S \in SUBSET T
    PROVE  /\ IsFiniteSet(S) /\ Cardinality(S) \in Nat /\ Cardinality(T) \in Nat
           /\ Cardinality(S) <= Cardinality(T)
  BY FS_Subset, FS_CardinalityType

LEMMA SumCount ==
    ASSUME NEW S, NEW T, IsFiniteSet(S), IsFiniteSet(T)
    PROVE  /\ IsFiniteSet(S \cup T)
           /\ Cardinality(S) \in Nat /\ Cardinality(T) \in Nat /\ Cardinality(S \cup T) \in Nat
           /\ Cardinality(S \cup T) <= Cardinality(S) + Cardinality(T)
           /\ S \cap T = {} => Cardinality(S \cup T) = Cardinality(S) + Cardinality(T)
<1>1. /\ IsFiniteSet(S \cup T) /\ IsFiniteSet(S \cap T)
      /\ Cardinality(S \cup T) = Cardinality(S) + Cardinality(T) - Cardinality(S \cap T)
  BY FS_Union, FS_Intersection
<1>2. Cardinality(S) \in Nat /\ Cardinality(T) \in Nat /\ Cardinality(S \cup T) \in Nat /\ Cardinality(S \cap T) \in Nat
  BY <1>1, FS_CardinalityType
<1>3. S \cap T = {} => Cardinality(S \cap T) = 0
  BY FS_EmptySet
<1> QED BY <1>1, <1>2, <1>3

LEMMA OneMoreCount ==
    ASSUME NEW S, IsFiniteSet(S), NEW x
    PROVE  /\ IsFiniteSet(S \cup {x}) /\ Cardinality(S) \in Nat
           /\ Cardinality(S \cup {x}) = IF x \in S THEN Cardinality(S) ELSE Cardinality(S) + 1
  BY FS_AddElement, FS_CardinalityType

LEMMA OneLessCount ==
    ASSUME NEW S, IsFiniteSet(S), NEW x
    PROVE  /\ IsFiniteSet(S \ {x}) /\ Cardinality(S) \in Nat /\ Cardinality(S \ {x}) \in Nat
           /\ Cardinality(S \ {x}) = IF x \in S THEN Cardinality(S) - 1 ELSE Cardinality(S)
  BY FS_RemoveElement, FS_CardinalityType

LEMMA OneLessBound ==
    ASSUME NEW S, IsFiniteSet(S), NEW x, NEW T, T = S \ {x}
    PROVE  Cardinality(T) \in Nat /\ Cardinality(S) \in Nat /\ Cardinality(S) <= Cardinality(T) + 1
<1>1. /\ Cardinality(S) \in Nat /\ Cardinality(T) \in Nat
      /\ Cardinality(T) = IF x \in S THEN Cardinality(S) - 1 ELSE Cardinality(S)
  BY OneLessCount
<1> QED BY <1>1

-----------------------------------------------------------------------------
(* Positions in a finite set of naturals. *)

Pos(A, a) == Cardinality({b \in A : b <= a})
LowPart(A, o) == {b \in A : Pos(A, b) <= o}
PagePart(A, o, k) == {a \in A : o < Pos(A, a) /\ Pos(A, a) <= o + k}

UnderPart(A, f) == {b \in A : b < f}
AheadPart(A, f, o) == {b \in A : f <= b /\ Pos(A, b) <= o}

LEMMA PosFacts ==
    ASSUME NEW A \in SUBSET Nat, IsFiniteSet(A), NEW a \in Nat, NEW b \in Nat
    PROVE  /\ Pos(A, a) \in Nat /\ Pos(A, a) <= Cardinality(A) /\ Cardinality(A) \in Nat
           /\ a <= b => Pos(A, a) <= Pos(A, b)
           /\ a < b /\ b \in A => Pos(A, a) < Pos(A, b)
<1> DEFINE P(x) == {c \in A : c <= x}
<1>1. IsFiniteSet(P(b)) /\ IsFiniteSet(P(a)) /\ P(a) \in SUBSET A
  BY PartCount
<1>2. Cardinality(P(a)) \in Nat /\ Cardinality(P(a)) <= Cardinality(A) /\ Cardinality(A) \in Nat
  BY <1>1, PartCount
<1>3. ASSUME a <= b PROVE Cardinality(P(a)) <= Cardinality(P(b))
  <2>1. P(a) \in SUBSET P(b)
    <3> SUFFICES ASSUME NEW c \in A, c <= a PROVE c <= b
      OBVIOUS
    <3>1. c \in Nat
      OBVIOUS
    <3> QED BY <1>3, <3>1
  <2> QED BY <1>1, <2>1, PartCount
<1>4. ASSUME a < b, b \in A PROVE Cardinality(P(a)) < Cardinality(P(b))
  <2>1. P(a) \cup {b} \in SUBSET P(b) /\ b \notin P(a)
    <3>1. ASSUME NEW c \in A, c <= a PROVE c <= b
      <4>1. c \in Nat
        OBVIOUS
      <4> QED BY <1>4, <3>1, <4>1
    <3>2. b <= b /\ ~(b <= a)
      BY <1>4
    <3> QED BY <1>4, <3>1, <3>2
  <2>2. Cardinality(P(a) \cup {b}) = Cardinality(P(a)) + 1
    BY <1>1, <2>1, OneMoreCount
  <2>3. Cardinality(P(a) \cup {b}) <= Cardinality(P(b)) /\ Cardinality(P(b)) \in Nat
    BY <1>1, <2>1, PartCount
  <2> QED BY <1>2, <2>2, <2>3
<1> HIDE DEF P
<1>5. /\ Cardinality(P(a)) \in Nat /\ Cardinality(P(a)) <= Cardinality(A) /\ Cardinality(A) \in Nat
      /\ a <= b => Cardinality(P(a)) <= Cardinality(P(b))
      /\ a < b /\ b \in A => Cardinality(P(a)) < Cardinality(P(b))
  BY <1>2, <1>3, <1>4
<1> QED BY <1>5 DEF Pos, P

LEMMA GreatestNat ==
    ASSUME NEW S \in SUBSET Nat, IsFiniteSet(S), S # {}
    PROVE  \E m \in S : \A k \in S : k <= m
<1> DEFINE N == Cardinality(S)
           D == {n \in Nat : \E a \in S : n = N - Pos(S, a)}
<1>1. \A a \in S : Pos(S, a) \in Nat /\ Pos(S, a) <= N /\ N \in Nat
  BY PosFacts
<1>2. D # {} /\ D \in SUBSET Nat
  <2>1. PICK a \in S : TRUE
    OBVIOUS
  <2>2. N - Pos(S, a) \in D
    BY <1>1
  <2> QED BY <2>2
<1>3. PICK d \in D : \A k \in D : d <= k
  <2> HIDE DEF D
  <2> QED BY <1>2, LeastNat
<1>4. PICK m \in S : d = N - Pos(S, m)
  BY <1>3
<1>5. ASSUME NEW k \in S PROVE k <= m
  <2>1. k \in Nat /\ m \in Nat
    OBVIOUS
  <2>2. m < k => Pos(S, m) < Pos(S, k)
    BY <2>1, PosFacts
  <2>3. N - Pos(S, k) \in D
    BY <1>1
  <2>4. d <= N - Pos(S, k)
    BY <1>3, <2>3
  <2> HIDE DEF N
  <2> QED BY <1>1, <1>4, <2>1, <2>2, <2>4
<1> QED BY <1>4, <1>5

(* At most o elements have a position up to o. *)
LEMMA LowCount ==
    ASSUME NEW A \in SUBSET Nat, IsFiniteSet(A), NEW o \in Nat
    PROVE  /\ IsFiniteSet(LowPart(A, o)) /\ Cardinality(LowPart(A, o)) \in Nat
           /\ Cardinality(LowPart(A, o)) <= o
<1> DEFINE L == LowPart(A, o)
<1>1. L \in SUBSET A
  BY DEF LowPart
<1>2. IsFiniteSet(L) /\ Cardinality(L) \in Nat
  BY <1>1, PartCount
<1>3. CASE L = {}
  BY <1>2, <1>3, FS_EmptySet
<1>4. CASE L # {}
  <2>1. L \in SUBSET Nat
    BY <1>1
  <2>2. PICK m \in L : \A k \in L : k <= m
    <3> HIDE DEF L
    <3> QED BY <1>2, <1>4, <2>1, GreatestNat
  <2>3. L \in SUBSET {b \in A : b <= m} /\ IsFiniteSet({b \in A : b <= m})
    BY <1>1, <2>2, PartCount
  <2>4. Cardinality(L) <= Cardinality({b \in A : b <= m})
    BY <2>3, PartCount
  <2>5. Cardinality({b \in A : b <= m}) <= o /\ Cardinality({b \in A : b <= m}) \in Nat
    <3>1. Pos(A, m) <= o
      BY <2>2 DEF LowPart
    <3>2. Pos(A, m) \in Nat
      BY <1>1, <2>2, PosFacts
    <3> QED BY <3>1, <3>2 DEF Pos
  <2> QED BY <1>2, <2>4, <2>5
<1> QED BY <1>2, <1>3, <1>4

(* A page that is not full reaches the end. *)
LEMMA ShortPage ==
    ASSUME NEW A \in SUBSET Nat, IsFiniteSet(A), NEW o \in Nat, NEW k \in Nat,
           Cardinality(PagePart(A, o, k)) < k
    PROVE  \A a \in A : Pos(A, a) <= o + k
<1> DEFINE Y == {a \in A : ~(Pos(A, a) <= o + k)}
<1>1. Y = {}
  <2> SUFFICES ASSUME Y # {} PROVE FALSE
    OBVIOUS
  <2>1. Y \in SUBSET Nat
    OBVIOUS
  <2>2. PICK y \in Y : \A z \in Y : y <= z
    <3> HIDE DEF Y
    <3> QED BY <2>1, LeastNat
  <2> DEFINE L == LowPart(A, o)
             P == PagePart(A, o, k)
  <2>3. IsFiniteSet(L) /\ IsFiniteSet(P) /\ Cardinality(L) \in Nat /\ Cardinality(P) \in Nat /\ Cardinality(L) <= o
    BY LowCount, PartCount DEF PagePart
  <2>4. IsFiniteSet(L \cup P) /\ Cardinality(L \cup P) \in Nat /\ Cardinality(L \cup P) <= Cardinality(L) + Cardinality(P)
    BY <2>3, SumCount
  <2>5. {b \in A : b <= y} \in SUBSET ((L \cup P) \cup {y})
    <3> SUFFICES ASSUME NEW b \in A, b <= y, b # y PROVE b \in L \cup P
      OBVIOUS
    <3>1. b \notin Y
      BY <2>2
    <3>2. Pos(A, b) \in Nat
      BY PosFacts
    <3> QED BY <3>1, <3>2 DEF LowPart, PagePart
  <2> HIDE DEF L, P
  <2>6. /\ IsFiniteSet((L \cup P) \cup {y}) /\ Cardinality((L \cup P) \cup {y}) \in Nat
        /\ Cardinality((L \cup P) \cup {y}) <= Cardinality(L \cup P) + 1
    <3> DEFINE U == L \cup P
    <3>1. IsFiniteSet(U) /\ Cardinality(U) \in Nat
      BY <2>4
    <3> HIDE DEF U, Y
    <3>3. IsFiniteSet(U \cup {y}) /\ Cardinality(U \cup {y}) = IF y \in U THEN Cardinality(U) ELSE Cardinality(U) + 1
      BY <3>1, OneMoreCount
    <3>2. /\ IsFiniteSet(U \cup {y}) /\ Cardinality(U \cup {y}) \in Nat
          /\ Cardinality(U \cup {y}) <= Cardinality(U) + 1
      BY <3>1, <3>3
    <3> QED BY <3>2 DEF U
  <2>7. Pos(A, y) <= Cardinality((L \cup P) \cup {y}) /\ Pos(A, y) \in Nat
    BY <2>5, <2>6, PartCount DEF Pos
  <2>8. Cardinality(P) < k
    BY DEF P
  <2>9. Pos(A, y) <= o + k
    BY <2>3, <2>4, <2>6, <2>7, <2>8
  <2> QED BY <2>2, <2>9
<1> QED BY <1>1

(* Below the end of a page lie its rows and the o rows before it. *)
LEMMA UpToPage ==
    ASSUME NEW A \in SUBSET Nat, IsFiniteSet(A), NEW o \in Nat, NEW k \in Nat,
           NEW f \in Nat, PagePart(A, o, k) # {}, \A a \in PagePart(A, o, k) : a < f
    PROVE  o + Cardinality(PagePart(A, o, k)) <= Cardinality({b \in A : b < f})
<1> DEFINE P == PagePart(A, o, k)
<1>1. P \in SUBSET A /\ P \in SUBSET Nat
  BY DEF PagePart
<1>2. PICK p \in P : \A z \in P : p <= z
  <2> HIDE DEF P
  <2> QED BY <1>1, LeastNat DEF P
<1> DEFINE L == {b \in A : b < p}
<1>3. IsFiniteSet(L) /\ IsFiniteSet(P) /\ Cardinality(L) \in Nat /\ Cardinality(P) \in Nat
  BY <1>1, PartCount
<1>4. L \cap P = {} /\ p \in Nat /\ p \notin L /\ p \in A
  BY <1>1, <1>2
<1>5. {b \in A : b <= p} = L \cup {p}
  <2>1. \A b \in A : b <= p <=> b < p \/ b = p
    <3> TAKE b \in A
    <3>1. b \in Nat
      OBVIOUS
    <3> QED BY <1>4, <3>1
  <2> QED BY <1>4, <2>1
<1>6. Pos(A, p) = Cardinality(L) + 1
  BY <1>3, <1>4, <1>5, OneMoreCount DEF Pos
<1>7. o < Pos(A, p)
  BY <1>2 DEF PagePart
<1>8. Cardinality(L \cup P) = Cardinality(L) + Cardinality(P)
  BY <1>3, <1>4, SumCount
<1>9. L \cup P \in SUBSET {b \in A : b < f}
  <2>1. ASSUME NEW b \in L PROVE b < f
    <3>1. b \in Nat /\ b < p /\ p < f
      BY <1>2
    <3> QED BY <1>4, <3>1
  <2> QED BY <1>1, <2>1
<1>10. IsFiniteSet({b \in A : b < f}) /\ Cardinality({b \in A : b < f}) \in Nat
  BY PartCount
<1>11. Cardinality(L \cup P) <= Cardinality({b \in A : b < f})
  BY <1>9, <1>10, PartCount
<1> HIDE DEF L, P
<1>12. o + Cardinality(P) <= Cardinality({b \in A : b < f})
  BY <1>3, <1>6, <1>7, <1>8, <1>10, <1>11
<1> QED BY <1>12 DEF P

(* What a cursor skips at or past a frontier f. *)
LEMMA SkippedCount ==
    ASSUME NEW A \in SUBSET Nat, IsFiniteSet(A), NEW o \in Nat, NEW f \in Nat
    PROVE  /\ IsFiniteSet(AheadPart(A, f, o)) /\ Cardinality(AheadPart(A, f, o)) \in Nat
           /\ \/ AheadPart(A, f, o) = {}
              \/ Cardinality(UnderPart(A, f)) + Cardinality(AheadPart(A, f, o)) <= o
<1> DEFINE F == {b \in A : b < f}
           K == {b \in A : f <= b /\ Pos(A, b) <= o}
<1>1. IsFiniteSet(K) /\ Cardinality(K) \in Nat /\ IsFiniteSet(F) /\ Cardinality(F) \in Nat
  BY PartCount
<1>2. ASSUME NEW x \in K PROVE Cardinality(F) + Cardinality(K) <= o
  <2>1. F \cap K = {}
    <3>1. \A b \in A : ~(b < f /\ f <= b)
      <4> TAKE b \in A
      <4>1. b \in Nat
        OBVIOUS
      <4> QED BY <4>1
    <3> QED BY <3>1
  <2>2. ASSUME NEW b \in F PROVE b \in LowPart(A, o)
    <3>1. b \in A /\ x \in A /\ b \in Nat /\ x \in Nat /\ b <= x /\ Pos(A, x) <= o
      OBVIOUS
    <3>2. Pos(A, b) \in Nat /\ Pos(A, x) \in Nat /\ Pos(A, b) <= Pos(A, x)
      BY <3>1, PosFacts
    <3> QED BY <3>1, <3>2 DEF LowPart
  <2>3. F \cup K \in SUBSET LowPart(A, o)
    BY <2>2 DEF LowPart
  <2>4. Cardinality(F \cup K) = Cardinality(F) + Cardinality(K)
    BY <1>1, <2>1, SumCount
  <2>5. Cardinality(F \cup K) <= Cardinality(LowPart(A, o)) /\ Cardinality(LowPart(A, o)) <= o
        /\ Cardinality(LowPart(A, o)) \in Nat
    BY <2>3, LowCount, PartCount
  <2> HIDE DEF F, K
  <2> QED BY <1>1, <2>4, <2>5
<1>3. K = {} \/ Cardinality(F) + Cardinality(K) <= o
  BY <1>2
<1> QED BY <1>1, <1>3 DEF AheadPart, UnderPart

-----------------------------------------------------------------------------
(* The tighten walk. *)

Unseen == steady \ (seen \cup page)
Passed(f) == {a \in Unseen : a < f}
Below(f) == {b \in active : b < f}
Cursor == IF pc = "judge" THEN offset + fetched - reHeld ELSE offset

(* A frontier the walk has passed: what it passed without seeing is paid   *)
(* for by departures, and so is every row by which the cursor is ahead of  *)
(* the rows still below the frontier.                                      *)
Frontier(f) ==
    /\ Cardinality(Passed(f)) <= departed
    /\ Cardinality(Passed(f)) + Cursor <= departed + Cardinality(Below(f))
    /\ pc = "judge" /\ fetched < PerPage => \A a \in Unseen : a < f

WalkTyped ==
    /\ active \subseteq Ids /\ steady \subseteq Ids /\ page \subseteq Ids
    /\ offset \in Nat /\ fetched \in Nat /\ reHeld \in Nat /\ departed \in Nat
    /\ steady \subseteq active \cup seen
    /\ pc = "list" => page = {}
    /\ pc = "judge" => reHeld + Cardinality(page) <= fetched

WalkInv ==
    /\ WalkTyped
    /\ pc \in {"list", "judge"} => \E f \in Nat : Frontier(f)
    /\ MissesBounded

LEMMA MissesIs ==
    /\ MissesBounded <=> (pc = "done" => Cardinality(steady \ seen) <= departed)
    /\ MissesBounded' <=> (pc' = "done" => Cardinality(steady' \ seen') <= departed')
  BY DEF MissesBounded

LEMMA WalkSets ==
    ASSUME WalkTyped, NEW f \in Nat
    PROVE  /\ active \in SUBSET Nat /\ IsFiniteSet(active) /\ IsFiniteSet(page) /\ Cardinality(page) \in Nat
           /\ IsFiniteSet(steady \ seen) /\ IsFiniteSet(Passed(f)) /\ Cardinality(Passed(f)) \in Nat
           /\ IsFiniteSet(Below(f)) /\ Cardinality(Below(f)) \in Nat
           /\ \A a \in Unseen : a \in Nat
<1>1. /\ active \in SUBSET Ids /\ page \in SUBSET Ids /\ (steady \ seen) \in SUBSET Ids
      /\ Passed(f) \in SUBSET Ids /\ Below(f) \in SUBSET Ids
  BY DEF WalkTyped, Passed, Below, Unseen
<1> QED BY <1>1, PartCount, IdsAssumption DEF Unseen

LEMMA WalkStarts == WalkInit => WalkInv
<1> SUFFICES ASSUME WalkInit PROVE WalkInv
  OBVIOUS
<1> USE DEF WalkInit
<1>1. WalkTyped
  BY DEF WalkTyped
<1>2. Frontier(0)
  <2>1. \A a \in Ids : a \in Nat
    BY IdsAssumption
  <2>2. Passed(0) = {} /\ Below(0) = {}
    BY <1>1, <2>1 DEF Passed, Below, Unseen, WalkTyped
  <2>3. Cardinality({}) = 0
    BY FS_EmptySet
  <2> QED BY <2>2, <2>3 DEF Frontier, Cursor
<1>3. MissesBounded
  BY DEF MissesBounded
<1> QED BY <1>1, <1>2, <1>3 DEF WalkInv

(* Others move an artifact, in or out. *)
LEMMA WalkJoin ==
    ASSUME WalkInv, NEW a \in Ids, Join(a)
    PROVE  WalkInv'
<1>1. /\ active' = active \cup {a}
      /\ UNCHANGED <<pc, offset, page, fetched, reHeld, seen, steady, departed>>
  BY DEF Join, walk
<1>2. WalkTyped /\ WalkTyped'
  BY <1>1 DEF WalkInv, WalkTyped
<1>3. ASSUME NEW f \in Nat, Frontier(f) PROVE Frontier(f)'
  <2>1. Unseen' = Unseen /\ Passed(f)' = Passed(f) /\ Cursor' = Cursor /\ Cursor \in Int
    BY <1>1, <1>2 DEF Unseen, Passed, Cursor, WalkTyped
  <2>2. Below(f) \in SUBSET Below(f)'
    BY <1>1 DEF Below
  <2>3. IsFiniteSet(Below(f)') /\ Cardinality(Below(f)') \in Nat
    <3>1. Below(f)' \in SUBSET Ids
      BY <1>2 DEF Below, WalkTyped
    <3> QED BY <3>1, PartCount, IdsAssumption
  <2>4. Cardinality(Below(f)) <= Cardinality(Below(f)') /\ Cardinality(Below(f)) \in Nat
    BY <2>2, <2>3, PartCount
  <2>5. Cardinality(Passed(f)) \in Nat /\ departed \in Nat
    BY <1>2, WalkSets DEF WalkTyped
  <2> QED BY <1>1, <1>3, <2>1, <2>3, <2>4, <2>5 DEF Frontier
<1>4. MissesBounded'
  BY <1>1 DEF WalkInv, MissesBounded
<1> QED BY <1>1, <1>2, <1>3, <1>4 DEF WalkInv

LEMMA WalkLeave ==
    ASSUME WalkInv, NEW a \in Ids, Leave(a)
    PROVE  WalkInv'
<1>1. /\ active' = active \ {a} /\ steady' = steady \ {a} /\ departed' = departed + 1
      /\ UNCHANGED <<pc, offset, page, fetched, reHeld, seen>>
  BY DEF Leave, walk
<1>2. WalkTyped /\ WalkTyped'
  BY <1>1 DEF WalkInv, WalkTyped
<1>3. ASSUME NEW f \in Nat, Frontier(f) PROVE Frontier(f)'
  <2>1. Unseen' \in SUBSET Unseen /\ Passed(f)' \in SUBSET Passed(f) /\ Cursor' = Cursor /\ Cursor \in Int
    BY <1>1, <1>2 DEF Unseen, Passed, Cursor, WalkTyped
  <2>2. Below(f)' = Below(f) \ {a}
    BY <1>1 DEF Below
  <2>3. /\ IsFiniteSet(Passed(f)) /\ Cardinality(Passed(f)) \in Nat
        /\ IsFiniteSet(Below(f)) /\ Cardinality(Below(f)) \in Nat /\ departed \in Nat
    BY <1>2, WalkSets DEF WalkTyped
  <2>4. Cardinality(Passed(f)') <= Cardinality(Passed(f)) /\ Cardinality(Passed(f)') \in Nat
    BY <2>1, <2>3, PartCount
  <2>5. Cardinality(Below(f)) <= Cardinality(Below(f)') + 1 /\ Cardinality(Below(f)') \in Nat
    BY <2>2, <2>3, OneLessBound
  <2>6. /\ Cardinality(Passed(f)') <= departed'
        /\ Cardinality(Passed(f)') + Cursor' <= departed' + Cardinality(Below(f)')
    BY <1>1, <1>3, <2>1, <2>3, <2>4, <2>5 DEF Frontier
  <2>7. (pc = "judge" /\ fetched < PerPage)' => \A b \in Unseen' : b < f
    BY <1>1, <1>3, <2>1 DEF Frontier
  <2> QED BY <2>6, <2>7 DEF Frontier
<1>4. MissesBounded'
  <2> DEFINE U == steady \ seen
  <2>1. U' \in SUBSET U /\ departed \in Nat
    BY <1>1, <1>2 DEF WalkTyped
  <2>2. IsFiniteSet(U)
    <3>1. 0 \in Nat
      OBVIOUS
    <3> QED BY <1>2, <3>1, WalkSets
  <2>3. pc = "done" => Cardinality(U) <= departed
    BY MissesIs DEF WalkInv
  <2> HIDE DEF U
  <2>4. Cardinality(U') <= Cardinality(U) /\ Cardinality(U') \in Nat /\ Cardinality(U) \in Nat
    BY <2>1, <2>2, PartCount
  <2>5. pc' = "done" => Cardinality(U') <= departed'
    BY <1>1, <2>1, <2>3, <2>4
  <2> QED BY <2>5, MissesIs DEF U
<1> QED BY <1>1, <1>2, <1>3, <1>4 DEF WalkInv

(* A row is judged: it moves from the page to what was seen. *)
LEMMA WalkJudge ==
    ASSUME WalkInv, NEW a \in Ids,
           ReHold(a) \/ KeepActive(a) \/ Skip(a)
    PROVE  WalkInv'
<1>1. /\ pc = "judge" /\ a \in page /\ page' = page \ {a} /\ seen' = seen \cup {a}
      /\ UNCHANGED <<pc, offset, fetched, steady, departed>>
      /\ \/ active' = active \ {a} /\ reHeld' = reHeld + 1
         \/ active' = active /\ reHeld' = reHeld
  BY DEF ReHold, KeepActive, Skip, NextRow, Judged
<1>2. WalkTyped
  BY DEF WalkInv
<1>3. IsFiniteSet(page) /\ Cardinality(page) \in Nat
  <2>1. 0 \in Nat
    OBVIOUS
  <2> QED BY <1>2, <2>1, WalkSets
<1>4. Cardinality(page') = Cardinality(page) - 1 /\ Cardinality(page') \in Nat
  BY <1>1, <1>3, OneLessCount
<1>5. WalkTyped'
  <2>1. reHeld' + Cardinality(page') <= fetched' /\ reHeld' \in Nat
    BY <1>1, <1>2, <1>3, <1>4 DEF WalkTyped
  <2> QED BY <1>1, <1>2, <2>1 DEF WalkTyped
<1>6. Unseen' = Unseen
  BY <1>1 DEF Unseen
<1>7. ASSUME NEW f \in Nat, Frontier(f) PROVE Frontier(f)'
  <2>1. Passed(f)' = Passed(f)
    BY <1>6 DEF Passed
  <2>2. /\ Cardinality(Passed(f)) \in Nat /\ IsFiniteSet(Below(f)) /\ Cardinality(Below(f)) \in Nat
        /\ departed \in Nat /\ offset \in Nat /\ fetched \in Nat /\ reHeld \in Nat
    BY <1>2, WalkSets DEF WalkTyped
  <2>3. Cursor = offset + fetched - reHeld /\ Cursor' = offset + fetched - reHeld'
    BY <1>1 DEF Cursor
  <2>4. Cardinality(Passed(f)) + Cursor' <= departed + Cardinality(Below(f)')
    <3>1. CASE active' = active \ {a} /\ reHeld' = reHeld + 1
      <4>1. Below(f)' = Below(f) \ {a}
        BY <3>1 DEF Below
      <4>2. Cardinality(Below(f)) <= Cardinality(Below(f)') + 1 /\ Cardinality(Below(f)') \in Nat
        BY <2>2, <4>1, OneLessBound
      <4> QED BY <1>7, <2>2, <2>3, <3>1, <4>2 DEF Frontier
    <3>2. CASE active' = active /\ reHeld' = reHeld
      <4>1. Below(f)' = Below(f) /\ Cursor' = Cursor
        BY <2>3, <3>2 DEF Below
      <4> QED BY <1>7, <4>1 DEF Frontier
    <3> QED BY <1>1, <3>1, <3>2
  <2> QED BY <1>1, <1>6, <1>7, <2>1, <2>4 DEF Frontier
<1>8. MissesBounded'
  BY <1>1 DEF MissesBounded
<1> QED BY <1>1, <1>5, <1>7, <1>8 DEF WalkInv

(* The next page is asked for, or the page was short and the walk ends. *)
LEMMA WalkTurn ==
    ASSUME WalkInv, NextPage
    PROVE  WalkInv'
<1>1. /\ pc = "judge" /\ page = {}
      /\ UNCHANGED <<active, page, fetched, reHeld, seen, steady, departed>>
  BY DEF NextPage
<1>2. WalkTyped /\ 0 \in Nat
  BY DEF WalkInv
<1>3. PICK f \in Nat : Frontier(f)
  BY <1>1 DEF WalkInv
<1>4. CASE fetched < PerPage
  <2>1. pc' = "done" /\ offset' = offset
    BY <1>4 DEF NextPage
  <2>2. WalkTyped'
    BY <1>1, <1>2, <2>1 DEF WalkTyped
  <2>3. steady \ seen = Passed(f)
    BY <1>1, <1>3, <1>4 DEF Frontier, Passed, Unseen
  <2>4. MissesBounded'
    <3>1. Cardinality(steady \ seen) <= departed
      BY <1>3, <2>3 DEF Frontier
    <3>2. steady' \ seen' = steady \ seen /\ departed' = departed
      BY <1>1
    <3>3. Cardinality(steady' \ seen') <= departed'
      BY <3>1, <3>2, Zenon
    <3> QED BY <3>3, MissesIs
  <2> QED BY <2>1, <2>2, <2>4 DEF WalkInv
<1>5. CASE ~(fetched < PerPage)
  <2>1. pc' = "list" /\ offset' = offset + (fetched - reHeld)
    BY <1>5 DEF NextPage, Advance
  <2>2. Cardinality(page) \in Nat
    BY <1>2, WalkSets
  <2>3. WalkTyped' /\ Cursor' = Cursor
    BY <1>1, <1>2, <2>1, <2>2 DEF WalkTyped, Cursor
  <2>4. Frontier(f)'
    <3>1. Passed(f)' = Passed(f) /\ Below(f)' = Below(f)
      BY <1>1 DEF Passed, Below, Unseen
    <3> QED BY <1>1, <1>3, <2>1, <2>3, <3>1 DEF Frontier
  <2> QED BY <2>1, <2>3, <2>4 DEF WalkInv, MissesBounded
<1> QED BY <1>4, <1>5

(* A page is read.  What lies at or past the frontier and is skipped was   *)
(* counted before: the cursor is that far ahead of the rows below.         *)
LEMMA WalkList ==
    ASSUME WalkInv, ListPage
    PROVE  WalkInv'
<1> DEFINE P == PagePart(active, offset, PerPage)
<1>1. /\ pc = "list" /\ page' = P /\ fetched' = Cardinality(P) /\ reHeld' = 0
      /\ pc' = (IF P = {} THEN "done" ELSE "judge")
      /\ UNCHANGED <<active, offset, seen, steady, departed>>
  <2>1. \A a : Position(a) = Pos(active, a)
    BY DEF Position, Pos
  <2>2. PageAt(offset) = P
    BY <2>1 DEF PageAt, PagePart
  <2>3. /\ page' = P /\ fetched' = Cardinality(page')
        /\ pc' = (IF page' = {} THEN "done" ELSE "judge")
    BY <2>2 DEF ListPage
  <2>4. fetched' = Cardinality(P)
    BY <2>3
  <2> QED BY <2>3, <2>4 DEF ListPage
<1>2. WalkTyped /\ page = {} /\ offset \in Nat /\ departed \in Nat /\ PerPage \in Nat /\ PerPage > 0
  BY <1>1, IdsAssumption, PerPageAssumption DEF WalkInv, WalkTyped
<1>3. PICK f \in Nat : Frontier(f)
  BY <1>1 DEF WalkInv
<1>4. /\ active \in SUBSET Nat /\ IsFiniteSet(active) /\ IsFiniteSet(Passed(f)) /\ Cardinality(Passed(f)) \in Nat
      /\ Cardinality(Below(f)) \in Nat
  BY <1>2, WalkSets
<1>5. P \in SUBSET active /\ IsFiniteSet(P) /\ Cardinality(P) \in Nat
  BY <1>4, PartCount DEF PagePart
<1>6. \A a \in active : a \in Nat /\ Pos(active, a) \in Nat
  BY <1>4, PosFacts
<1> DEFINE K == {b \in active : f <= b /\ Pos(active, b) <= offset}
           C == Passed(f) \cup K
<1>7. IsFiniteSet(C) /\ Cardinality(C) <= departed
  <2>1. /\ IsFiniteSet(K) /\ Cardinality(K) \in Nat
        /\ K = {} \/ Cardinality(Below(f)) + Cardinality(K) <= offset
    <3>1. active \in SUBSET Nat /\ IsFiniteSet(active) /\ offset \in Nat
      BY <1>2, <1>4
    <3>2. Below(f) = UnderPart(active, f) /\ K = AheadPart(active, f, offset)
      BY DEF Below, UnderPart, AheadPart
    <3> HIDE DEF K
    <3> QED BY <3>1, <3>2, SkippedCount
  <2>2. Cursor = offset
    BY <1>1 DEF Cursor
  <2>3. /\ Cardinality(Passed(f)) <= departed
        /\ Cardinality(Passed(f)) + offset <= departed + Cardinality(Below(f))
    BY <1>3, <2>2 DEF Frontier
  <2> HIDE DEF K
  <2>4. IsFiniteSet(C) /\ Cardinality(C) <= Cardinality(Passed(f)) + Cardinality(K) /\ Cardinality(C) \in Nat
    BY <1>4, <2>1, SumCount
  <2>5. CASE K = {}
    <3>1. C = Passed(f)
      BY <2>5
    <3> QED BY <2>3, <2>4, <3>1
  <2>6. CASE Cardinality(Below(f)) + Cardinality(K) <= offset
    <3> HIDE DEF C
    <3> QED BY <1>2, <1>4, <2>1, <2>3, <2>4, <2>6
  <2> QED BY <2>1, <2>5, <2>6
<1>8. ASSUME NEW a \in steady \ seen, a \notin P, a \in active => Pos(active, a) <= offset + PerPage
      PROVE  a \in active /\ Pos(active, a) <= offset /\ a \in C
  <2>1. a \in active
    BY <1>2 DEF WalkTyped
  <2>2. Pos(active, a) <= offset
    BY <1>2, <1>6, <1>8, <2>1 DEF PagePart
  <2>3. a < f \/ f <= a
    BY <1>6, <2>1
  <2>4. a < f => a \in Passed(f)
    BY <1>2 DEF Passed, Unseen
  <2> QED BY <2>1, <2>2, <2>3, <2>4
<1>9. Cardinality(P) < PerPage => \A a \in active : Pos(active, a) <= offset + PerPage
  BY <1>2, <1>4, ShortPage
<1>10. WalkTyped'
  <2>1. P \subseteq Ids /\ 0 + Cardinality(P) <= Cardinality(P)
    BY <1>2, <1>5 DEF WalkTyped
  <2> HIDE DEF P
  <2> QED BY <1>1, <1>2, <1>5, <2>1 DEF WalkTyped
<1>11. CASE P = {}
  <2>1. Cardinality(P) = 0
    BY <1>11, FS_EmptySet
  <2>2. steady \ seen \in SUBSET C
    BY <1>2, <1>8, <1>9, <1>11, <2>1
  <2> HIDE DEF C, P
  <2>3. Cardinality(steady \ seen) <= Cardinality(C) /\ Cardinality(steady \ seen) \in Nat /\ Cardinality(C) \in Nat
    BY <1>7, <2>2, PartCount
  <2>4. Cardinality(steady \ seen) <= departed
    BY <1>2, <1>7, <2>3
  <2>5. steady' \ seen' = steady \ seen /\ departed' = departed
    BY <1>1
  <2>6. MissesBounded'
    BY <2>4, <2>5, MissesIs
  <2> QED BY <1>1, <1>10, <1>11, <2>6 DEF WalkInv
<1>12. CASE P # {}
  <2>1. P \in SUBSET Nat
    BY <1>4, <1>5
  <2>2. PICK m \in P : \A k \in P : k <= m
    <3> HIDE DEF P
    <3> QED BY <1>5, <1>12, <2>1, GreatestNat
  <2>3. m \in active /\ m \in Nat /\ offset < Pos(active, m) /\ Pos(active, m) <= offset + PerPage
    BY <2>1, <2>2 DEF PagePart
  <2> DEFINE g == IF f <= m THEN m + 1 ELSE f
  <2>4. g \in Nat /\ f <= g /\ m < g /\ (f < g => g = m + 1)
    BY <2>3
  <2>5. \A k \in P : k < g
    <3> TAKE k \in P
    <3>1. k \in Nat /\ k <= m
      BY <2>1, <2>2
    <3> QED BY <2>3, <2>4, <3>1
  <2> HIDE DEF g
  <2>6. offset + Cardinality(P) <= Cardinality(Below(g)')
    <3>1. offset + Cardinality(P) <= Cardinality({b \in active : b < g})
      <4>1. /\ active \in SUBSET Nat /\ IsFiniteSet(active) /\ offset \in Nat /\ PerPage \in Nat /\ g \in Nat
            /\ P # {} /\ \A k \in P : k < g
        BY <1>2, <1>4, <1>12, <2>4, <2>5
      <4> QED BY <4>1, UpToPage
    <3>2. Below(g)' = {b \in active : b < g}
      BY <1>1 DEF Below
    <3> QED BY <3>1, <3>2
  <2>7. Unseen' = (steady \ seen) \ P
    BY <1>1 DEF Unseen
  <2>8. ASSUME NEW a \in Unseen', a < g PROVE a \in C
    <3>1. a \in steady \ seen /\ a \notin P
      BY <2>7
    <3>2. ASSUME a \in active PROVE Pos(active, a) <= offset + PerPage \/ a \in C
      <4>1. a \in Nat /\ Pos(active, a) \in Nat
        BY <1>6, <3>2
      <4>2. CASE a < f
        BY <1>2, <3>1, <4>2 DEF Passed, Unseen
      <4>3. CASE ~(a < f)
        <5>1. a <= m
          BY <2>3, <2>4, <2>8, <4>1, <4>3
        <5>2. Pos(active, a) <= Pos(active, m) /\ Pos(active, m) \in Nat
          BY <1>4, <2>3, <4>1, <5>1, PosFacts
        <5> QED BY <1>2, <2>3, <4>1, <5>2
      <4> QED BY <4>2, <4>3
    <3> HIDE DEF C
    <3> QED BY <1>8, <3>1, <3>2
  <2>9. Passed(g)' \in SUBSET C
    BY <2>8 DEF Passed
  <2>10. Cardinality(Passed(g)') <= departed /\ Cardinality(Passed(g)') \in Nat
    <3> HIDE DEF C
    <3>1. Cardinality(Passed(g)') <= Cardinality(C) /\ Cardinality(Passed(g)') \in Nat /\ Cardinality(C) \in Nat
      BY <1>7, <2>9, PartCount
    <3> QED BY <1>2, <1>7, <3>1
  <2>11. ASSUME fetched' < PerPage, NEW a \in Unseen' PROVE a < g
    <3>1. a \in steady \ seen /\ a \notin P
      BY <2>7
    <3>2. a \in active => Pos(active, a) <= offset + PerPage
      BY <1>1, <1>9, <2>11
    <3>3. a \in active /\ Pos(active, a) <= offset
      BY <1>8, <3>1, <3>2
    <3>4. a \in Nat /\ Pos(active, a) \in Nat
      BY <1>6, <3>3
    <3>5. ~(m <= a)
      <4>1. m <= a => Pos(active, m) <= Pos(active, a) /\ Pos(active, m) \in Nat
        BY <1>4, <2>3, <3>4, PosFacts
      <4> QED BY <1>2, <2>3, <3>3, <3>4, <4>1
    <3> QED BY <2>3, <2>4, <3>4, <3>5
  <2>12. Cursor' = offset + Cardinality(P) /\ departed' = departed
    BY <1>1, <1>2, <1>5, <1>12 DEF Cursor
  <2>13. Cardinality(Below(g)') \in Nat
    <3>1. {b \in active : b < g} \in SUBSET active /\ Below(g)' = {b \in active : b < g}
      BY <1>1 DEF Below
    <3> QED BY <1>4, <3>1, PartCount
  <2>14. Cardinality(Passed(g)') + Cursor' <= departed' + Cardinality(Below(g)')
    <3> HIDE DEF P
    <3> QED BY <1>2, <1>5, <2>6, <2>10, <2>12, <2>13
  <2>15. Frontier(g)'
    BY <2>10, <2>11, <2>12, <2>14 DEF Frontier
  <2>16. MissesBounded'
    BY <1>1, <1>12 DEF MissesBounded
  <2> QED BY <1>10, <2>4, <2>15, <2>16 DEF WalkInv
<1> QED BY <1>11, <1>12

LEMMA WalkStep == WalkInv /\ [WalkNext]_walkVars => WalkInv'
<1> SUFFICES ASSUME WalkInv, [WalkNext]_walkVars PROVE WalkInv'
  OBVIOUS
<1>1. CASE UNCHANGED walkVars
  <2>1. UNCHANGED <<active, pc, offset, page, fetched, reHeld, seen, steady, departed>>
    BY <1>1 DEF walkVars
  <2>2. WalkTyped' /\ \A f : Frontier(f)' <=> Frontier(f)
    BY <2>1 DEF WalkInv, WalkTyped, Frontier, Cursor, Passed, Below, Unseen
  <2>3. MissesBounded'
    BY <2>1 DEF WalkInv, MissesBounded
  <2> QED BY <2>1, <2>2, <2>3 DEF WalkInv
<1>2. CASE ListFails
  <2>1. pc' = "aborted" /\ UNCHANGED <<active, offset, page, fetched, reHeld, seen, steady, departed>>
    BY <1>2 DEF ListFails
  <2> QED BY <2>1 DEF WalkInv, WalkTyped, MissesBounded
<1> QED BY <1>1, <1>2, WalkJoin, WalkLeave, WalkJudge, WalkTurn, WalkList DEF WalkNext, Pass, Ended

(* A pass that completes has missed at most one artifact for each artifact *)
(* that other use cases took out of the population while it ran, for any   *)
(* finite population and page size and however often they did              *)
(* (run_policy_re_evaluation_pass, the tighten direction).                 *)
THEOREM WalkMissesBounded == WalkSpec => []MissesBounded
<1>1. WalkInv => MissesBounded
  BY DEF WalkInv
<1> QED BY <1>1, WalkStarts, WalkStep, PTL DEF WalkSpec

-----------------------------------------------------------------------------
(* The release sweep.  Batches, and the instants in use. *)

ImageOf(f, S) == {f[x] : x \in S}
Img(s) == ImageOf(s, DOMAIN s)

LEMMA ImageCount ==
    ASSUME NEW S, IsFiniteSet(S), NEW T, NEW f \in [S -> T]
    PROVE  /\ IsFiniteSet(ImageOf(f, S)) /\ Cardinality(ImageOf(f, S)) \in Nat /\ Cardinality(S) \in Nat
           /\ Cardinality(ImageOf(f, S)) <= Cardinality(S)
           /\ (\A x, y \in S : f[x] = f[y] => x = y) => Cardinality(ImageOf(f, S)) = Cardinality(S)
<1> DEFINE R == ImageOf(f, S)
<1>1. f \in [S -> R] /\ \A t \in R : \E x \in S : f[x] = t
  BY DEF ImageOf
<1> HIDE DEF R
<1>2. f \in Surjection(S, R)
  BY <1>1, Fun_IsSurj
<1>3. IsFiniteSet(R) /\ Cardinality(R) <= Cardinality(S) /\ (Cardinality(R) = Cardinality(S) <=> f \in Injection(S, R))
  BY <1>2, FS_Surjection
<1>4. Cardinality(R) \in Nat /\ Cardinality(S) \in Nat
  BY <1>3, FS_CardinalityType
<1>5. (\A x, y \in S : f[x] = f[y] => x = y) => f \in Injection(S, R)
  BY <1>1, Fun_IsInj
<1> QED BY <1>3, <1>4, <1>5 DEF R

LEMMA ImgCount ==
    ASSUME NEW s \in Seq(Artifacts)
    PROVE  /\ Img(s) \subseteq Artifacts /\ IsFiniteSet(Img(s)) /\ Cardinality(Img(s)) \in Nat
           /\ Cardinality(Img(s)) <= Len(s) /\ Len(s) \in Nat
<1>1. Len(s) \in Nat /\ DOMAIN s = 1..Len(s) /\ s \in [1..Len(s) -> Artifacts]
  BY LenProperties
<1>2. IsFiniteSet(1..Len(s)) /\ Cardinality(1..Len(s)) = Len(s)
  BY <1>1, FS_Interval
<1>3. Img(s) = ImageOf(s, 1..Len(s))
  BY <1>1 DEF Img
<1>4. Img(s) \subseteq Artifacts
  BY <1>1, <1>3 DEF ImageOf
<1>5. IsFiniteSet(Img(s)) /\ Cardinality(Img(s)) \in Nat /\ Cardinality(Img(s)) <= Cardinality(1..Len(s))
  BY <1>1, <1>2, <1>3, ImageCount
<1> QED BY <1>1, <1>2, <1>4, <1>5

(* A batch that leaves a candidate out is full, and served before it. *)
LEMMA BatchFacts ==
    ASSUME NEW c \in SUBSET Artifacts, NEW s \in Batches(c), attempt \in [Artifacts -> Nat]
    PROVE  /\ s \in Seq(Artifacts) /\ Len(s) <= BatchSize /\ Img(s) \subseteq c
           /\ \A a \in c \ Img(s) :
                 /\ Cardinality(Img(s)) = BatchSize
                 /\ \A b \in Img(s) : attempt[b] <= attempt[a]
<1> DEFINE n == Cardinality(c)
           k == IF BatchSize < n THEN BatchSize ELSE n
<1>1. IsFiniteSet(c) /\ n \in Nat
  BY FiniteAssumption, PartCount
<1>2. k \in Nat /\ k <= BatchSize /\ (k = BatchSize \/ k = n)
  BY <1>1, BatchSizeAssumption
<1> HIDE DEF k, n
<1>3. /\ s \in [1..k -> c] /\ DOMAIN s = 1..k
      /\ \A i \in 1..k : /\ s[i] \in c \ {s[j] : j \in 1..(i - 1)}
                         /\ \A b \in c \ {s[j] : j \in 1..(i - 1)} : ~ServedBefore(b, s[i])
  BY DEF Batches, k, n
<1>4. s \in Seq(Artifacts) /\ Len(s) = k
  <2>1. s \in [1..k -> Artifacts]
    BY <1>1, <1>3
  <2>2. s \in Seq(Artifacts)
    BY <1>2, <2>1, SeqDef
  <2>3. Len(s) \in Nat /\ DOMAIN s = 1..Len(s)
    BY <2>2, LenProperties
  <2> QED BY <1>2, <1>3, <2>2, <2>3
<1>5. Img(s) = {s[i] : i \in 1..k} /\ Img(s) = ImageOf(s, 1..k)
  BY <1>3 DEF Img, ImageOf
<1>6. Img(s) \in SUBSET c
  BY <1>3, <1>5
<1>7. \A i, j \in 1..k : s[i] = s[j] => i = j
  <2>1. ASSUME NEW i \in 1..k, NEW j \in 1..k, i < j PROVE s[i] # s[j]
    <3>1. i \in 1..(j - 1)
      BY <1>2, <2>1
    <3> QED BY <1>3, <3>1
  <2> QED BY <1>2, <2>1
<1>8. Cardinality(Img(s)) = k
  <2>1. IsFiniteSet(1..k) /\ Cardinality(1..k) = k
    BY <1>2, FS_Interval
  <2>2. s \in [1..k -> c]
    BY <1>3
  <2>3. Cardinality(ImageOf(s, 1..k)) = Cardinality(1..k)
    BY <1>7, <2>1, <2>2, ImageCount
  <2> QED BY <1>5, <2>1, <2>3
<1>9. ASSUME NEW a \in c \ Img(s)
      PROVE  /\ Cardinality(Img(s)) = BatchSize
             /\ \A b \in Img(s) : attempt[b] <= attempt[a]
  <2>1. k # n
    <3>1. k = n => Img(s) = c
      BY <1>1, <1>6, <1>8, FS_Subset DEF n
    <3> QED BY <3>1
  <2>2. ASSUME NEW i \in 1..k PROVE attempt[s[i]] <= attempt[a]
    <3>1. a \in c \ {s[j] : j \in 1..(i - 1)}
      <4>1. \A j \in 1..(i - 1) : j \in 1..k
        BY <1>2
      <4> QED BY <1>5, <4>1
    <3>2. ~ServedBefore(a, s[i])
      BY <1>3, <3>1
    <3>3. attempt[a] \in Nat /\ attempt[s[i]] \in Nat
      BY <1>1, <1>3
    <3> QED BY <3>2, <3>3 DEF ServedBefore
  <2> QED BY <1>2, <1>5, <1>8, <2>1, <2>2
<1> QED BY <1>2, <1>4, <1>6, <1>9

TickRecords == [running : BOOLEAN, selecting : BOOLEAN, at : Nat, moved : SUBSET Artifacts,
                batch : Seq(Artifacts), left : Seq(Artifacts)]

LEMMA InstantsFacts ==
    ASSUME NEW att \in [Artifacts -> Nat], NEW tk \in [Sweepers -> TickRecords]
    PROVE  LET I == Instants(att, tk) IN
           /\ I \in SUBSET Nat /\ IsFiniteSet(I) /\ Cardinality(I) \in Nat /\ 0 \notin I
           /\ \A a \in Artifacts : att[a] = 0 \/ att[a] \in I
           /\ \A w \in Sweepers : tk[w].at = 0 \/ tk[w].at \in I
           /\ \A x \in I : (\E a \in Artifacts : x = att[a]) \/ (\E w \in Sweepers : x = tk[w].at)
<1> DEFINE I == Instants(att, tk)
           g == [w \in Sweepers |-> tk[w].at]
           A == ImageOf(att, Artifacts)
           B == ImageOf(g, Sweepers)
<1>1. \A w \in Sweepers : tk[w].at \in Nat
  BY DEF TickRecords
<1>2. g \in [Sweepers -> Nat] /\ B = {tk[w].at : w \in Sweepers}
  BY <1>1 DEF ImageOf
<1>3. IsFiniteSet(A)
  BY FiniteAssumption, ImageCount
<1>4. IsFiniteSet(B)
  <2> HIDE DEF g
  <2> QED BY <1>2, FiniteAssumption, ImageCount
<1>5. IsFiniteSet(A \cup B)
  BY <1>3, <1>4, SumCount
<1>6. I = (A \cup B) \ {0}
  BY <1>2 DEF Instants, ImageOf
<1>7. I \in SUBSET Nat /\ I \in SUBSET (A \cup B)
  BY <1>1, <1>2, <1>6 DEF ImageOf
<1>8. IsFiniteSet(I) /\ Cardinality(I) \in Nat
  BY <1>5, <1>7, PartCount
<1>9. /\ 0 \notin I
      /\ \A a \in Artifacts : att[a] = 0 \/ att[a] \in I
      /\ \A w \in Sweepers : tk[w].at = 0 \/ tk[w].at \in I
      /\ \A x \in I : (\E a \in Artifacts : x = att[a]) \/ (\E w \in Sweepers : x = tk[w].at)
  BY DEF Instants
<1> HIDE DEF I
<1> QED BY <1>7, <1>8, <1>9 DEF I

(* What a renumbering of stamps keeps: the ticks apart from their stamps,  *)
(* and every comparison with a threshold; it leaves the instants dense.    *)
Renumbering(att, tk, att2, tk2) ==
    /\ att2 \in [Artifacts -> Nat] /\ tk2 \in [Sweepers -> TickRecords]
    /\ \A w \in Sweepers : /\ tk2[w].running = tk[w].running /\ tk2[w].batch = tk[w].batch
                           /\ tk2[w].left = tk[w].left /\ tk2[w].selecting = tk[w].selecting
                           /\ tk2[w].moved = tk[w].moved
                           /\ tk[w] = NoTick => tk2[w] = NoTick
    /\ Cardinality(Instants(att2, tk2)) \in Nat
    /\ \A x \in Instants(att2, tk2) : x <= Cardinality(Instants(att2, tk2))
    /\ \A th \in Nat : \E low \in Nat :
          /\ low <= Cardinality(Instants(att2, tk2))
          /\ \A a \in Artifacts : th < att[a] <=> low < att2[a]
          /\ \A w \in Sweepers : th < tk[w].at <=> low < tk2[w].at

LEMMA RenumberFacts ==
    ASSUME NEW att \in [Artifacts -> Nat], NEW tk \in [Sweepers -> TickRecords], SetCursor(att, tk)
    PROVE  Renumbering(att, tk, attempt', tick')
<1> DEFINE I == Instants(att, tk)
           J == Instants(attempt', tick')
           f == [x \in I |-> Pos(I, x)]
<1>1. /\ I \in SUBSET Nat /\ IsFiniteSet(I) /\ Cardinality(I) \in Nat /\ 0 \notin I
      /\ \A a \in Artifacts : att[a] = 0 \/ att[a] \in I
      /\ \A w \in Sweepers : tk[w].at = 0 \/ tk[w].at \in I
      /\ \A x \in I : (\E a \in Artifacts : x = att[a]) \/ (\E w \in Sweepers : x = tk[w].at)
  BY InstantsFacts
<1>2. /\ attempt' = [a \in Artifacts |-> Pos(I, att[a])]
      /\ tick' = [w \in Sweepers |-> [tk[w] EXCEPT !.at = Pos(I, tk[w].at)]]
  BY DEF SetCursor, Renumbered, Pos
<1> HIDE DEF I
<1>3. \A a \in Artifacts : att[a] \in Nat
  OBVIOUS
<1>4. \A w \in Sweepers : tk[w].at \in Nat
  BY DEF TickRecords
<1>5. \A x \in Nat : Pos(I, x) \in Nat /\ Pos(I, x) <= Cardinality(I)
  BY <1>1, PosFacts
<1>6. \A x, y \in Nat : (x <= y => Pos(I, x) <= Pos(I, y)) /\ (x < y /\ y \in I => Pos(I, x) < Pos(I, y))
  BY <1>1, PosFacts
<1>7. Pos(I, 0) = 0
  <2>1. {b \in I : b <= 0} = {}
    <3> SUFFICES ASSUME NEW b \in I, b <= 0 PROVE FALSE
      OBVIOUS
    <3>1. b \in Nat /\ b # 0
      BY <1>1
    <3> QED BY <3>1
  <2> QED BY <2>1, FS_EmptySet DEF Pos
<1>8. \A x \in I : x \in Nat /\ 0 < Pos(I, x) /\ Pos(I, x) \in Nat /\ Pos(I, x) <= Cardinality(I)
  <2> TAKE x \in I
  <2>1. x \in Nat /\ 0 < x
    BY <1>1
  <2>2. Pos(I, 0) < Pos(I, x)
    BY <1>6, <2>1
  <2> QED BY <1>5, <1>7, <2>1, <2>2
<1>9. \A a \in Artifacts : attempt'[a] = Pos(I, att[a])
  BY <1>2
<1>10. \A w \in Sweepers : /\ tick'[w].at = Pos(I, tk[w].at) /\ tick'[w].running = tk[w].running
                           /\ tick'[w].batch = tk[w].batch /\ tick'[w].left = tk[w].left
                           /\ tick'[w].selecting = tk[w].selecting /\ tick'[w].moved = tk[w].moved
  BY <1>2 DEF TickRecords
<1>11. attempt' \in [Artifacts -> Nat]
  BY <1>2, <1>3, <1>5
<1>12. tick' \in [Sweepers -> TickRecords]
  <2>1. ASSUME NEW w \in Sweepers PROVE [tk[w] EXCEPT !.at = Pos(I, tk[w].at)] \in TickRecords
    BY <1>4, <1>5 DEF TickRecords
  <2> QED BY <1>2, <2>1
<1>13. ASSUME NEW w \in Sweepers, tk[w] = NoTick PROVE tick'[w] = NoTick
  <2>1. tick'[w] = [tk[w] EXCEPT !.at = Pos(I, tk[w].at)]
    BY <1>2
  <2>2. tk[w].at = 0
    BY <1>13 DEF NoTick
  <2>3. tick'[w] = [NoTick EXCEPT !.at = 0]
    BY <1>7, <1>13, <2>1, <2>2
  <2> QED BY <2>3 DEF NoTick
<1>14. J = ImageOf(f, I)
  <2>1. \A x \in I : Pos(I, x) \in J
    <3> TAKE x \in I
    <3>1. CASE \E a \in Artifacts : x = att[a]
      BY <1>8, <1>9, <3>1 DEF Instants
    <3>2. CASE \E w \in Sweepers : x = tk[w].at
      BY <1>8, <1>10, <3>2 DEF Instants
    <3> QED BY <1>1, <3>1, <3>2
  <2>2. ASSUME NEW y \in J PROVE \E x \in I : y = Pos(I, x)
    <3>1. y # 0 /\ ((\E a \in Artifacts : y = attempt'[a]) \/ (\E w \in Sweepers : y = tick'[w].at))
      BY DEF Instants
    <3> QED BY <1>1, <1>7, <1>9, <1>10, <3>1
  <2> QED BY <2>1, <2>2 DEF ImageOf
<1> HIDE DEF J
<1>15. Cardinality(J) = Cardinality(I)
  <2>1. f \in [I -> Nat]
    BY <1>8
  <2>2. \A x, y \in I : f[x] = f[y] => x = y
    <3> TAKE x, y \in I
    <3>1. x \in Nat /\ y \in Nat /\ Pos(I, x) \in Nat /\ Pos(I, y) \in Nat
      BY <1>8
    <3>2. (x < y => Pos(I, x) < Pos(I, y)) /\ (y < x => Pos(I, y) < Pos(I, x))
      BY <1>6, <3>1
    <3> QED BY <3>1, <3>2
  <2> HIDE DEF f
  <2>3. Cardinality(ImageOf(f, I)) = Cardinality(I)
    BY <1>1, <2>1, <2>2, ImageCount
  <2> QED BY <1>14, <2>3
<1>16. \A x \in J : x <= Cardinality(J)
  <2>1. \A x \in J : \E y \in I : x = Pos(I, y)
    BY <1>14 DEF ImageOf
  <2> QED BY <1>8, <1>15, <2>1
<1>17. ASSUME NEW th \in Nat
       PROVE  \E low \in Nat : /\ low <= Cardinality(J)
                               /\ \A a \in Artifacts : th < att[a] <=> low < attempt'[a]
                               /\ \A w \in Sweepers : th < tk[w].at <=> low < tick'[w].at
  <2> DEFINE low == Pos(I, th)
  <2>1. low \in Nat /\ low <= Cardinality(J)
    BY <1>5, <1>15
  <2>2. ASSUME NEW x \in Nat, x = 0 \/ x \in I PROVE th < x <=> low < Pos(I, x)
    <3>1. Pos(I, x) \in Nat
      BY <1>5
    <3>2. x <= th => Pos(I, x) <= low
      BY <1>6
    <3>3. th < x => x \in I /\ low < Pos(I, x)
      BY <1>6, <2>2
    <3> HIDE DEF low
    <3> QED BY <2>1, <3>1, <3>2, <3>3
  <2>3. \A a \in Artifacts : th < att[a] <=> low < attempt'[a]
    BY <1>1, <1>3, <1>9, <2>2
  <2>4. \A w \in Sweepers : th < tk[w].at <=> low < tick'[w].at
    BY <1>1, <1>4, <1>10, <2>2
  <2> HIDE DEF low
  <2> QED BY <2>1, <2>3, <2>4
<1>18. Cardinality(J) \in Nat
  BY <1>1, <1>15
<1> QED BY <1>10, <1>11, <1>12, <1>13, <1>16, <1>17, <1>18 DEF J, Renumbering

(* Twice the batches that n sweepers, g batches, f ticks and fl faults     *)
(* excuse.                                                                 *)
Balance(n, g, f, fl) == 2 * (n * g) + 2 * f + n * (n - 1) + 2 * fl

LEMMA ProductMonotone ==
    ASSUME NEW n \in Nat, NEW s \in Nat, NEW g \in Nat, NEW q \in Nat, n <= s, g <= q
    PROVE  n * g <= s * q /\ n * g \in Nat /\ s * q \in Nat
OBVIOUS

LEMMA PairsMonotone ==
    ASSUME NEW n \in Nat, NEW s \in Nat, n <= s
    PROVE  n * (n - 1) <= s * (s - 1) /\ n * (n - 1) \in Nat /\ s * (s - 1) \in Nat
OBVIOUS

LEMMA BalanceMonotone ==
    ASSUME NEW n \in Nat, NEW g \in Nat, NEW f \in Nat, NEW fl \in Nat,
           NEW n2 \in Nat, NEW f2 \in Nat, NEW fl2 \in Nat,
           n <= n2, f + fl <= f2 + fl2
    PROVE  /\ Balance(n, g, f, fl) <= Balance(n2, g, f2, fl2)
           /\ Balance(n, g, f, fl) \in Nat /\ Balance(n2, g, f2, fl2) \in Nat
<1> DEFINE x == n * g  y == n2 * g  u == n * (n - 1)  v == n2 * (n2 - 1)
<1>1. x <= y /\ x \in Nat /\ y \in Nat
  BY ProductMonotone
<1>2. u <= v /\ u \in Nat /\ v \in Nat
  BY PairsMonotone
<1>3. Balance(n, g, f, fl) = 2 * x + 2 * f + u + 2 * fl /\ Balance(n2, g, f2, fl2) = 2 * y + 2 * f2 + v + 2 * fl2
  BY DEF Balance
<1> HIDE DEF x, y, u, v
<1> QED BY <1>1, <1>2, <1>3

(* One tick stamps: one more batch for every fresh sweeper. *)
LEMMA BalanceGains ==
    ASSUME NEW n \in Nat, NEW g \in Nat, NEW f \in Nat, NEW fl \in Nat, f <= n
    PROVE  /\ Balance(n, g, f, fl) <= Balance(n, g + 1, 0, fl)
           /\ Balance(n, g, f, fl) \in Nat /\ Balance(n, g + 1, 0, fl) \in Nat
<1> DEFINE x == n * g  u == n * (n - 1)
<1>1. n * (g + 1) = x + n /\ x \in Nat /\ u \in Nat
  BY PairsMonotone
<1>2. Balance(n, g, f, fl) = 2 * x + 2 * f + u + 2 * fl /\ Balance(n, g + 1, 0, fl) = 2 * (n * (g + 1)) + 2 * 0 + u + 2 * fl
  BY DEF Balance
<1> HIDE DEF x, u
<1> QED BY <1>1, <1>2

(* An overtaken tick stamps: one batch fewer, one more fresh sweeper. *)
LEMMA BalanceLoses ==
    ASSUME NEW n \in Nat, NEW g \in Nat \ {0}, NEW f \in Nat, NEW fl \in Nat
    PROVE  /\ Balance(n, g, f, fl) <= Balance(n + 1, g - 1, f, fl)
           /\ Balance(n, g, f, fl) \in Nat /\ Balance(n + 1, g - 1, f, fl) \in Nat
<1>1. 2 * ((n + 1) * (g - 1)) + (n + 1) * n = 2 * (n * g) + n * (n - 1) + 2 * g - 2
  OBVIOUS
<1> DEFINE x == n * g  u == n * (n - 1)  y == (n + 1) * (g - 1)  v == (n + 1) * n
<1>2. x \in Nat /\ u \in Nat /\ y \in Nat /\ v \in Nat
  BY PairsMonotone, ProductMonotone
<1>3. (n + 1) - 1 = n
  OBVIOUS
<1>4. Balance(n, g, f, fl) = 2 * x + 2 * f + u + 2 * fl /\ Balance(n + 1, g - 1, f, fl) = 2 * y + 2 * f + v + 2 * fl
  BY <1>3 DEF Balance
<1>5. 2 * y + v = 2 * x + u + 2 * g - 2
  BY <1>1
<1> HIDE DEF x, u, y, v
<1> QED BY <1>2, <1>4, <1>5

(* What a balance comes to. *)
LEMMA BalanceBound ==
    ASSUME NEW n \in Nat, NEW g \in Nat, NEW f \in Nat, NEW fl \in Nat, NEW s \in Nat, NEW q \in Nat, NEW m \in Nat,
           n <= s, f <= n, g <= q, f # 0 => g + 1 <= q,
           2 * m <= Balance(n, g, f, fl)
    PROVE  m <= s * q + (s * (s - 1)) \div 2 + fl
<1> DEFINE x == n * g  u == n * (n - 1)  y == s * q  v == s * (s - 1)
<1>1. x + f <= y /\ x \in Nat /\ y \in Nat
  <2>1. CASE f = 0
    BY <2>1, ProductMonotone
  <2>2. CASE f # 0
    <3>1. n * (g + 1) <= s * q /\ x \in Nat /\ y \in Nat
      BY <2>2, ProductMonotone
    <3>2. n * (g + 1) = x + n
      OBVIOUS
    <3> HIDE DEF x, y
    <3> QED BY <3>1, <3>2 DEF y
  <2> QED BY <2>1, <2>2
<1>2. u <= v /\ u \in Nat /\ v \in Nat
  BY PairsMonotone
<1>3. Balance(n, g, f, fl) = 2 * x + 2 * f + u + 2 * fl
  BY DEF Balance
<1> HIDE DEF x, u, y, v
<1>4. 2 * (m - y - fl) <= v
  BY <1>1, <1>2, <1>3
<1>5. m - y - fl <= v \div 2 /\ v \div 2 \in Int
  BY <1>1, <1>2, <1>4
<1>6. m <= y + v \div 2 + fl
  BY <1>1, <1>5
<1> QED BY <1>6 DEF y, v

(* Sweepers whose stamp, now or at their next tick, is past th. *)
Fresh(tk, th) == {w \in Sweepers : tk[w].running => th < tk[w].at}

(* What accounts for m batches that left a out.  D holds artifacts stamped *)
(* past th, hence served after a: g full batches of them.  F holds fresh   *)
(* sweepers whose running tick left a out; when the first of them stamps,  *)
(* its batch joins D.  Each fresh sweeper may leave a out once per batch   *)
(* of D, and a sweeper overtaken, when it ends, takes a batch out of D and *)
(* becomes one more fresh sweeper.                                         *)
Debt(att, tk, m, fl, a, th, D, g, F) ==
    /\ att[a] <= th
    /\ \A b \in D : th < att[b]
    /\ g * BatchSize <= Cardinality(D)
    /\ \A w \in Sweepers : tk[w].running /\ th < tk[w].at /\ a \in Img(tk[w].batch) => a \in Img(tk[w].left)
    /\ F \subseteq Fresh(tk, th)
    /\ \A w \in F : /\ tk[w].running /\ a \notin Img(tk[w].batch)
                    /\ Img(tk[w].batch) \cap D = {} /\ Cardinality(Img(tk[w].batch)) = BatchSize
    /\ 2 * m <= Balance(Cardinality(Fresh(tk, th)), g, Cardinality(F), fl)

(* Queries that are out with an instant not past th and may still leave a  *)
(* out, and e batches left out by such queries: there is a sweeper to      *)
(* each, and one more, which attempted a last.                             *)
Late(tk, a, th) == {w \in Sweepers : tk[w].selecting /\ a \notin tk[w].moved /\ ~(th < tk[w].at)}
Excused(tk, a, th, e) == e + Cardinality(Late(tk, a, th)) + 1 <= Cardinality(Sweepers)

(* The m batches without a, told apart: k of the debt, e of late queries. *)
Accounts(att, tk, m, fl, a, th, k, e, D, g, F) ==
    m <= k + e /\ Excused(tk, a, th, e) /\ Debt(att, tk, k, fl, a, th, D, g, F)

Owed(att, tk, m, fl, a, top) ==
    \E th \in Nat, k \in Nat, e \in Nat, g \in Nat, D \in SUBSET (Artifacts \ {a}), F \in SUBSET Sweepers :
        th <= top /\ Accounts(att, tk, m, fl, a, th, k, e, D, g, F)

Ticking(tk) ==
    /\ tk \in [Sweepers -> TickRecords]
    /\ \A w \in Sweepers : /\ Len(tk[w].batch) <= BatchSize /\ (tk[w].running \/ tk[w] = NoTick)
                           /\ tk[w].selecting => tk[w].running /\ tk[w].batch = << >> /\ tk[w].left = << >>

SweepInv ==
    /\ attempt \in [Artifacts -> Nat]
    /\ Ticking(tick)
    /\ faults \in Nat
    /\ missed \in [Watched -> Nat]
    /\ \A x \in Instants(attempt, tick) : x <= Cardinality(Instants(attempt, tick))
    /\ \A a \in Watched : Owed(attempt, tick, missed[a], faults, a, Cardinality(Instants(attempt, tick)))

LEMMA FreshCount ==
    ASSUME NEW tk, NEW th
    PROVE  /\ Fresh(tk, th) \in SUBSET Sweepers /\ IsFiniteSet(Fresh(tk, th))
           /\ Cardinality(Fresh(tk, th)) \in Nat /\ Cardinality(Sweepers) \in Nat
           /\ Cardinality(Fresh(tk, th)) <= Cardinality(Sweepers)
<1>1. Fresh(tk, th) \in SUBSET Sweepers
  BY DEF Fresh
<1> QED BY <1>1, FiniteAssumption, PartCount

LEMMA LateCount ==
    ASSUME NEW tk, NEW a, NEW th
    PROVE  /\ Late(tk, a, th) \in SUBSET Sweepers /\ IsFiniteSet(Late(tk, a, th))
           /\ Cardinality(Late(tk, a, th)) \in Nat /\ Cardinality(Sweepers) \in Nat \ {0}
<1>1. Late(tk, a, th) \in SUBSET Sweepers
  BY DEF Late
<1>2. Cardinality(Sweepers) \in Nat /\ Cardinality(Sweepers) # 0
  BY FiniteAssumption, FS_CardinalityType, FS_EmptySet
<1> QED BY <1>1, <1>2, FiniteAssumption, PartCount

(* Fewer late queries excuse as much. *)
LEMMA StaysExcused ==
    ASSUME NEW tk, NEW t2, NEW a, NEW th, NEW th2, NEW e \in Nat,
           Excused(tk, a, th, e), Late(t2, a, th2) \subseteq Late(tk, a, th)
    PROVE  Excused(t2, a, th2, e)
<1>1. IsFiniteSet(Late(tk, a, th)) /\ Late(t2, a, th2) \in SUBSET Late(tk, a, th)
  BY LateCount
<1>2. /\ Cardinality(Late(t2, a, th2)) <= Cardinality(Late(tk, a, th))
      /\ Cardinality(Late(t2, a, th2)) \in Nat /\ Cardinality(Late(tk, a, th)) \in Nat
  BY <1>1, PartCount
<1>3. Cardinality(Sweepers) \in Nat
  BY LateCount
<1> QED BY <1>2, <1>3 DEF Excused

(* A late query that answers makes room for one more batch. *)
LEMMA OneMoreExcused ==
    ASSUME NEW tk, NEW t2, NEW a, NEW th, NEW e \in Nat, NEW w,
           Excused(tk, a, th, e), w \in Late(tk, a, th), Late(t2, a, th) = Late(tk, a, th) \ {w}
    PROVE  Excused(t2, a, th, e + 1)
<1>1. IsFiniteSet(Late(tk, a, th)) /\ Cardinality(Sweepers) \in Nat
  BY LateCount
<1>2. /\ Cardinality(Late(t2, a, th)) = Cardinality(Late(tk, a, th)) - 1
      /\ Cardinality(Late(t2, a, th)) \in Nat /\ Cardinality(Late(tk, a, th)) \in Nat
  BY <1>1, OneLessCount
<1> QED BY <1>1, <1>2 DEF Excused

(* A step that renumbers may be judged on the instants before. *)
LEMMA Settle ==
    ASSUME NEW att \in [Artifacts -> Nat], NEW tk, Ticking(tk), SetCursor(att, tk),
           faults' \in Nat, missed' \in [Watched -> Nat],
           NEW top,
           \A a \in Watched : Owed(att, tk, missed'[a], faults', a, top)
    PROVE  SweepInv'
<1>1. tk \in [Sweepers -> TickRecords]
  BY DEF Ticking
<1> DEFINE J == Instants(attempt', tick')
<1>2. /\ attempt' \in [Artifacts -> Nat] /\ tick' \in [Sweepers -> TickRecords]
      /\ \A w \in Sweepers : /\ tick'[w].running = tk[w].running /\ tick'[w].batch = tk[w].batch
                             /\ tick'[w].left = tk[w].left /\ tick'[w].selecting = tk[w].selecting
                             /\ tick'[w].moved = tk[w].moved
                             /\ tk[w] = NoTick => tick'[w] = NoTick
      /\ Cardinality(J) \in Nat
      /\ \A x \in J : x <= Cardinality(J)
      /\ \A th \in Nat : \E low \in Nat :
            /\ low <= Cardinality(J)
            /\ \A a \in Artifacts : th < att[a] <=> low < attempt'[a]
            /\ \A w \in Sweepers : th < tk[w].at <=> low < tick'[w].at
  <2>1. Renumbering(att, tk, attempt', tick')
    BY <1>1, RenumberFacts
  <2> QED BY <2>1 DEF Renumbering
<1>3. Ticking(tick')
  BY <1>2 DEF Ticking
<1>4. ASSUME NEW a \in Watched PROVE Owed(attempt', tick', missed'[a], faults', a, Cardinality(J))
  <2>a. a \in Artifacts
    BY WatchedAssumption
  <2>b. PICK th \in Nat, k \in Nat, e \in Nat, g \in Nat, D \in SUBSET (Artifacts \ {a}), F \in SUBSET Sweepers :
            Accounts(att, tk, missed'[a], faults', a, th, k, e, D, g, F)
    BY DEF Owed
  <2>1. Debt(att, tk, k, faults', a, th, D, g, F) /\ missed'[a] <= k + e /\ Excused(tk, a, th, e)
    BY <2>b DEF Accounts
  <2>2. PICK low \in Nat : /\ low <= Cardinality(J)
                           /\ \A b \in Artifacts : th < att[b] <=> low < attempt'[b]
                           /\ \A w \in Sweepers : th < tk[w].at <=> low < tick'[w].at
    BY <1>2
  <2>3. Fresh(tick', low) = Fresh(tk, th)
    BY <1>2, <2>2 DEF Fresh
  <2>4. attempt'[a] <= low
    <3>1. attempt'[a] \in Nat /\ att[a] \in Nat /\ att[a] <= th
      BY <1>2, <2>a, <2>1 DEF Debt
    <3> QED BY <2>a, <2>2, <3>1
  <2>5. \A b \in D : low < attempt'[b]
    BY <2>1, <2>2 DEF Debt
  <2>6. \A w \in Sweepers : tick'[w].running /\ low < tick'[w].at /\ a \in Img(tick'[w].batch) => a \in Img(tick'[w].left)
    BY <1>2, <2>1, <2>2 DEF Debt
  <2>7. \A w \in F : /\ tick'[w].running /\ a \notin Img(tick'[w].batch)
                     /\ Img(tick'[w].batch) \cap D = {} /\ Cardinality(Img(tick'[w].batch)) = BatchSize
    BY <1>2, <2>1 DEF Debt
  <2>8. Debt(attempt', tick', k, faults', a, low, D, g, F)
    <3>1. g * BatchSize <= Cardinality(D) /\ F \subseteq Fresh(tk, th)
      BY <2>1 DEF Debt
    <3>2. 2 * k <= Balance(Cardinality(Fresh(tk, th)), g, Cardinality(F), faults')
      BY <2>1 DEF Debt
    <3> QED BY <2>3, <2>4, <2>5, <2>6, <2>7, <3>1, <3>2 DEF Debt
  <2>9. Excused(tick', a, low, e)
    <3>1. Late(tick', a, low) = Late(tk, a, th)
      BY <1>2, <2>2 DEF Late
    <3> QED BY <2>1, <3>1 DEF Excused
  <2>10. Accounts(attempt', tick', missed'[a], faults', a, low, k, e, D, g, F)
    BY <2>1, <2>8, <2>9 DEF Accounts
  <2> QED BY <2>2, <2>10 DEF Owed
<1>5. J = Instants(attempt, tick)'
  BY DEF Instants
<1> HIDE DEF J
<1> QED BY <1>2, <1>3, <1>4, <1>5 DEF SweepInv

LEMMA DebtCounts ==
    ASSUME NEW att, NEW tk, NEW m, NEW fl, NEW a, NEW th, NEW D \in SUBSET (Artifacts \ {a}), NEW g, NEW F,
           Debt(att, tk, m, fl, a, th, D, g, F)
    PROVE  /\ IsFiniteSet(F) /\ Cardinality(F) \in Nat /\ Cardinality(F) <= Cardinality(Fresh(tk, th))
           /\ IsFiniteSet(D) /\ Cardinality(D) \in Nat
<1>1. F \in SUBSET Fresh(tk, th)
  BY DEF Debt
<1>2. IsFiniteSet(Fresh(tk, th))
  BY FreshCount
<1>3. D \in SUBSET Artifacts /\ IsFiniteSet(Artifacts)
  BY FiniteAssumption
<1> QED BY <1>1, <1>2, <1>3, PartCount

(* Sweeper w, without a batch in tk, runs in t2 the tick r: one that has   *)
(* just begun, past th, or the one of tk, whose query has answered.        *)
Starts(tk, t2, w, r, th) ==
    /\ tk \in [Sweepers -> TickRecords] /\ w \in Sweepers /\ t2 = [tk EXCEPT ![w] = r]
    /\ tk[w].batch = << >> /\ r.running /\ r.left = r.batch
    /\ IF tk[w].running THEN r.at = tk[w].at ELSE th < r.at

(* Any tick that starts keeps the debts. *)
LEMMA DebtStarts ==
    ASSUME NEW att, NEW tk, NEW m, NEW fl, NEW a, NEW th, NEW D, NEW g, NEW F,
           Debt(att, tk, m, fl, a, th, D, g, F),
           NEW w, NEW r, NEW t2, Starts(tk, t2, w, r, th)
    PROVE  /\ Debt(att, t2, m, fl, a, th, D, g, F)
           /\ w \notin F /\ Fresh(t2, th) = Fresh(tk, th)
<1>1. t2[w] = r /\ \A v \in Sweepers : v # w => t2[v] = tk[v]
  BY DEF Starts
<1>2. Fresh(t2, th) = Fresh(tk, th)
  BY <1>1 DEF Fresh, Starts
<1>3. w \notin F /\ F \subseteq Sweepers
  <2>1. Img(tk[w].batch) = {}
    BY DEF Starts, Img, ImageOf
  <2>2. w \notin F
    BY <2>1, BatchSizeAssumption, FS_EmptySet DEF Debt
  <2> QED BY <2>2 DEF Debt, Fresh
<1>4. \A v \in F : t2[v] = tk[v]
  BY <1>1, <1>3
<1>5. \A v \in Sweepers : t2[v].running /\ th < t2[v].at /\ a \in Img(t2[v].batch) => a \in Img(t2[v].left)
  BY <1>1 DEF Debt, Starts
<1>6. Debt(att, t2, m, fl, a, th, D, g, F)
  BY <1>2, <1>4, <1>5 DEF Debt
<1> QED BY <1>2, <1>3, <1>6

(* One that leaves a out of a full batch joins F. *)
LEMMA DebtLeavesOut ==
    ASSUME NEW att, NEW tk, NEW m \in Nat, NEW fl \in Nat, NEW a, NEW th \in Nat,
           NEW D \in SUBSET (Artifacts \ {a}), NEW g \in Nat, NEW F,
           Debt(att, tk, m, fl, a, th, D, g, F),
           NEW w, NEW r, NEW t2, Starts(tk, t2, w, r, th), w \in Fresh(tk, th),
           a \notin Img(r.batch), Img(r.batch) \cap D = {}, Cardinality(Img(r.batch)) = BatchSize
    PROVE  Debt(att, t2, m + 1, fl, a, th, D, g, F \cup {w})
<1> DEFINE n == Cardinality(Fresh(tk, th))
           f == Cardinality(F)
           f2 == Cardinality(F \cup {w})
<1>1. t2[w] = r /\ Debt(att, t2, m, fl, a, th, D, g, F) /\ w \notin F /\ w \in Fresh(tk, th) /\ Fresh(t2, th) = Fresh(tk, th)
  <2>1. t2[w] = r
    BY DEF Starts
  <2>2. Debt(att, t2, m, fl, a, th, D, g, F) /\ w \notin F /\ Fresh(t2, th) = Fresh(tk, th)
    BY DebtStarts
  <2> QED BY <2>1, <2>2
<1>2. IsFiniteSet(F) /\ f \in Nat /\ n \in Nat
  BY DebtCounts, FreshCount
<1>3. f2 = f + 1
  BY <1>1, <1>2, OneMoreCount
<1>4. 2 * m <= Balance(n, g, f, fl)
  BY DEF Debt
<1> HIDE DEF n, f, f2
<1>5. Balance(n, g, f2, fl) = Balance(n, g, f, fl) + 2 /\ Balance(n, g, f, fl) \in Nat
  <2>1. n * g \in Nat /\ n * (n - 1) \in Nat
    BY <1>2, PairsMonotone, ProductMonotone
  <2> QED BY <1>2, <1>3, <2>1 DEF Balance
<1>6. 2 * (m + 1) <= Balance(n, g, f2, fl)
  BY <1>4, <1>5
<1>7. \A v \in F \cup {w} : /\ t2[v].running /\ a \notin Img(t2[v].batch)
                            /\ Img(t2[v].batch) \cap D = {} /\ Cardinality(Img(t2[v].batch)) = BatchSize
  BY <1>1 DEF Debt, Starts
<1>8. Debt(att, t2, m + 1, fl, a, th, D, g, F \cup {w})
  BY <1>1, <1>6, <1>7 DEF Debt, n, f2
<1> QED BY <1>8

(* The tick of sweeper w in tk has ended in t2. *)
Ends(tk, t2, w) ==
    tk \in [Sweepers -> TickRecords] /\ w \in Sweepers /\ t2 = [tk EXCEPT ![w] = NoTick]

LEMMA EndsFacts ==
    ASSUME NEW tk, NEW t2, NEW w, Ends(tk, t2, w)
    PROVE  w \in Sweepers /\ t2[w] = NoTick /\ ~t2[w].running /\ \A v \in Sweepers : v # w => t2[v] = tk[v]
  BY DEF Ends, NoTick

LEMMA EndsFresh ==
    ASSUME NEW tk, NEW t2, NEW w, Ends(tk, t2, w)
    PROVE  \A th : /\ Fresh(t2, th) = Fresh(tk, th) \cup {w}
                   /\ w \notin Fresh(tk, th) => Cardinality(Fresh(t2, th)) = Cardinality(Fresh(tk, th)) + 1
<1> TAKE th
<1>1. Fresh(t2, th) = Fresh(tk, th) \cup {w}
  BY EndsFacts DEF Fresh
<1> QED BY <1>1, FreshCount, OneMoreCount

(* A tick that ends without a stamp. *)
LEMMA DebtFaults ==
    ASSUME NEW att, NEW tk, NEW m \in Nat, NEW fl \in Nat, NEW a, NEW th \in Nat,
           NEW D \in SUBSET (Artifacts \ {a}), NEW g \in Nat, NEW F,
           Debt(att, tk, m, fl, a, th, D, g, F), NEW w, NEW t2, Ends(tk, t2, w)
    PROVE  Debt(att, t2, m, fl + 1, a, th, D, g, F \ {w})
<1> DEFINE n == Cardinality(Fresh(tk, th))
           n2 == Cardinality(Fresh(t2, th))
           f == Cardinality(F)
           f2 == Cardinality(F \ {w})
<1>1. w \in Sweepers /\ ~t2[w].running /\ \A v \in Sweepers : v # w => t2[v] = tk[v]
  BY EndsFacts
<1>2. Fresh(tk, th) \in SUBSET Fresh(t2, th)
  <2>1. Fresh(t2, th) = Fresh(tk, th) \cup {w}
    BY EndsFresh
  <2> QED BY <2>1
<1>3. F \subseteq Fresh(tk, th) /\ F \subseteq Sweepers
  BY DEF Debt, Fresh
<1>4. IsFiniteSet(F) /\ n \in Nat /\ n2 \in Nat /\ n <= n2
  BY <1>2, DebtCounts, FreshCount, PartCount
<1>5. f2 \in Nat /\ f \in Nat /\ f <= f2 + 1
  BY <1>4, OneLessBound
<1>6. 2 * m <= Balance(n, g, f, fl)
  BY DEF Debt
<1> HIDE DEF n, n2, f, f2
<1>7. Balance(n, g, f, fl) <= Balance(n2, g, f2, fl + 1) /\ Balance(n, g, f, fl) \in Nat /\ Balance(n2, g, f2, fl + 1) \in Nat
  <2>1. f + fl <= f2 + (fl + 1) /\ fl + 1 \in Nat
    BY <1>5
  <2> QED BY <1>4, <1>5, <2>1, BalanceMonotone
<1>8. 2 * m <= Balance(n2, g, f2, fl + 1)
  BY <1>6, <1>7
<1>9. \A v \in F \ {w} : t2[v] = tk[v]
  BY <1>1, <1>3
<1>10. \A v \in Sweepers : t2[v].running /\ th < t2[v].at /\ a \in Img(t2[v].batch) => a \in Img(t2[v].left)
  BY <1>1 DEF Debt
<1>11. Debt(att, t2, m, fl + 1, a, th, D, g, F \ {w})
  BY <1>2, <1>3, <1>8, <1>9, <1>10 DEF Debt, n2, f2
<1> QED BY <1>11

(* A tick that ends because its query found nothing. *)
LEMMA DebtQuits ==
    ASSUME NEW att, NEW tk, NEW m \in Nat, NEW fl \in Nat, NEW a, NEW th \in Nat,
           NEW D \in SUBSET (Artifacts \ {a}), NEW g \in Nat, NEW F,
           Debt(att, tk, m, fl, a, th, D, g, F), NEW w, NEW t2, Ends(tk, t2, w), tk[w].batch = << >>
    PROVE  Debt(att, t2, m, fl, a, th, D, g, F)
<1> DEFINE n == Cardinality(Fresh(tk, th))
           n2 == Cardinality(Fresh(t2, th))
           f == Cardinality(F)
<1>1. w \in Sweepers /\ ~t2[w].running /\ \A v \in Sweepers : v # w => t2[v] = tk[v]
  BY EndsFacts
<1>2. Fresh(tk, th) \in SUBSET Fresh(t2, th)
  <2>1. Fresh(t2, th) = Fresh(tk, th) \cup {w}
    BY EndsFresh
  <2> QED BY <2>1
<1>3. F \subseteq Fresh(tk, th) /\ F \subseteq Sweepers /\ w \notin F
  <2>1. Img(tk[w].batch) = {}
    BY DEF Img, ImageOf
  <2>2. w \notin F
    BY <2>1, BatchSizeAssumption, FS_EmptySet DEF Debt
  <2> QED BY <2>2 DEF Debt, Fresh
<1>4. f \in Nat /\ n \in Nat /\ n2 \in Nat /\ n <= n2
  BY <1>2, DebtCounts, FreshCount, PartCount
<1>5. 2 * m <= Balance(n, g, f, fl)
  BY DEF Debt
<1> HIDE DEF n, n2, f
<1>6. Balance(n, g, f, fl) <= Balance(n2, g, f, fl) /\ Balance(n, g, f, fl) \in Nat /\ Balance(n2, g, f, fl) \in Nat
  <2>1. f + fl <= f + fl
    BY <1>4
  <2> QED BY <1>4, <2>1, BalanceMonotone
<1>7. 2 * m <= Balance(n2, g, f, fl)
  BY <1>5, <1>6
<1>8. \A v \in F : t2[v] = tk[v]
  BY <1>1, <1>3
<1>9. \A v \in Sweepers : t2[v].running /\ th < t2[v].at /\ a \in Img(t2[v].batch) => a \in Img(t2[v].left)
  BY <1>1 DEF Debt
<1>10. Debt(att, t2, m, fl, a, th, D, g, F)
  BY <1>2, <1>3, <1>7, <1>8, <1>9 DEF Debt, n2, f
<1> QED BY <1>10

OwedAt(att, tk, m, fl, a, th) ==
    \E g \in Nat, D \in SUBSET (Artifacts \ {a}), F \in SUBSET Sweepers :
        Debt(att, tk, m, fl, a, th, D, g, F)

(* The stamps after the tick of w: its batch gets the tick's instant. *)
Stamped(att, tk, w) ==
    [b \in Artifacts |-> IF b \in Img(tk[w].batch) THEN tk[w].at ELSE att[b]]

(* A tick past th ends with its stamp.  It did not attempt a, so a is not  *)
(* in its batch; the first of F to end adds its batch to D.                *)
LEMMA DebtStamps ==
    ASSUME NEW att \in [Artifacts -> Nat], NEW tk, NEW m \in Nat, NEW fl \in Nat, NEW a \in Artifacts, NEW th \in Nat,
           NEW D \in SUBSET (Artifacts \ {a}), NEW g \in Nat, NEW F,
           Debt(att, tk, m, fl, a, th, D, g, F), NEW w, NEW t2, Ends(tk, t2, w),
           tk[w].running, tk[w].left = << >>, th < tk[w].at, Img(tk[w].batch) \in SUBSET Artifacts,
           IsFiniteSet(Img(tk[w].batch))
    PROVE  OwedAt(Stamped(att, tk, w), t2, m, fl, a, th)
<1> DEFINE s2 == Stamped(att, tk, w)
           B == Img(tk[w].batch)
           n == Cardinality(Fresh(tk, th))
           f == Cardinality(F)
<1>1. w \in Sweepers /\ ~t2[w].running /\ \A v \in Sweepers : v # w => t2[v] = tk[v]
  BY EndsFacts
<1>2. w \in Fresh(tk, th) /\ Fresh(t2, th) = Fresh(tk, th)
  <2>1. w \in Fresh(tk, th)
    BY <1>1 DEF Fresh
  <2>2. Fresh(t2, th) = Fresh(tk, th) \cup {w}
    BY EndsFresh
  <2> QED BY <2>1, <2>2
<1>3. a \notin B
  <2>1. Img(tk[w].left) = {}
    BY DEF Img, ImageOf
  <2> QED BY <1>1, <2>1 DEF Debt
<1>4. s2[a] <= th
  BY <1>3 DEF Debt, Stamped
<1>5. \A b \in D \cup B : th < s2[b]
  BY DEF Debt, Stamped
<1>6. \A v \in Sweepers : t2[v].running /\ th < t2[v].at /\ a \in Img(t2[v].batch) => a \in Img(t2[v].left)
  BY <1>1 DEF Debt
<1>7. F \subseteq Fresh(tk, th) /\ F \subseteq Sweepers /\ f \in Nat /\ n \in Nat /\ f <= n /\ IsFiniteSet(D) /\ Cardinality(D) \in Nat
  <2>1. F \subseteq Fresh(tk, th) /\ F \subseteq Sweepers
    BY DEF Debt, Fresh
  <2> QED BY <2>1, DebtCounts, FreshCount
<1>8. 2 * m <= Balance(n, g, f, fl) /\ g * BatchSize <= Cardinality(D)
  BY DEF Debt
<1> HIDE DEF n, f, s2, B
<1>9. CASE w \in F
  <2>1. B \cap D = {} /\ Cardinality(B) = BatchSize /\ IsFiniteSet(B)
    BY <1>9 DEF Debt, B
  <2>2. Cardinality(D \cup B) = Cardinality(D) + BatchSize
    BY <1>7, <2>1, SumCount
  <2>3. (g + 1) * BatchSize <= Cardinality(D \cup B)
    <3>1. (g + 1) * BatchSize = g * BatchSize + BatchSize /\ g * BatchSize \in Nat
      BY BatchSizeAssumption
    <3> QED BY <1>7, <1>8, <2>2, <3>1, BatchSizeAssumption
  <2>4. 2 * m <= Balance(n, g + 1, 0, fl)
    <3>1. Balance(n, g, f, fl) <= Balance(n, g + 1, 0, fl) /\ Balance(n, g, f, fl) \in Nat /\ Balance(n, g + 1, 0, fl) \in Nat
      BY <1>7, BalanceGains
    <3> QED BY <1>8, <3>1
  <2>5. Cardinality({}) = 0
    BY FS_EmptySet
  <2>6. Debt(s2, t2, m, fl, a, th, D \cup B, g + 1, {})
    BY <1>2, <1>4, <1>5, <1>6, <2>3, <2>4, <2>5 DEF Debt, n
  <2>7. D \cup B \in SUBSET (Artifacts \ {a}) /\ g + 1 \in Nat /\ {} \in SUBSET Sweepers
    BY <1>3 DEF B
  <2> QED BY <2>6, <2>7 DEF s2, OwedAt
<1>10. CASE w \notin F
  <2>1. \A v \in F : t2[v] = tk[v]
    BY <1>1, <1>7, <1>10
  <2>2. \A v \in F : /\ t2[v].running /\ a \notin Img(t2[v].batch)
                     /\ Img(t2[v].batch) \cap D = {} /\ Cardinality(Img(t2[v].batch)) = BatchSize
    BY <2>1 DEF Debt
  <2>3. Debt(s2, t2, m, fl, a, th, D, g, F)
    BY <1>2, <1>4, <1>5, <1>6, <1>7, <1>8, <2>2 DEF Debt, n, f
  <2> QED BY <1>7, <2>3 DEF s2, OwedAt
<1> QED BY <1>9, <1>10

(* An overtaken tick ends with its stamp: its batch may leave D. *)
LEMMA DebtBringsBack ==
    ASSUME NEW att \in [Artifacts -> Nat], NEW tk, NEW m \in Nat, NEW fl \in Nat, NEW a \in Artifacts, NEW th \in Nat,
           NEW D \in SUBSET (Artifacts \ {a}), NEW g \in Nat, NEW F,
           Debt(att, tk, m, fl, a, th, D, g, F), NEW w, NEW t2, Ends(tk, t2, w),
           tk[w].running, tk[w].at \in Nat, ~(th < tk[w].at),
           IsFiniteSet(Img(tk[w].batch)), Cardinality(Img(tk[w].batch)) <= BatchSize
    PROVE  OwedAt(Stamped(att, tk, w), t2, m, fl, a, th)
<1> DEFINE s2 == Stamped(att, tk, w)
           B == Img(tk[w].batch)
           n == Cardinality(Fresh(tk, th))
           f == Cardinality(F)
<1>1. w \in Sweepers /\ ~t2[w].running /\ \A v \in Sweepers : v # w => t2[v] = tk[v]
  BY EndsFacts
<1>2. w \notin Fresh(tk, th) /\ Fresh(tk, th) \subseteq Fresh(t2, th) /\ Cardinality(Fresh(t2, th)) = n + 1
  <2>1. w \notin Fresh(tk, th)
    BY <1>1 DEF Fresh
  <2> QED BY <2>1, EndsFresh
<1>3. F \subseteq Fresh(tk, th) /\ F \subseteq Sweepers /\ f \in Nat /\ n \in Nat /\ IsFiniteSet(D) /\ Cardinality(D) \in Nat
  <2>1. F \subseteq Fresh(tk, th) /\ F \subseteq Sweepers
    BY DEF Debt, Fresh
  <2> QED BY <2>1, DebtCounts, FreshCount
<1>4. s2[a] <= th
  <2>1. att[a] <= th /\ s2[a] = IF a \in B THEN tk[w].at ELSE att[a]
    BY DEF Debt, Stamped
  <2> HIDE DEF s2, B
  <2> QED BY <2>1
<1>5. \A b \in D \ B : th < s2[b]
  BY DEF Debt, Stamped
<1>6. \A v \in Sweepers : t2[v].running /\ th < t2[v].at /\ a \in Img(t2[v].batch) => a \in Img(t2[v].left)
  BY <1>1 DEF Debt
<1>7. \A v \in F : /\ t2[v].running /\ a \notin Img(t2[v].batch)
                   /\ Img(t2[v].batch) \cap (D \ B) = {} /\ Cardinality(Img(t2[v].batch)) = BatchSize
  <2>1. \A v \in F : t2[v] = tk[v]
    BY <1>1, <1>2, <1>3
  <2> HIDE DEF B
  <2> QED BY <2>1 DEF Debt
<1>8. 2 * m <= Balance(n, g, f, fl) /\ g * BatchSize <= Cardinality(D)
  BY DEF Debt
<1> HIDE DEF n, f, s2, B
<1>9. Cardinality(D \ B) \in Nat /\ Cardinality(D) <= Cardinality(D \ B) + BatchSize
  <2>1. D \ B \in SUBSET D /\ D \cap B \in SUBSET B /\ D = (D \ B) \cup (D \cap B) /\ IsFiniteSet(B) /\ Cardinality(B) <= BatchSize
    BY DEF B
  <2>2. IsFiniteSet(D \ B) /\ IsFiniteSet(D \cap B) /\ Cardinality(D \cap B) <= Cardinality(B) /\ Cardinality(B) \in Nat
    BY <1>3, <2>1, PartCount
  <2>3. /\ Cardinality(D) <= Cardinality(D \ B) + Cardinality(D \cap B)
        /\ Cardinality(D \ B) \in Nat /\ Cardinality(D \cap B) \in Nat
    BY <2>1, <2>2, SumCount
  <2> QED BY <1>3, <2>1, <2>2, <2>3, BatchSizeAssumption
<1>10. PICK g2 \in Nat : g2 * BatchSize <= Cardinality(D \ B) /\ 2 * m <= Balance(n + 1, g2, f, fl)
  <2>1. CASE g = 0
    <3>1. Balance(n, 0, f, fl) <= Balance(n + 1, 0, f, fl) /\ Balance(n, 0, f, fl) \in Nat /\ Balance(n + 1, 0, f, fl) \in Nat
      <4>1. n + 1 \in Nat /\ n <= n + 1 /\ f + fl <= f + fl /\ 0 \in Nat
        BY <1>3
      <4> QED BY <1>3, <4>1, BalanceMonotone
    <3>2. 0 * BatchSize <= Cardinality(D \ B)
      BY <1>9, BatchSizeAssumption
    <3>3. 2 * m <= Balance(n + 1, 0, f, fl)
      BY <1>8, <2>1, <3>1
    <3> QED BY <3>2, <3>3
  <2>2. CASE g # 0
    <3>1. g \in Nat \ {0} /\ g - 1 \in Nat
      BY <2>2
    <3>2. Balance(n, g, f, fl) <= Balance(n + 1, g - 1, f, fl) /\ Balance(n, g, f, fl) \in Nat /\ Balance(n + 1, g - 1, f, fl) \in Nat
      BY <1>3, <3>1, BalanceLoses
    <3>3. (g - 1) * BatchSize <= Cardinality(D \ B)
      <4>1. (g - 1) * BatchSize = g * BatchSize - BatchSize /\ g * BatchSize \in Nat
        BY BatchSizeAssumption
      <4> QED BY <1>3, <1>8, <1>9, <4>1, BatchSizeAssumption
    <3>4. 2 * m <= Balance(n + 1, g - 1, f, fl)
      BY <1>8, <3>2
    <3> QED BY <3>1, <3>3, <3>4
  <2> QED BY <2>1, <2>2
<1>11. Debt(s2, t2, m, fl, a, th, D \ B, g2, F)
  BY <1>2, <1>3, <1>4, <1>5, <1>6, <1>7, <1>10 DEF Debt, f
<1>12. D \ B \in SUBSET (Artifacts \ {a}) /\ F \in SUBSET Sweepers
  BY <1>3
<1> QED BY <1>10, <1>11, <1>12 DEF s2, OwedAt

-----------------------------------------------------------------------------
(* The steps of the sweep. *)

(* The count goes up only for a waiting candidate that a selection leaves  *)
(* out, and back to 0 when the candidate is attempted.                     *)
LEMMA CountFacts ==
    ASSUME missed \in [Watched -> Nat], CountMissed
    PROVE  /\ missed' \in [Watched -> Nat]
           /\ \A a \in Watched :
                 /\ \/ missed'[a] <= missed[a]
                    \/ /\ missed'[a] = missed[a] + 1 /\ hold'[a] = "Due"
                       /\ \E w \in Sweepers : LeavesOut(w, a)
                 /\ (\E w \in Sweepers : tick'[w].running /\ Attempted(w, a)) => missed'[a] = 0
<1>1. ASSUME NEW a \in Watched
      PROVE  /\ missed'[a] \in Nat
             /\ \/ missed'[a] <= missed[a]
                \/ /\ missed'[a] = missed[a] + 1 /\ hold'[a] = "Due"
                   /\ \E w \in Sweepers : LeavesOut(w, a)
             /\ (\E w \in Sweepers : tick'[w].running /\ Attempted(w, a)) => missed'[a] = 0
  <2> DEFINE served == \E w \in Sweepers : tick'[w].running /\ Attempted(w, a)
             out == \E w \in Sweepers : LeavesOut(w, a) /\ missed[a] < MaxMissed
  <2>1. missed'[a] = IF hold'[a] # "Due" \/ served THEN 0 ELSE IF out THEN missed[a] + 1 ELSE missed[a]
    BY DEF CountMissed
  <2>2. missed[a] \in Nat
    OBVIOUS
  <2>3. out => \E w \in Sweepers : LeavesOut(w, a)
    OBVIOUS
  <2>4. \/ (hold'[a] # "Due" \/ served) /\ missed'[a] = 0
        \/ hold'[a] = "Due" /\ ~served /\ out /\ missed'[a] = missed[a] + 1
        \/ hold'[a] = "Due" /\ ~served /\ missed'[a] = missed[a]
    BY <2>1
  <2> HIDE DEF served, out
  <2>5. missed'[a] \in Nat /\ (missed'[a] <= missed[a] \/ (missed'[a] = missed[a] + 1 /\ hold'[a] = "Due" /\ out))
    BY <2>2, <2>4
  <2>6. served => missed'[a] = 0
    BY <2>4
  <2> QED BY <2>3, <2>5, <2>6 DEF served
<1>2. missed' = [a \in Watched |-> missed'[a]]
  BY DEF CountMissed
<1>3. missed' \in [Watched -> Nat]
  BY <1>1, <1>2
<1> QED BY <1>1, <1>3

LEMMA SweepStarts == RotationInit => SweepInv
<1> SUFFICES ASSUME RotationInit PROVE SweepInv
  OBVIOUS
<1>1. /\ attempt = [a \in Artifacts |-> 0] /\ tick = [w \in Sweepers |-> NoTick]
      /\ faults = 0 /\ missed = [a \in Watched |-> 0]
  BY DEF RotationInit, Init
<1>2. NoTick \in TickRecords /\ ~NoTick.running /\ ~NoTick.selecting /\ NoTick.batch = << >> /\ NoTick.at = 0
  BY DEF NoTick, TickRecords
<1>3. Ticking(tick)
  <2>1. Len(<< >>) <= BatchSize
    BY BatchSizeAssumption
  <2> QED BY <1>1, <1>2, <2>1 DEF Ticking
<1>4. Instants(attempt, tick) = {}
  BY <1>1, <1>2 DEF Instants
<1>5. Cardinality({}) = 0 /\ IsFiniteSet({})
  BY FS_EmptySet
<1>6. ASSUME NEW a \in Watched PROVE Owed(attempt, tick, missed[a], faults, a, 0)
  <2> DEFINE n == Cardinality(Fresh(tick, 0))
  <2>1. n \in Nat
    BY FreshCount
  <2>2. 2 * 0 <= Balance(n, 0, Cardinality({}), faults)
    <3> HIDE DEF n
    <3>1. n * (n - 1) \in Nat /\ n * 0 = 0
      BY <2>1, PairsMonotone
    <3>2. faults = 0
      BY <1>1
    <3> QED BY <1>5, <2>1, <3>1, <3>2 DEF Balance
  <2>3. 0 * BatchSize <= Cardinality({})
    BY <1>5, BatchSizeAssumption
  <2>4. attempt[a] <= 0
    BY <1>1, WatchedAssumption
  <2>5. \A w \in Sweepers : ~tick[w].running
    BY <1>1, <1>2
  <2>6. Debt(attempt, tick, 0, faults, a, 0, {}, 0, {})
    BY <2>2, <2>3, <2>4, <2>5 DEF Debt
  <2>7. 0 \in Nat /\ 0 <= 0 /\ {} \in SUBSET (Artifacts \ {a}) /\ {} \in SUBSET Sweepers
    OBVIOUS
  <2>8. Excused(tick, a, 0, 0)
    <3>1. Late(tick, a, 0) = {}
      BY <1>1, <1>2 DEF Late
    <3> QED BY <1>5, <3>1, LateCount DEF Excused
  <2>9. Accounts(attempt, tick, missed[a], faults, a, 0, 0, 0, {}, 0, {})
    BY <1>1, <2>6, <2>8 DEF Accounts
  <2> QED BY <2>7, <2>9 DEF Owed
<1>7. attempt \in [Artifacts -> Nat] /\ faults \in Nat /\ missed \in [Watched -> Nat]
  BY <1>1
<1> QED BY <1>3, <1>4, <1>5, <1>6, <1>7 DEF SweepInv

(* Nothing changes but the moves that the queries may not know of. *)
Drifts(tk, t2) ==
    /\ t2 \in [Sweepers -> TickRecords]
    /\ \A w \in Sweepers : /\ t2[w].running = tk[w].running /\ t2[w].selecting = tk[w].selecting
                           /\ t2[w].at = tk[w].at /\ t2[w].batch = tk[w].batch /\ t2[w].left = tk[w].left
                           /\ tk[w].moved \subseteq t2[w].moved
                           /\ tk[w] = NoTick => t2[w] = NoTick

LEMMA MoveDrifts ==
    ASSUME tick \in [Sweepers -> TickRecords], NEW a \in Artifacts, MoveHold(a)
    PROVE  Drifts(tick, tick')
<1> DEFINE more(w) == [tick[w] EXCEPT !.moved = @ \cup {a}]
<1>1. tick' = [w \in Sweepers |-> IF tick[w].selecting THEN more(w) ELSE tick[w]]
  BY DEF MoveHold
<1>2. ASSUME NEW w \in Sweepers
      PROVE  /\ more(w) \in TickRecords /\ more(w).running = tick[w].running
             /\ more(w).selecting = tick[w].selecting /\ more(w).at = tick[w].at
             /\ more(w).batch = tick[w].batch /\ more(w).left = tick[w].left
             /\ tick[w].moved \subseteq more(w).moved
  <2>1. tick[w] \in TickRecords
    OBVIOUS
  <2> QED BY <2>1 DEF TickRecords
<1> HIDE DEF more
<1>3. \A w \in Sweepers : tick'[w] = tick[w] \/ (tick[w].selecting /\ tick'[w] = more(w))
  BY <1>1
<1>4. tick' \in [Sweepers -> TickRecords]
  BY <1>1, <1>2
<1>5. \A w \in Sweepers : tick[w] = NoTick => tick'[w] = NoTick
  <2>1. ~NoTick.selecting
    BY DEF NoTick
  <2> QED BY <1>3, <2>1
<1> QED BY <1>2, <1>3, <1>4, <1>5 DEF Drifts

(* A step of the surroundings. *)
LEMMA SweepIdles ==
    ASSUME SweepInv, UNCHANGED <<attempt, faults>>, Drifts(tick, tick'), CountMissed \/ UNCHANGED missed
    PROVE  SweepInv'
<1> DEFINE K == Cardinality(Instants(attempt, tick))
<1>1. missed' \in [Watched -> Nat] /\ \A a \in Watched : missed'[a] <= missed[a]
  <2>1. CASE CountMissed
    <3>1. \A w \in Sweepers, a \in Watched : ~LeavesOut(w, a)
      BY DEF LeavesOut, Drifts
    <3> QED BY <2>1, <3>1, CountFacts DEF SweepInv
  <2>2. CASE UNCHANGED missed
    <3>1. \A a \in Watched : missed[a] \in Nat
      BY DEF SweepInv
    <3> QED BY <2>2, <3>1 DEF SweepInv
  <2> QED BY <2>1, <2>2
<1>2. ASSUME NEW a \in Watched PROVE Owed(attempt', tick', missed'[a], faults', a, K)
  <2>1. PICK th \in Nat, k \in Nat, e \in Nat, g \in Nat, D \in SUBSET (Artifacts \ {a}), F \in SUBSET Sweepers :
            th <= K /\ Accounts(attempt, tick, missed[a], faults, a, th, k, e, D, g, F)
    BY DEF SweepInv, Owed
  <2>2. Debt(attempt, tick, k, faults, a, th, D, g, F) /\ missed[a] <= k + e /\ Excused(tick, a, th, e)
    BY <2>1 DEF Accounts
  <2>3. missed[a] \in Nat /\ missed'[a] \in Nat /\ missed'[a] <= missed[a]
    BY <1>1 DEF SweepInv
  <2>4. missed'[a] <= k + e
    BY <2>2, <2>3
  <2>5. Fresh(tick', th) = Fresh(tick, th)
    BY DEF Fresh, Drifts
  <2>6. Excused(tick', a, th, e)
    <3>1. Late(tick', a, th) \subseteq Late(tick, a, th)
      BY DEF Late, Drifts
    <3> QED BY <2>2, <3>1, StaysExcused
  <2>7. Debt(attempt', tick', k, faults', a, th, D, g, F)
    <3>1. \A v \in Sweepers : tick'[v].running /\ th < tick'[v].at /\ a \in Img(tick'[v].batch) => a \in Img(tick'[v].left)
      BY <2>2 DEF Debt, Drifts
    <3>2. \A v \in F : tick'[v].running = tick[v].running /\ tick'[v].batch = tick[v].batch
      BY DEF Drifts
    <3> QED BY <2>2, <2>5, <3>1, <3>2 DEF Debt
  <2>8. Accounts(attempt', tick', missed'[a], faults', a, th, k, e, D, g, F)
    BY <2>4, <2>6, <2>7 DEF Accounts
  <2> QED BY <2>1, <2>8 DEF Owed
<1>3. Instants(attempt', tick') = Instants(attempt, tick)
  <2>1. \A w \in Sweepers : tick'[w].at = tick[w].at
    BY DEF Drifts
  <2> QED BY <2>1 DEF Instants
<1>4. Instants(attempt, tick)' = Instants(attempt, tick)
  BY <1>3 DEF Instants
<1>5. Ticking(tick')
  BY DEF SweepInv, Drifts, Ticking
<1> QED BY <1>1, <1>2, <1>4, <1>5 DEF SweepInv

(* An attempt ends the wait of its candidate: its debt starts anew at the  *)
(* latest instant.                                                         *)
LEMMA SweepAttempts ==
    ASSUME SweepInv, NEW w \in Sweepers, Attempt(w), CountMissed
    PROVE  SweepInv'
<1> DEFINE K == Cardinality(Instants(attempt, tick))
           h == Head(tick[w].left)
<1>1. /\ attempt \in [Artifacts -> Nat] /\ Ticking(tick) /\ tick \in [Sweepers -> TickRecords] /\ faults \in Nat
      /\ missed \in [Watched -> Nat] /\ \A x \in Instants(attempt, tick) : x <= K
  BY DEF SweepInv, Ticking
<1>2. /\ tick[w].left # << >> /\ tick' = [tick EXCEPT ![w].left = Tail(@)]
      /\ attempt' = attempt /\ faults' = faults
  BY DEF Attempt
<1>3. /\ tick'[w].running = tick[w].running /\ tick'[w].at = tick[w].at /\ tick'[w].batch = tick[w].batch
      /\ tick'[w].left = Tail(tick[w].left) /\ tick'[w].selecting = tick[w].selecting
      /\ tick'[w].moved = tick[w].moved
      /\ \A v \in Sweepers : v # w => tick'[v] = tick[v]
  BY <1>1, <1>2 DEF TickRecords
<1>4. tick[w].running
  BY <1>1, <1>2 DEF Ticking, NoTick
<1>5. \A v \in Sweepers : /\ tick'[v].running = tick[v].running /\ tick'[v].at = tick[v].at
                          /\ tick'[v].batch = tick[v].batch /\ tick'[v].selecting = tick[v].selecting
                          /\ tick'[v].moved = tick[v].moved
  BY <1>3
<1>6. tick' \in [Sweepers -> TickRecords]
  <2>1. tick[w].left \in Seq(Artifacts)
    BY <1>1 DEF TickRecords
  <2>2. Tail(tick[w].left) \in Seq(Artifacts)
    BY <1>2, <2>1
  <2> QED BY <1>1, <1>2, <2>2 DEF TickRecords
<1>7. Ticking(tick')
  <2>1. \A v \in Sweepers : tick'[v].running \/ tick'[v] = NoTick
    BY <1>1, <1>3, <1>4 DEF Ticking
  <2>2. \A v \in Sweepers : tick'[v].selecting => tick'[v].running /\ tick'[v].batch = << >> /\ tick'[v].left = << >>
    BY <1>1, <1>2, <1>3 DEF Ticking
  <2>3. \A v \in Sweepers : Len(tick'[v].batch) <= BatchSize
    BY <1>1, <1>5 DEF Ticking
  <2> QED BY <1>6, <2>1, <2>2, <2>3 DEF Ticking
<1>8. Instants(attempt', tick') = Instants(attempt, tick)
  BY <1>2, <1>5 DEF Instants
<1>9. K \in Nat /\ \A a \in Artifacts : attempt[a] \in Nat /\ attempt[a] <= K
  <2>1. /\ K \in Nat /\ \A a \in Artifacts : attempt[a] = 0 \/ attempt[a] \in Instants(attempt, tick)
    BY <1>1, InstantsFacts
  <2>2. \A a \in Artifacts : attempt[a] \in Nat
    BY <1>1
  <2> HIDE DEF K
  <2> QED BY <1>1, <2>1, <2>2
<1>10. \A v \in Sweepers : ~(K < tick[v].at)
  <2>1. /\ K \in Nat /\ \A v \in Sweepers : tick[v].at = 0 \/ tick[v].at \in Instants(attempt, tick)
    BY <1>1, InstantsFacts
  <2>2. \A v \in Sweepers : tick[v].at \in Nat
    BY <1>1 DEF TickRecords
  <2> HIDE DEF K
  <2> QED BY <1>1, <2>1, <2>2
<1>11. /\ missed' \in [Watched -> Nat]
       /\ \A a \in Watched : missed'[a] <= missed[a]
       /\ \A a \in Watched : a = h => missed'[a] = 0
  <2>1. \A v \in Sweepers, a \in Watched : ~LeavesOut(v, a)
    BY <1>5 DEF LeavesOut
  <2>2. Attempted(w, h) /\ tick'[w].running
    BY <1>2, <1>3, <1>4 DEF Attempted
  <2> QED BY <1>1, <2>1, <2>2, CountFacts
<1> HIDE DEF K, h
<1>12. ~tick[w].selecting
  BY <1>1, <1>2 DEF Ticking
<1>13. ASSUME NEW a \in Watched PROVE Owed(attempt', tick', missed'[a], faults', a, K)
  <2>a. a \in Artifacts
    BY WatchedAssumption
  <2>1. CASE a = h
    <3> DEFINE n == Cardinality(Fresh(tick', K))
    <3>1. n \in Nat
      BY FreshCount
    <3>2. Cardinality({}) = 0
      BY FS_EmptySet
    <3>3. 2 * 0 <= Balance(n, 0, Cardinality({}), faults')
      <4> HIDE DEF n
      <4>1. n * (n - 1) \in Nat /\ n * 0 = 0
        BY <3>1, PairsMonotone
      <4>2. faults' \in Nat
        BY <1>1, <1>2
      <4> QED BY <3>1, <3>2, <4>1, <4>2 DEF Balance
    <3>4. 0 * BatchSize <= Cardinality({})
      BY <3>2, BatchSizeAssumption
    <3>5. Debt(attempt', tick', 0, faults', a, K, {}, 0, {})
      BY <1>2, <1>5, <1>9, <1>10, <2>a, <3>3, <3>4 DEF Debt
    <3>6. K \in Nat /\ K <= K /\ 0 \in Nat /\ {} \in SUBSET (Artifacts \ {a}) /\ {} \in SUBSET Sweepers
      BY <1>9
    <3>7. Excused(tick', a, K, 0)
      <4>1. Late(tick', a, K) \subseteq Sweepers \ {w}
        BY <1>1, <1>2, <1>5, <1>12 DEF Late
      <4>2. /\ Cardinality(Sweepers \ {w}) = Cardinality(Sweepers) - 1
            /\ IsFiniteSet(Sweepers \ {w}) /\ Cardinality(Sweepers) \in Nat
        BY FiniteAssumption, OneLessCount
      <4>3. /\ Cardinality(Late(tick', a, K)) <= Cardinality(Sweepers \ {w})
            /\ Cardinality(Late(tick', a, K)) \in Nat /\ Cardinality(Sweepers \ {w}) \in Nat
        BY <4>1, <4>2, PartCount
      <4> QED BY <4>2, <4>3 DEF Excused
    <3>8. Accounts(attempt', tick', missed'[a], faults', a, K, 0, 0, {}, 0, {})
      BY <1>11, <2>1, <3>5, <3>7 DEF Accounts
    <3> QED BY <3>6, <3>8 DEF Owed
  <2>2. CASE a # h
    <3>1. PICK th \in Nat, k \in Nat, e \in Nat, g \in Nat, D \in SUBSET (Artifacts \ {a}), F \in SUBSET Sweepers :
              th <= K /\ Accounts(attempt, tick, missed[a], faults, a, th, k, e, D, g, F)
      BY DEF SweepInv, Owed, K
    <3>2. missed[a] \in Nat /\ missed'[a] \in Nat /\ missed'[a] <= missed[a]
      BY <1>1, <1>11
    <3>3. Debt(attempt, tick, k, faults, a, th, D, g, F) /\ missed[a] <= k + e /\ Excused(tick, a, th, e)
      BY <3>1 DEF Accounts
    <3>4. Fresh(tick', th) = Fresh(tick, th)
      BY <1>5 DEF Fresh
    <3>5. a \in Img(tick[w].left) => a \in Img(tick'[w].left)
      <4> SUFFICES ASSUME NEW i \in DOMAIN tick[w].left, a = tick[w].left[i] PROVE a \in Img(tick'[w].left)
        BY DEF Img, ImageOf
      <4> DEFINE l == tick[w].left
      <4>1. l \in Seq(Artifacts) /\ l # << >>
        BY <1>1, <1>2 DEF TickRecords
      <4> HIDE DEF l
      <4>2. Len(l) \in Nat /\ DOMAIN l = 1..Len(l) /\ Head(l) = l[1] /\ Len(Tail(l)) = Len(l) - 1
            /\ Tail(l) \in Seq(Artifacts) /\ \A j \in 1..(Len(l) - 1) : Tail(l)[j] = l[j + 1]
        BY <4>1, HeadTailProperties, LenProperties
      <4>3. i \in 1..Len(l) /\ i # 1 /\ a = l[i]
        BY <2>2, <4>2 DEF h, l
      <4>4. i - 1 \in 1..(Len(l) - 1) /\ (i - 1) + 1 = i
        BY <4>2, <4>3
      <4>5. i - 1 \in DOMAIN Tail(l) /\ Tail(l)[i - 1] = a
        <5>1. DOMAIN Tail(l) = 1..(Len(l) - 1)
          BY <4>2, LenProperties
        <5>2. Tail(l)[i - 1] = l[(i - 1) + 1]
          BY <4>2, <4>4
        <5> QED BY <4>3, <4>4, <5>1, <5>2
      <4> QED BY <1>3, <4>5 DEF Img, ImageOf, l
    <3>6. \A v \in Sweepers : tick'[v].running /\ th < tick'[v].at /\ a \in Img(tick'[v].batch) => a \in Img(tick'[v].left)
      BY <1>3, <3>3, <3>5 DEF Debt
    <3>7. \A v \in F : tick'[v].running = tick[v].running /\ tick'[v].batch = tick[v].batch
      BY <1>5
    <3>8. Debt(attempt', tick', k, faults', a, th, D, g, F)
      BY <1>2, <3>3, <3>4, <3>6, <3>7 DEF Debt
    <3>9. Excused(tick', a, th, e)
      <4>1. Late(tick', a, th) \subseteq Late(tick, a, th)
        BY <1>5 DEF Late
      <4> QED BY <3>3, <4>1, StaysExcused
    <3>10. missed'[a] <= k + e
      BY <3>2, <3>3
    <3>11. Accounts(attempt', tick', missed'[a], faults', a, th, k, e, D, g, F)
      BY <3>8, <3>9, <3>10 DEF Accounts
    <3> QED BY <3>1, <3>11 DEF Owed
  <2> QED BY <2>1, <2>2
<1>14. Instants(attempt, tick)' = Instants(attempt, tick)
  BY <1>8 DEF Instants
<1> QED BY <1>1, <1>2, <1>7, <1>11, <1>13, <1>14 DEF SweepInv, K

(* A tick starts, past every instant in use. *)
LEMMA SweepStartsTick ==
    ASSUME SweepInv, NEW w \in Sweepers, StartTick(w), CountMissed
    PROVE  SweepInv'
<1> DEFINE K == Cardinality(Instants(attempt, tick))
           r == [running |-> TRUE, selecting |-> TRUE, at |-> Now, moved |-> {}, batch |-> << >>, left |-> << >>]
           tk == [tick EXCEPT ![w] = r]
<1>1. /\ attempt \in [Artifacts -> Nat] /\ Ticking(tick) /\ tick \in [Sweepers -> TickRecords] /\ faults \in Nat
      /\ missed \in [Watched -> Nat]
  BY DEF SweepInv, Ticking
<1>2. SetCursor(attempt, tk) /\ ~tick[w].running /\ faults' = faults
  BY DEF StartTick
<1>3. K \in Nat /\ Now \in Nat /\ Now = 1 + K
  <2>1. K \in Nat
    BY <1>1, InstantsFacts
  <2> QED BY <2>1 DEF Now
<1> HIDE DEF K
<1>4. /\ r \in TickRecords /\ r.running /\ r.selecting /\ r.at = Now /\ r.batch = << >> /\ r.left = << >>
      /\ Len(r.batch) <= BatchSize
  <2>1. Len(<< >>) = 0 /\ << >> \in Seq(Artifacts)
    OBVIOUS
  <2>2. /\ r.running /\ r.selecting /\ r.at = Now /\ r.batch = << >> /\ r.left = << >>
    OBVIOUS
  <2>3. r \in TickRecords
    BY <1>3, <2>1 DEF TickRecords
  <2>4. Len(r.batch) <= BatchSize
    BY <2>1, <2>2, BatchSizeAssumption
  <2> QED BY <2>2, <2>3, <2>4
<1> HIDE DEF r
<1>5. tk[w] = r /\ (\A v \in Sweepers : v # w => tk[v] = tick[v]) /\ tick[w] = NoTick
  BY <1>1, <1>2 DEF Ticking
<1>6. Ticking(tk)
  <2>1. tk \in [Sweepers -> TickRecords]
    BY <1>1, <1>4
  <2> HIDE DEF tk
  <2> QED BY <1>1, <1>4, <1>5, <2>1 DEF Ticking
<1>7. missed' \in [Watched -> Nat] /\ \A a \in Watched : missed'[a] <= missed[a]
  <2> HIDE DEF tk
  <2>1. tk \in [Sweepers -> TickRecords]
    BY <1>6 DEF Ticking
  <2>2. Renumbering(attempt, tk, attempt', tick')
    BY <1>1, <1>2, <2>1, RenumberFacts
  <2>3. \A v \in Sweepers : tick'[v].selecting = tk[v].selecting
    BY <2>2 DEF Renumbering
  <2>4. \A v \in Sweepers, a \in Watched : ~LeavesOut(v, a)
    BY <1>4, <1>5, <2>3 DEF LeavesOut
  <2> QED BY <1>1, <2>4, CountFacts
<1>8. ASSUME NEW a \in Watched PROVE Owed(attempt, tk, missed'[a], faults', a, K)
  <2>1. PICK th \in Nat, k \in Nat, e \in Nat, g \in Nat, D \in SUBSET (Artifacts \ {a}), F \in SUBSET Sweepers :
            th <= K /\ Accounts(attempt, tick, missed[a], faults, a, th, k, e, D, g, F)
    BY DEF SweepInv, Owed, K
  <2>2. Debt(attempt, tick, k, faults, a, th, D, g, F) /\ missed[a] <= k + e /\ Excused(tick, a, th, e)
    BY <2>1 DEF Accounts
  <2>3. th < Now
    BY <1>3, <2>1
  <2>4. Starts(tick, tk, w, r, th)
    BY <1>1, <1>2, <1>4, <1>5, <2>3 DEF Starts, NoTick
  <2>5. Debt(attempt, tk, k, faults, a, th, D, g, F)
    BY <2>2, <2>4, DebtStarts
  <2>6. Excused(tk, a, th, e)
    <3>1. Late(tk, a, th) \subseteq Late(tick, a, th)
      <4> HIDE DEF tk
      <4> QED BY <1>4, <1>5, <2>3 DEF Late
    <3> QED BY <2>2, <3>1, StaysExcused
  <2>7. missed'[a] <= k + e
    <3>1. missed[a] \in Nat /\ missed'[a] \in Nat /\ missed'[a] <= missed[a]
      BY <1>1, <1>7
    <3> QED BY <2>2, <3>1
  <2>8. Accounts(attempt, tk, missed'[a], faults', a, th, k, e, D, g, F)
    BY <1>2, <2>5, <2>6, <2>7 DEF Accounts
  <2> QED BY <2>1, <2>8 DEF Owed
<1>9. faults' \in Nat
  BY <1>1, <1>2
<1> HIDE DEF tk
<1> QED BY <1>1, <1>2, <1>6, <1>7, <1>8, <1>9, Settle

(* The query of w has answered with the batch s. *)
Selects(tk, t2, w, s) ==
    /\ tk \in [Sweepers -> TickRecords] /\ w \in Sweepers
    /\ t2 = [tk EXCEPT ![w] = [@ EXCEPT !.selecting = FALSE, !.moved = {}, !.batch = s, !.left = s]]

LEMMA SelectsFacts ==
    ASSUME NEW tk, Ticking(tk), NEW t2, NEW w, NEW s \in Seq(Artifacts), Len(s) <= BatchSize,
           Selects(tk, t2, w, s), tk[w].selecting
    PROVE  /\ Ticking(t2) /\ w \in Sweepers /\ \A v \in Sweepers : v # w => t2[v] = tk[v]
           /\ t2[w].running /\ ~t2[w].selecting /\ t2[w].batch = s
           /\ \A th : Starts(tk, t2, w, t2[w], th)
           /\ \A a, th : Late(t2, a, th) = Late(tk, a, th) \ {w}
<1> DEFINE r == [tk[w] EXCEPT !.selecting = FALSE, !.moved = {}, !.batch = s, !.left = s]
<1>1. tk \in [Sweepers -> TickRecords] /\ w \in Sweepers /\ t2 = [tk EXCEPT ![w] = r]
  BY DEF Selects
<1>2. tk[w] \in TickRecords /\ tk[w].running /\ tk[w].batch = << >>
  BY <1>1 DEF Ticking
<1>3. /\ r \in TickRecords /\ r.running /\ ~r.selecting /\ r.at = tk[w].at
      /\ r.batch = s /\ r.left = s
  BY <1>2 DEF TickRecords
<1> HIDE DEF r
<1>4. t2[w] = r /\ \A v \in Sweepers : v # w => t2[v] = tk[v]
  BY <1>1
<1>5. t2 \in [Sweepers -> TickRecords]
  BY <1>1, <1>3
<1>6. Ticking(t2)
  BY <1>3, <1>4, <1>5 DEF Ticking
<1>7. \A th : Starts(tk, t2, w, t2[w], th)
  BY <1>1, <1>2, <1>3, <1>4 DEF Starts
<1>8. \A a, th : Late(t2, a, th) = Late(tk, a, th) \ {w}
  BY <1>3, <1>4 DEF Late
<1> QED BY <1>1, <1>3, <1>4, <1>6, <1>7, <1>8

(* The query answers.  A candidate it leaves out waits behind a full batch *)
(* of candidates with no later stamp, hence outside D: the tick joins F,   *)
(* or it was late.                                                         *)
LEMMA SweepSelects ==
    ASSUME SweepInv, NEW w \in Sweepers, tick[w].selecting, hold' = hold, faults' = faults, CountMissed,
           NEW c \in Found(w), NEW s \in Batches(c),
           NEW tk, Selects(tick, tk, w, s), SetCursor(attempt, tk)
    PROVE  SweepInv'
<1> DEFINE K == Cardinality(Instants(attempt, tick))
<1>1. /\ attempt \in [Artifacts -> Nat] /\ Ticking(tick) /\ tick \in [Sweepers -> TickRecords] /\ faults \in Nat
      /\ missed \in [Watched -> Nat]
  BY DEF SweepInv, Ticking
<1>2. c \in SUBSET Artifacts /\ \A a \in Artifacts \ tick[w].moved : hold[a] = "Due" => a \in c
  BY DEF Found, Candidates
<1>3. /\ s \in Seq(Artifacts) /\ Len(s) <= BatchSize
      /\ \A a \in c \ Img(s) : /\ Cardinality(Img(s)) = BatchSize
                                /\ \A b \in Img(s) : attempt[b] <= attempt[a]
      /\ Img(s) \subseteq c
  BY <1>1, <1>2, BatchFacts
<1>4. /\ Ticking(tk) /\ \A v \in Sweepers : v # w => tk[v] = tick[v]
      /\ tk[w].running /\ ~tk[w].selecting /\ tk[w].batch = s
      /\ \A th : Starts(tick, tk, w, tk[w], th)
      /\ \A a, th : Late(tk, a, th) = Late(tick, a, th) \ {w}
  <2>1. s \in Seq(Artifacts) /\ Len(s) <= BatchSize /\ Ticking(tick)
    BY <1>1, <1>3
  <2> QED BY ONLY <2>1, Selects(tick, tk, w, s), tick[w].selecting, SelectsFacts
<1>5. \A v \in Sweepers : tick'[v].selecting = tk[v].selecting /\ tick'[v].batch = tk[v].batch
  <2>1. tk \in [Sweepers -> TickRecords]
    BY <1>4 DEF Ticking
  <2>2. Renumbering(attempt, tk, attempt', tick')
    BY <1>1, <2>1, RenumberFacts
  <2> QED BY <2>2 DEF Renumbering
<1>6. /\ missed' \in [Watched -> Nat]
      /\ \A a \in Watched : \/ missed'[a] <= missed[a]
                            \/ missed'[a] = missed[a] + 1 /\ a \in c \ Img(s) /\ a \notin tick[w].moved
  <2>1. ASSUME NEW a \in Watched, hold'[a] = "Due", NEW v \in Sweepers, LeavesOut(v, a)
        PROVE  a \in c \ Img(s) /\ a \notin tick[w].moved
    <3>1. v = w
      BY <1>4, <1>5, <2>1 DEF LeavesOut
    <3>2. a \notin tick[w].moved /\ a \in Artifacts
      BY <2>1, <3>1, WatchedAssumption DEF LeavesOut
    <3>3. a \in c
      BY <1>2, <2>1, <3>2
    <3>4. tick'[w].batch = s
      BY <1>4, <1>5
    <3>5. a \notin Img(s)
      BY <2>1, <3>1, <3>4 DEF LeavesOut, Img, ImageOf
    <3> QED BY <3>2, <3>3, <3>5
  <2>2. /\ missed' \in [Watched -> Nat]
        /\ \A a \in Watched :
              \/ missed'[a] <= missed[a]
              \/ /\ missed'[a] = missed[a] + 1 /\ hold'[a] = "Due"
                 /\ \E v \in Sweepers : LeavesOut(v, a)
    BY <1>1, CountFacts
  <2> QED BY <2>1, <2>2
<1> HIDE DEF K
<1>7. ASSUME NEW a \in Watched PROVE Owed(attempt, tk, missed'[a], faults', a, K)
  <2>a. a \in Artifacts
    BY WatchedAssumption
  <2>1. PICK th \in Nat, k \in Nat, e \in Nat, g \in Nat, D \in SUBSET (Artifacts \ {a}), F \in SUBSET Sweepers :
            th <= K /\ Accounts(attempt, tick, missed[a], faults, a, th, k, e, D, g, F)
    BY DEF SweepInv, Owed, K
  <2>2. Debt(attempt, tick, k, faults, a, th, D, g, F) /\ missed[a] <= k + e /\ Excused(tick, a, th, e)
    BY <2>1 DEF Accounts
  <2>3. missed[a] \in Nat /\ missed'[a] \in Nat
    BY <1>1, <1>6
  <2>4. Starts(tick, tk, w, tk[w], th) /\ Late(tk, a, th) = Late(tick, a, th) \ {w}
    BY <1>4
  <2>5. Debt(attempt, tk, k, faults, a, th, D, g, F)
    BY <2>2, <2>4, DebtStarts
  <2>6. CASE missed'[a] <= missed[a]
    <3>1. Excused(tk, a, th, e)
      BY <2>2, <2>4, StaysExcused
    <3>2. missed'[a] <= k + e
      BY <2>2, <2>3, <2>6
    <3>3. Accounts(attempt, tk, missed'[a], faults', a, th, k, e, D, g, F)
      BY <2>5, <3>1, <3>2 DEF Accounts
    <3> QED BY <2>1, <3>3 DEF Owed
  <2>7. ASSUME missed'[a] = missed[a] + 1, a \in c \ Img(s), a \notin tick[w].moved
        PROVE  Owed(attempt, tk, missed'[a], faults', a, K)
    <3>1. CASE ~(th < tick[w].at)
      <4>1. w \in Late(tick, a, th)
        BY <2>7, <3>1 DEF Late
      <4>2. Excused(tk, a, th, e + 1)
        BY <2>2, <2>4, <4>1, OneMoreExcused
      <4>3. missed'[a] <= k + (e + 1) /\ e + 1 \in Nat
        BY <2>2, <2>3, <2>7
      <4>4. Accounts(attempt, tk, missed'[a], faults', a, th, k, e + 1, D, g, F)
        BY <2>5, <4>2, <4>3 DEF Accounts
      <4> QED BY <2>1, <4>3, <4>4 DEF Owed
    <3>2. CASE th < tick[w].at
      <4>1. Cardinality(Img(s)) = BatchSize /\ \A b \in Img(s) : attempt[b] <= attempt[a]
        BY <1>3, <2>7
      <4>2. Img(s) \cap D = {}
        <5> SUFFICES ASSUME NEW b \in D, attempt[b] <= attempt[a] PROVE FALSE
          BY <4>1
        <5>1. attempt[a] <= th /\ th < attempt[b]
          BY <2>2 DEF Debt
        <5>2. attempt[a] \in Nat /\ attempt[b] \in Nat
          BY <1>1, <2>a
        <5> QED BY <5>1, <5>2
      <4>3. w \in Fresh(tick, th)
        BY <3>2 DEF Fresh
      <4>4. a \notin Img(tk[w].batch) /\ Img(tk[w].batch) \cap D = {} /\ Cardinality(Img(tk[w].batch)) = BatchSize
        BY <1>4, <2>7, <4>1, <4>2
      <4>5. Debt(attempt, tk, k + 1, faults, a, th, D, g, F \cup {w})
        BY <1>1, <2>2, <2>4, <4>3, <4>4, DebtLeavesOut
      <4>6. Excused(tk, a, th, e)
        BY <2>2, <2>4, StaysExcused
      <4>7. missed'[a] <= (k + 1) + e /\ k + 1 \in Nat /\ F \cup {w} \in SUBSET Sweepers
        BY <2>2, <2>3, <2>7
      <4>8. Accounts(attempt, tk, missed'[a], faults', a, th, k + 1, e, D, g, F \cup {w})
        BY <4>5, <4>6, <4>7 DEF Accounts
      <4> QED BY <2>1, <4>7, <4>8 DEF Owed
    <3> QED BY <3>1, <3>2
  <2> QED BY <1>6, <2>6, <2>7
<1>8. faults' \in Nat
  BY <1>1
<1> QED BY <1>1, <1>4, <1>6, <1>7, <1>8, Settle

LEMMA EndsTicking ==
    ASSUME NEW w \in Sweepers, Ticking(tick), NEW tk, tk = [tick EXCEPT ![w] = NoTick]
    PROVE  Ticking(tk) /\ Ends(tick, tk, w)
<1>1. NoTick \in TickRecords /\ Len(NoTick.batch) <= BatchSize /\ ~NoTick.selecting
  <2>1. NoTick \in TickRecords /\ ~NoTick.selecting /\ NoTick.batch = << >> /\ Len(<< >>) = 0
    BY DEF NoTick, TickRecords
  <2> QED BY <2>1, BatchSizeAssumption
<1>2. tick \in [Sweepers -> TickRecords]
  BY DEF Ticking
<1>3. Ends(tick, tk, w)
  BY <1>2 DEF Ends
<1>4. tk \in [Sweepers -> TickRecords]
  BY <1>1, <1>2
<1> QED BY <1>1, <1>3, <1>4, EndsFacts DEF Ticking

(* The count of a step that ends a tick. *)
LEMMA EndsCount ==
    ASSUME SweepInv, CountMissed, NEW w \in Sweepers, NEW att \in [Artifacts -> Nat], NEW tk, Ticking(tk), Ends(tick, tk, w),
           SetCursor(att, tk)
    PROVE  missed' \in [Watched -> Nat] /\ \A a \in Watched : missed'[a] <= missed[a]
<1>1. tk \in [Sweepers -> TickRecords]
  BY DEF Ticking
<1>2. Renumbering(att, tk, attempt', tick')
  BY <1>1, RenumberFacts
<1>3. \A v \in Sweepers : tick'[v].running = tk[v].running /\ tick'[v].selecting = tk[v].selecting
  BY <1>2 DEF Renumbering
<1>4. \A v \in Sweepers, a \in Watched : ~LeavesOut(v, a)
  BY <1>3, EndsFacts DEF LeavesOut
<1> QED BY <1>4, CountFacts DEF SweepInv

LEMMA EndsLate ==
    ASSUME NEW tk, NEW t2, NEW w, Ends(tk, t2, w)
    PROVE  \A a, th : Late(t2, a, th) \subseteq Late(tk, a, th)
<1>1. t2[w] = NoTick /\ (\A v \in Sweepers : v # w => t2[v] = tk[v]) /\ ~NoTick.selecting
  BY EndsFacts DEF NoTick
<1> QED BY <1>1 DEF Late

(* A tick ends without its stamp: by a fault, or with nothing selected. *)
LEMMA SweepQuits ==
    ASSUME SweepInv, NEW w \in Sweepers, tick[w].selecting, faults' = faults, CountMissed,
           SetCursor(attempt, [tick EXCEPT ![w] = NoTick])
    PROVE  SweepInv'
<1> DEFINE K == Cardinality(Instants(attempt, tick))
           tk == [tick EXCEPT ![w] = NoTick]
<1>1. /\ attempt \in [Artifacts -> Nat] /\ Ticking(tick) /\ faults \in Nat /\ missed \in [Watched -> Nat]
      /\ tick[w].batch = << >>
  BY DEF SweepInv, Ticking
<1>2. Ticking(tk) /\ Ends(tick, tk, w)
  BY <1>1, EndsTicking
<1> HIDE DEF tk
<1>3. missed' \in [Watched -> Nat] /\ \A a \in Watched : missed'[a] <= missed[a]
  BY <1>1, <1>2, EndsCount DEF tk
<1>4. ASSUME NEW a \in Watched PROVE Owed(attempt, tk, missed'[a], faults', a, K)
  <2>1. PICK th \in Nat, k \in Nat, e \in Nat, g \in Nat, D \in SUBSET (Artifacts \ {a}), F \in SUBSET Sweepers :
            th <= K /\ Accounts(attempt, tick, missed[a], faults, a, th, k, e, D, g, F)
    BY DEF SweepInv, Owed
  <2>2. Debt(attempt, tick, k, faults, a, th, D, g, F) /\ missed[a] <= k + e /\ Excused(tick, a, th, e)
    BY <2>1 DEF Accounts
  <2>3. Debt(attempt, tk, k, faults, a, th, D, g, F)
    BY <1>1, <1>2, <2>2, DebtQuits
  <2>4. Excused(tk, a, th, e)
    BY <1>2, <2>2, EndsLate, StaysExcused
  <2>5. missed'[a] <= k + e
    <3>1. missed[a] \in Nat /\ missed'[a] \in Nat /\ missed'[a] <= missed[a]
      BY <1>1, <1>3
    <3> QED BY <2>2, <3>1
  <2>6. Accounts(attempt, tk, missed'[a], faults', a, th, k, e, D, g, F)
    BY <2>3, <2>4, <2>5 DEF Accounts
  <2> QED BY <2>1, <2>6 DEF Owed
<1>5. faults' \in Nat /\ SetCursor(attempt, tk)
  BY <1>1 DEF tk
<1> HIDE DEF K
<1> QED BY <1>1, <1>2, <1>3, <1>4, <1>5, Settle

LEMMA SweepFaults ==
    ASSUME SweepInv, NEW w \in Sweepers, SelectFails(w) \/ Abort(w) \/ MarkFails(w), CountMissed
    PROVE  SweepInv'
<1> DEFINE K == Cardinality(Instants(attempt, tick))
           tk == [tick EXCEPT ![w] = NoTick]
<1>1. SetCursor(attempt, tk) /\ faults' = faults + 1
  BY DEF SelectFails, Abort, MarkFails
<1>2. attempt \in [Artifacts -> Nat] /\ Ticking(tick) /\ faults \in Nat /\ missed \in [Watched -> Nat]
  BY DEF SweepInv
<1>3. Ticking(tk) /\ Ends(tick, tk, w)
  BY <1>2, EndsTicking
<1> HIDE DEF tk
<1>4. missed' \in [Watched -> Nat] /\ \A a \in Watched : missed'[a] <= missed[a]
  BY <1>1, <1>2, <1>3, EndsCount
<1>5. ASSUME NEW a \in Watched PROVE Owed(attempt, tk, missed'[a], faults', a, K)
  <2>1. PICK th \in Nat, k \in Nat, e \in Nat, g \in Nat, D \in SUBSET (Artifacts \ {a}), F \in SUBSET Sweepers :
            th <= K /\ Accounts(attempt, tick, missed[a], faults, a, th, k, e, D, g, F)
    BY DEF SweepInv, Owed
  <2>2. Debt(attempt, tick, k, faults, a, th, D, g, F) /\ missed[a] <= k + e /\ Excused(tick, a, th, e)
    BY <2>1 DEF Accounts
  <2>3. Debt(attempt, tk, k, faults', a, th, D, g, F \ {w})
    BY <1>1, <1>2, <1>3, <2>2, DebtFaults
  <2>4. Excused(tk, a, th, e)
    BY <1>3, <2>2, EndsLate, StaysExcused
  <2>5. missed'[a] <= k + e
    <3>1. missed[a] \in Nat /\ missed'[a] \in Nat /\ missed'[a] <= missed[a]
      BY <1>2, <1>4
    <3> QED BY <2>2, <3>1
  <2>6. Accounts(attempt, tk, missed'[a], faults', a, th, k, e, D, g, F \ {w})
    BY <2>3, <2>4, <2>5 DEF Accounts
  <2>7. F \ {w} \in SUBSET Sweepers
    OBVIOUS
  <2> QED BY <2>1, <2>6, <2>7 DEF Owed
<1>6. faults' \in Nat
  BY <1>1, <1>2
<1> HIDE DEF K
<1> QED BY <1>1, <1>2, <1>3, <1>4, <1>5, <1>6, Settle

(* A tick ends with its stamp. *)
LEMMA SweepMarks ==
    ASSUME SweepInv, NEW w \in Sweepers, MarkAttempted(w), CountMissed
    PROVE  SweepInv'
<1> DEFINE K == Cardinality(Instants(attempt, tick))
           tk == [tick EXCEPT ![w] = NoTick]
           att == Stamped(attempt, tick, w)
<1>1. SetCursor(att, tk) /\ faults' = faults /\ tick[w].running /\ tick[w].left = << >>
  <2>1. att = [a \in Artifacts |-> IF \E i \in DOMAIN tick[w].batch : tick[w].batch[i] = a THEN tick[w].at
                                   ELSE attempt[a]]
    BY DEF Stamped, Img, ImageOf
  <2> HIDE DEF att
  <2> QED BY <2>1 DEF MarkAttempted
<1>2. /\ attempt \in [Artifacts -> Nat] /\ Ticking(tick) /\ tick \in [Sweepers -> TickRecords]
      /\ faults \in Nat /\ missed \in [Watched -> Nat]
  BY DEF SweepInv, Ticking
<1>3. Ticking(tk) /\ Ends(tick, tk, w)
  BY <1>2, EndsTicking
<1>4. tick[w].at \in Nat /\ tick[w].batch \in Seq(Artifacts) /\ Len(tick[w].batch) <= BatchSize
  BY <1>2 DEF Ticking, TickRecords
<1>5. /\ Img(tick[w].batch) \in SUBSET Artifacts /\ IsFiniteSet(Img(tick[w].batch))
      /\ Cardinality(Img(tick[w].batch)) <= BatchSize
  <2>1. /\ Img(tick[w].batch) \subseteq Artifacts /\ IsFiniteSet(Img(tick[w].batch)) /\ Cardinality(Img(tick[w].batch)) \in Nat
        /\ Cardinality(Img(tick[w].batch)) <= Len(tick[w].batch) /\ Len(tick[w].batch) \in Nat
    BY <1>4, ImgCount
  <2> QED BY <1>4, <2>1, BatchSizeAssumption
<1>6. att \in [Artifacts -> Nat]
  BY <1>2, <1>4 DEF Stamped
<1> HIDE DEF tk, att, K
<1>7. missed' \in [Watched -> Nat] /\ \A a \in Watched : missed'[a] <= missed[a]
  BY <1>1, <1>3, <1>6, EndsCount
<1>8. ASSUME NEW a \in Watched PROVE Owed(att, tk, missed'[a], faults', a, K)
  <2>a. a \in Artifacts
    BY WatchedAssumption
  <2>1. PICK th \in Nat, k \in Nat, e \in Nat, g \in Nat, D \in SUBSET (Artifacts \ {a}), F \in SUBSET Sweepers :
            th <= K /\ Accounts(attempt, tick, missed[a], faults, a, th, k, e, D, g, F)
    BY DEF SweepInv, Owed, K
  <2>2. Debt(attempt, tick, k, faults, a, th, D, g, F) /\ missed[a] <= k + e /\ Excused(tick, a, th, e)
    BY <2>1 DEF Accounts
  <2>3. OwedAt(Stamped(attempt, tick, w), tk, k, faults, a, th)
    <3>1. CASE th < tick[w].at
      BY <1>1, <1>2, <1>3, <1>5, <2>a, <2>2, <3>1, DebtStamps
    <3>2. CASE ~(th < tick[w].at)
      BY <1>1, <1>2, <1>3, <1>4, <1>5, <2>a, <2>2, <3>2, DebtBringsBack
    <3> QED BY <3>1, <3>2
  <2>4. PICK g2 \in Nat, D2 \in SUBSET (Artifacts \ {a}), F2 \in SUBSET Sweepers :
            Debt(att, tk, k, faults, a, th, D2, g2, F2)
    BY <2>3 DEF att, OwedAt
  <2>5. Excused(tk, a, th, e)
    BY <1>3, <2>2, EndsLate, StaysExcused
  <2>6. missed'[a] <= k + e
    <3>1. missed[a] \in Nat /\ missed'[a] \in Nat /\ missed'[a] <= missed[a]
      BY <1>2, <1>7
    <3> QED BY <2>2, <3>1
  <2>7. Accounts(att, tk, missed'[a], faults', a, th, k, e, D2, g2, F2)
    BY <1>1, <2>4, <2>5, <2>6 DEF Accounts
  <2> QED BY <2>1, <2>7 DEF Owed
<1>9. faults' \in Nat
  BY <1>1, <1>2
<1> QED BY <1>1, <1>3, <1>6, <1>7, <1>8, <1>9, Settle

LEMMA SweepAnswers ==
    ASSUME SweepInv, NEW w \in Sweepers, SelectExpired(w), CountMissed
    PROVE  SweepInv'
<1>1. PICK c \in Found(w) : \E s \in Batches(c) :
          SetCursor(attempt, [tick EXCEPT ![w] =
              IF s = << >> THEN NoTick
              ELSE [@ EXCEPT !.selecting = FALSE, !.moved = {}, !.batch = s, !.left = s]])
  BY DEF SelectExpired
<1>2. PICK s \in Batches(c) :
          SetCursor(attempt, [tick EXCEPT ![w] =
              IF s = << >> THEN NoTick
              ELSE [@ EXCEPT !.selecting = FALSE, !.moved = {}, !.batch = s, !.left = s]])
  BY <1>1
<1>3. tick[w].selecting /\ hold' = hold /\ faults' = faults /\ tick \in [Sweepers -> TickRecords]
  BY DEF SelectExpired, SweepInv, Ticking
<1>4. CASE s = << >>
  <2>1. SetCursor(attempt, [tick EXCEPT ![w] = NoTick])
    BY <1>2, <1>4
  <2> QED BY <1>3, <2>1, SweepQuits
<1>5. CASE s # << >>
  <2> DEFINE tk == [tick EXCEPT ![w] = [@ EXCEPT !.selecting = FALSE, !.moved = {}, !.batch = s, !.left = s]]
  <2>1. SetCursor(attempt, tk) /\ Selects(tick, tk, w, s)
    BY <1>2, <1>3, <1>5 DEF Selects
  <2> HIDE DEF tk
  <2> QED BY <1>3, <2>1, SweepSelects
<1> QED BY <1>4, <1>5

LEMMA SweepStep == SweepInv /\ [RotationNext]_<<vars, missed>> => SweepInv'
<1> SUFFICES ASSUME SweepInv, [RotationNext]_<<vars, missed>> PROVE SweepInv'
  OBVIOUS
<1>0. tick \in [Sweepers -> TickRecords]
  BY DEF SweepInv, Ticking
<1>1. ASSUME UNCHANGED tick PROVE Drifts(tick, tick')
  BY <1>0, <1>1 DEF Drifts
<1>2. CASE UNCHANGED <<vars, missed>>
  <2>1. UNCHANGED <<attempt, faults>> /\ UNCHANGED tick /\ UNCHANGED missed
    BY <1>2 DEF vars
  <2> QED BY <1>1, <2>1, SweepIdles
<1>3. CASE RotationNext
  <2>1. Next /\ CountMissed
    BY <1>3 DEF RotationNext
  <2>2. CASE \E a \in Artifacts : MoveHold(a) \/ Scan(a) \/ ParentSettles(a) \/ VerifyRuns(a)
    <3>1. PICK a \in Artifacts : MoveHold(a) \/ Scan(a) \/ ParentSettles(a) \/ VerifyRuns(a)
      BY <2>2
    <3>2. UNCHANGED <<attempt, faults>>
      BY <3>1 DEF MoveHold, Scan, ParentSettles, VerifyRuns
    <3>3. MoveHold(a) \/ UNCHANGED tick
      BY <3>1 DEF Scan, ParentSettles, VerifyRuns
    <3>4. Drifts(tick, tick')
      BY <1>0, <1>1, <3>3, MoveDrifts
    <3> QED BY <2>1, <3>2, <3>4, SweepIdles
  <2>3. CASE \E w \in Sweepers : Sweep(w)
    <3>1. PICK w \in Sweepers : Sweep(w)
      BY <2>3
    <3> QED BY <2>1, <3>1, SweepStartsTick, SweepAnswers, SweepAttempts, SweepFaults, SweepMarks DEF Sweep
  <2> QED BY <2>1, <2>2, <2>3 DEF Next
<1> QED BY <1>2, <1>3

LEMMA SweepBound == SweepInv => RotationBound
<1> SUFFICES ASSUME SweepInv, NEW a \in Watched PROVE missed[a] <= Rotation + faults
  BY DEF RotationBound
<1>a. a \in Artifacts
  BY WatchedAssumption
<1>0. PICK th \in Nat, k \in Nat, e \in Nat, g \in Nat, D \in SUBSET (Artifacts \ {a}), F \in SUBSET Sweepers :
          Accounts(attempt, tick, missed[a], faults, a, th, k, e, D, g, F)
  BY DEF SweepInv, Owed
<1>1. Debt(attempt, tick, k, faults, a, th, D, g, F)
  BY <1>0 DEF Accounts
<1> DEFINE N == Cardinality(Artifacts)
           s == Cardinality(Sweepers)
           n == Cardinality(Fresh(tick, th))
           f == Cardinality(F)
           q == (N - 1) \div BatchSize
<1>2. /\ IsFiniteSet(F) /\ f \in Nat /\ f <= n /\ IsFiniteSet(D) /\ Cardinality(D) \in Nat
      /\ n \in Nat /\ s \in Nat /\ n <= s
  BY <1>1, DebtCounts, FreshCount
<1>3. faults \in Nat /\ missed[a] \in Nat
  BY DEF SweepInv
<1>4. N \in Nat /\ N - 1 \in Nat /\ \A S \in SUBSET (Artifacts \ {a}) : Cardinality(S) \in Nat /\ Cardinality(S) <= N - 1
  <2>1. IsFiniteSet(Artifacts \ {a}) /\ N \in Nat /\ Cardinality(Artifacts \ {a}) = N - 1 /\ Cardinality(Artifacts \ {a}) \in Nat
    BY <1>a, FiniteAssumption, OneLessCount
  <2> HIDE DEF N
  <2> QED BY <2>1, PartCount
<1>5. g * BatchSize <= Cardinality(D) /\ 2 * k <= Balance(n, g, f, faults)
  BY <1>1 DEF Debt
<1>6. \A x \in Nat : x * BatchSize <= N - 1 => x <= q /\ q \in Nat
  <2> HIDE DEF N
  <2> QED BY <1>4, BatchSizeAssumption
<1>7. g <= q /\ q \in Nat
  <2>1. g * BatchSize <= N - 1
    <3>1. g * BatchSize \in Nat
      BY BatchSizeAssumption
    <3> HIDE DEF N
    <3> QED BY <1>2, <1>4, <1>5, <3>1
  <2> QED BY <1>6, <2>1
<1>8. ASSUME f # 0 PROVE g + 1 <= q
  <2>1. PICK w \in F : TRUE
    BY <1>8, FS_EmptySet
  <2> DEFINE B == Img(tick[w].batch)
  <2>2. a \notin B /\ B \cap D = {} /\ Cardinality(B) = BatchSize
    BY <1>1 DEF Debt
  <2>3. B \subseteq Artifacts /\ IsFiniteSet(B)
    <3>1. tick[w].batch \in Seq(Artifacts)
      BY DEF SweepInv, Ticking, TickRecords
    <3> QED BY <3>1, ImgCount
  <2> HIDE DEF B
  <2>4. Cardinality(D \cup B) = Cardinality(D) + BatchSize
    BY <1>2, <2>2, <2>3, SumCount
  <2>5. D \cup B \in SUBSET (Artifacts \ {a})
    BY <2>2, <2>3
  <2>6. (g + 1) * BatchSize <= N - 1
    <3>1. (g + 1) * BatchSize = g * BatchSize + BatchSize /\ g * BatchSize \in Nat
      BY BatchSizeAssumption
    <3>2. Cardinality(D \cup B) <= N - 1
      BY <1>4, <2>5
    <3> HIDE DEF N
    <3> QED BY <1>2, <1>4, <1>5, <2>4, <3>1, <3>2, BatchSizeAssumption
  <2>7. g + 1 \in Nat
    OBVIOUS
  <2> QED BY <1>6, <2>6, <2>7
<1> HIDE DEF N, s, n, f, q
<1>9. k <= s * q + (s * (s - 1)) \div 2 + faults
  BY <1>2, <1>3, <1>5, <1>7, <1>8, BalanceBound
<1>10. missed[a] <= k + e /\ e + 1 <= s
  <2>1. missed[a] <= k + e /\ e + Cardinality(Late(tick, a, th)) + 1 <= s
    BY <1>0 DEF Accounts, Excused, s
  <2>2. Cardinality(Late(tick, a, th)) \in Nat
    BY LateCount
  <2> QED BY <1>2, <2>1, <2>2
<1>11. s * q \in Nat /\ (s * (s - 1)) \div 2 \in Nat
  <2>1. s * q \in Nat /\ s * (s - 1) \in Nat
    BY <1>2, <1>7, ProductMonotone, PairsMonotone
  <2> DEFINE p == s * (s - 1)
  <2>2. p \in Nat
    BY <2>1
  <2> HIDE DEF p
  <2>3. p \div 2 \in Nat
    BY <2>2
  <2> QED BY <2>1, <2>3 DEF p
<1> DEFINE x == s * q
           y == (s * (s - 1)) \div 2
<1>12. x \in Nat /\ y \in Nat /\ k <= x + y + faults
  BY <1>9, <1>11
<1> HIDE DEF x, y
<1>13. missed[a] <= x + y + (s - 1) + faults
  BY <1>2, <1>3, <1>10, <1>12
<1> QED BY <1>13 DEF Rotation, s, q, N, x, y

(* A waiting candidate is left out of at most Rotation batches of ticks    *)
(* that began while it waited, plus one for each tick that failed, for any *)
(* finite backlog, any number of overlapping sweepers, however late their  *)
(* queries answer, and any batch size                                      *)
(* (QuarantineReleaseSweepHandler::run, mark_attempted and the order of    *)
(* select_expired).                                                        *)
THEOREM RotationBounded == RotationSpec => []RotationBound
BY SweepStarts, SweepStep, SweepBound, PTL DEF RotationSpec

=============================================================================
