--------------------------- MODULE PostReviewProofs ---------------------------
(***************************************************************************)
(* Proofs about PostReview for all lists, batch sizes and numbers of late    *)
(* writes, and of its refinement of Publication.  The argument: as long as   *)
(* no run has read the list with a write still due, what is on the PR are    *)
(* the comments at some set S of positions, each once; the batches the       *)
(* server still has to write, and those not yet submitted, are disjoint from *)
(* S and from each other (ServerInv).  And as long as no run has cut the list *)
(* across a batch the server has still to write, a batch of the run is on    *)
(* the PR as a whole or not at all, so that one comment seen stands for all  *)
(* (WholeInv), late writes and other values of --per-review included.        *)
(***************************************************************************)
EXTENDS PostReview, FiniteSetTheorems, WellFoundedInduction, TLAPS

Unsent == {groups[j] : j \in (IF pc = "confirm" THEN 2 ELSE 1) .. Len(groups)}

\* What the server has is at S; what it has still to write is elsewhere.
Stored(S) ==
    /\ \A k \in Keys : inline[k] = Count(S, k)
    /\ \A l \in late : l[2] \cap S = {}
    /\ \A l, m \in late : l # m => l[2] \cap m[2] = {}

\* So is what has not been submitted; the batch in question is at S as a whole or not
\* at all.
Accounted(S) ==
    /\ Stored(S)
    /\ pc \in {"post", "confirm"} =>
         \A b \in Unsent : b \cap S = {} /\ \A l \in late : b \cap l[2] = {}
    /\ pc = "confirm" =>
         /\ Head(groups) \subseteq S \/ Head(groups) \cap S = {}
         /\ \A l \in late : l[2] = Head(groups) \/ l[2] \cap Head(groups) = {}

ServerInv == ~raced => \E S \in SUBSET Positions : Accounted(S)

\* The batches of a run are disjoint, of one file each, and within the limit.
BatchInv ==
    pc \in {"post", "confirm"} =>
        /\ groups # <<>>
        /\ \A i \in 1 .. Len(groups) :
             /\ Cardinality(groups[i]) \in 1 .. cap
             /\ \A j, k \in groups[i] : comments[j].path = comments[k].path
        /\ \A i, j \in 1 .. Len(groups) : i # j => groups[i] \cap groups[j] = {}

\* A batch of the run is on the PR as a whole or not at all, and a review the server has
\* still to write brings all of it or none.
Seen(b, V) == \A i \in b : comments[i] \in V
Unseen(b, V) == \A i \in b : comments[i] \notin V
WholeInv ==
    pc \in {"post", "confirm"} /\ Distinct /\ ~recut =>
        \A i \in 1 .. Len(groups) :
            /\ Seen(groups[i], Visible) \/ Unseen(groups[i], Visible)
            /\ \A x \in late : groups[i] \cap x[2] = {} \/ groups[i] \subseteq x[2]

After == {"issue_get", "issue_post", "issue_confirm", "ok"}

\* Nothing is dropped on the way.
KeepsInv ==
    /\ pc \in {"get", "ok"} => ~errors
    /\ pc \in {"post", "confirm"} /\ Distinct /\ ~recut /\ ~errors =>
         Wanted \subseteq Visible \cup Pending
    /\ pc \in After /\ Distinct /\ ~recut /\ ~errors => Wanted \subseteq Visible

\* The issue comment.
IssueInv ==
    /\ pc \in {"issue_get", "issue_post", "issue_confirm"} => orphans
    /\ ~orphans => issue = 0 /\ lateIssue = 0
    /\ ~raced => issue + lateIssue <= 1
    /\ ~raced /\ pc = "issue_post" => issue = 0 /\ lateIssue = 0
    /\ pc = "ok" /\ orphans => issue > 0

\* Only a run that reads the list with a review due can cut across it.
RecutInv == recut => raced

IndInv == TypeOK /\ ServerInv /\ BatchInv /\ WholeInv /\ KeepsInv /\ IssueInv /\ RecutInv

-----------------------------------------------------------------------------
(* Order: the least position, and the place of an element in an order *)

\* A finite set of numbers has a least one.
LEMMA Least ==
    ASSUME NEW S \in SUBSET Nat, IsFiniteSet(S), S # {}
    PROVE  Min(S) \in S /\ \A y \in S : Min(S) <= y
<1> DEFINE down(x) == {y \in S : y <= x}
           T == {down(x) : x \in S}
           R == StrictSubsetOrdering(S)
<1>1. IsWellFoundedOn(R, FiniteSubsetsOf(S))
  BY FS_StrictSubsetOrderingWellFounded
<1>2. T \subseteq FiniteSubsetsOf(S) /\ T # {}
  <2>1. \A x \in S : down(x) \in SUBSET S /\ IsFiniteSet(down(x))
    BY FS_Subset
  <2>2. QED
    BY <2>1 DEF FiniteSubsetsOf
<1>3. \E t \in T : \A u \in T : ~(<<u, t>> \in R)
  <2> HIDE DEF T, R
  <2> QED  BY <1>1, <1>2, WFMin
<1>4. PICK x \in S : \A y \in S : ~(<<down(y), down(x)>> \in R)
  BY <1>3
<1>5. ASSUME NEW y \in S
      PROVE  x <= y
  <2>1. CASE y < x
    <3>1. down(y) \subseteq down(x) /\ x \in down(x) /\ x \notin down(y)
      <4>1. x \in Nat /\ y \in Nat /\ \A z \in S : z \in Nat
        OBVIOUS
      <4>2. \A z \in S : z <= y => z <= x
        BY <2>1, <4>1
      <4>3. x <= x /\ ~(x <= y)
        BY <2>1, <4>1
      <4>4. QED
        BY <4>2, <4>3
    <3>2. down(y) \in SUBSET S /\ down(x) \in SUBSET S /\ down(y) # down(x)
      BY <3>1
    <3>3. <<down(y), down(x)>> \in R
      <4> HIDE DEF down
      <4> QED  BY <3>1, <3>2 DEF StrictSubsetOrdering
    <3>4. QED
      BY <1>4, <3>3
  <2>2. QED
    BY <2>1
<1>6. QED
  BY <1>5 DEF Min

StrictOrder(R, S) ==
    /\ \A x \in S : <<x, x>> \notin R
    /\ \A x, y, z \in S : <<x, y>> \in R /\ <<y, z>> \in R => <<x, z>> \in R
    /\ \A x, y \in S : x # y => <<x, y>> \in R \/ <<y, x>> \in R

RankIn(S, R, x) == Cardinality({y \in S : <<y, x>> \in R})

\* In a strict order the number of elements before one tells it from the others and
\* takes every value.
LEMMA Ranks ==
    ASSUME NEW S, IsFiniteSet(S), NEW R, StrictOrder(R, S)
    PROVE  /\ \A x \in S : RankIn(S, R, x) \in 0 .. Cardinality(S) - 1
           /\ \A x, y \in S : RankIn(S, R, x) = RankIn(S, R, y) => x = y
           /\ \A k \in 0 .. Cardinality(S) - 1 : \E x \in S : RankIn(S, R, x) = k
<1> DEFINE under(x) == {y \in S : <<y, x>> \in R}
           N == Cardinality(S)
           f == [x \in S |-> RankIn(S, R, x)]
<1>1. N \in Nat
  BY FS_CardinalityType
<1>2. \A x \in S : under(x) \in SUBSET S /\ IsFiniteSet(under(x)) /\ RankIn(S, R, x) \in Nat
  <2> TAKE x \in S
  <2>1. under(x) \in SUBSET S
    OBVIOUS
  <2>2. IsFiniteSet(under(x))
    <3> HIDE DEF under
    <3> QED  BY <2>1, FS_Subset
  <2>3. QED
    BY <2>1, <2>2, FS_CardinalityType DEF RankIn
<1>3. ASSUME NEW x \in S
      PROVE  RankIn(S, R, x) <= N - 1
  <2>1. under(x) \in SUBSET (S \ {x})
    BY DEF StrictOrder
  <2>2. IsFiniteSet(S \ {x}) /\ Cardinality(S \ {x}) = N - 1
    BY FS_RemoveElement
  <2>3. Cardinality(under(x)) <= N - 1
    <3> HIDE DEF under
    <3> QED  BY <2>1, <2>2, FS_Subset
  <2>4. QED
    BY <2>3 DEF RankIn
<1>4. ASSUME NEW x \in S, NEW y \in S, <<x, y>> \in R
      PROVE  RankIn(S, R, x) < RankIn(S, R, y)
  <2>1. under(x) \in SUBSET under(y) /\ under(x) # under(y)
    <3>1. under(x) \in SUBSET under(y)
      BY <1>4 DEF StrictOrder
    <3>2. x \in under(y) /\ x \notin under(x)
      BY <1>4 DEF StrictOrder
    <3>3. QED
      BY <3>1, <3>2
  <2>2. /\ Cardinality(under(x)) <= Cardinality(under(y))
        /\ Cardinality(under(x)) # Cardinality(under(y))
    <3> HIDE DEF under
    <3> QED  BY <1>2, <2>1, FS_Subset
  <2>3. QED
    BY <1>2, <2>2 DEF RankIn
<1>0. \A x \in S : RankIn(S, R, x) \in Nat
  BY <1>2
<1>5. \A x, y \in S : RankIn(S, R, x) = RankIn(S, R, y) => x = y
  <2> TAKE x, y \in S
  <2>1. CASE x # y /\ <<x, y>> \in R
    BY ONLY <1>0, <1>4, <2>1, x \in S, y \in S
  <2>2. CASE x # y /\ <<y, x>> \in R
    BY ONLY <1>0, <1>4, <2>2, x \in S, y \in S
  <2>3. QED
    BY <2>1, <2>2 DEF StrictOrder
<1>6. \A x \in S : RankIn(S, R, x) \in 0 .. N - 1
  <2> HIDE DEF N
  <2> QED  BY ONLY <1>0, <1>1, <1>3
<1>7. f \in Injection(S, 0 .. N - 1)
  BY <1>5, <1>6 DEF Injection, IsInjective
<1>8. IsFiniteSet(0 .. N - 1) /\ Cardinality(0 .. N - 1) = N
  BY <1>1, FS_Interval
<1>9. f \in Surjection(S, 0 .. N - 1)
  <2> HIDE DEF f
  <2> QED  BY <1>7, <1>8, FS_Injection
<1>10. QED
  BY <1>5, <1>6, <1>9 DEF Surjection

-----------------------------------------------------------------------------
(* batches_by_file *)

\* G submits each position of T in one batch, at most n of one file to a batch.
Batched(T, n, G) ==
    /\ G \in Seq(SUBSET T)
    /\ \A i \in 1 .. Len(G) :
         /\ Cardinality(G[i]) \in 1 .. n
         /\ \A j, k \in G[i] : comments[j].path = comments[k].path
    /\ \A i, j \in 1 .. Len(G) : i # j => G[i] \cap G[j] = {}
    /\ \A t \in T : \E i \in 1 .. Len(G) : t \in G[i]

\* Positions are finitely many numbers.
LEMMA PositionsFinite ==
    ASSUME comments \in Seq(Keys), NEW T \in SUBSET Positions
    PROVE  T \in SUBSET Nat /\ IsFiniteSet(T) /\ IsFiniteSet(Positions)
<1>1. Positions = 1 .. Len(comments) /\ Len(comments) \in Nat
  BY DEF Positions
<1>2. IsFiniteSet(Positions)
  BY <1>1, FS_Interval
<1>3. IsFiniteSet(T)
  BY <1>2, FS_Subset
<1>4. T \in SUBSET Nat
  BY <1>1
<1>5. QED
  BY <1>2, <1>3, <1>4

\* The comments of a file have different places.
LEMMA Places ==
    ASSUME comments \in Seq(Keys), NEW T \in SUBSET Positions, NEW i \in T
    PROVE  /\ File(T, i) \in SUBSET T /\ i \in File(T, i)
           /\ \A j \in File(T, i) : File(T, j) = File(T, i) /\ Place(T, j) \in Nat
           /\ \A j, k \in File(T, i) : Place(T, j) = Place(T, k) => j = k
<1> DEFINE F == File(T, i)
           R == {p \in F \X F : p[1] < p[2]}
<1>1. T \in SUBSET Nat /\ IsFiniteSet(T)
  BY PositionsFinite
<1>2. F \in SUBSET T /\ i \in F /\ \A j \in F : File(T, j) = F
  BY DEF File
<1>3. F \in SUBSET Nat /\ IsFiniteSet(F)
  <2> HIDE DEF F
  <2> QED  BY <1>1, <1>2, FS_Subset
<1>4. \A j, k \in F : <<j, k>> \in R <=> j < k
  OBVIOUS
<1>5. StrictOrder(R, F)
  <2> HIDE DEF F, R
  <2> QED  BY <1>3, <1>4 DEF StrictOrder
<1>6. \A j \in F : Place(T, j) = RankIn(F, R, j)
  <2> TAKE j \in F
  <2>1. {k \in File(T, j) : k < j} = {k \in F : <<k, j>> \in R}
    BY <1>2, <1>4
  <2>2. QED
    BY <2>1 DEF Place, RankIn
<1>7. /\ \A x \in F : RankIn(F, R, x) \in 0 .. Cardinality(F) - 1
      /\ \A x, y \in F : RankIn(F, R, x) = RankIn(F, R, y) => x = y
  <2> HIDE DEF F, R
  <2> QED  BY <1>3, <1>5, Ranks
<1>8. Cardinality(F) \in Nat
  <2> HIDE DEF F
  <2> QED  BY <1>3, FS_CardinalityType
<1>9. \A x \in F : RankIn(F, R, x) \in Nat
  <2> HIDE DEF F, R
  <2> QED  BY <1>7, <1>8
<1>10. QED
  BY <1>2, <1>6, <1>7, <1>9

\* A number is in the interval of n numbers its quotient names.
LEMMA Quotient ==
    ASSUME NEW x \in Nat, NEW n \in Nat \ {0}
    PROVE  /\ x \div n \in Nat
           /\ (x \div n) * n \in Nat
           /\ (x \div n) * n <= x /\ x <= (x \div n) * n + n - 1
  OBVIOUS

\* A slice has at most n comments, of one file, and its members have the same slice.
LEMMA SliceFacts ==
    ASSUME comments \in Seq(Keys), NEW T \in SUBSET Positions, NEW n \in Nat \ {0}, NEW i \in T
    PROVE  /\ Slice(T, n, i) \in SUBSET T /\ i \in Slice(T, n, i)
           /\ Cardinality(Slice(T, n, i)) \in 1 .. n
           /\ \A j \in Slice(T, n, i) : Slice(T, n, j) = Slice(T, n, i)
           /\ \A j \in Slice(T, n, i) : File(T, j) = File(T, i)
<1> DEFINE F == File(T, i)
           B == Slice(T, n, i)
           q == Place(T, i) \div n
           I == q * n .. q * n + n - 1
           f == [j \in B |-> Place(T, j)]
<1>1. /\ F \in SUBSET T /\ i \in F
      /\ \A j \in F : File(T, j) = F /\ Place(T, j) \in Nat
      /\ \A j, k \in F : Place(T, j) = Place(T, k) => j = k
  BY Places
<1>2. B \in SUBSET F /\ i \in B /\ \A j \in B : Place(T, j) \div n = q
  BY <1>1 DEF Slice
<1>3. q \in Nat /\ q * n \in Nat
  BY <1>1, Quotient
<1>4. \A j \in B : Place(T, j) \in I
  <2> TAKE j \in B
  <2>1. Place(T, j) \in Nat /\ Place(T, j) \div n = q
    BY <1>1, <1>2
  <2>2. q * n <= Place(T, j) /\ Place(T, j) <= q * n + n - 1
    <3> HIDE DEF q
    <3> QED  BY <2>1, Quotient
  <2> HIDE DEF q
  <2> DEFINE m == q * n
  <2>3. m \in Nat /\ m <= Place(T, j) /\ Place(T, j) <= m + n - 1
    BY <1>3, <2>2
  <2> HIDE DEF m
  <2>4. Place(T, j) \in m .. m + n - 1
    BY <2>1, <2>3
  <2>5. QED
    BY <2>4 DEF m
<1>5. IsFiniteSet(I) /\ Cardinality(I) = n
  <2> DEFINE m == q * n
  <2>1. m \in Nat
    BY <1>3
  <2> HIDE DEF m
  <2>2. IsFiniteSet(m .. m + n - 1) /\ Cardinality(m .. m + n - 1) = n
    BY <2>1, FS_Interval
  <2>3. QED
    BY <2>2 DEF m
<1> HIDE DEF I
<1>6. f \in Injection(B, I)
  BY <1>1, <1>2, <1>4 DEF Injection, IsInjective
<1>7. IsFiniteSet(B) /\ Cardinality(B) <= n
  <2> HIDE DEF f, B
  <2> QED  BY <1>5, <1>6, FS_Injection
<1>8. Cardinality(B) \in Nat /\ Cardinality(B) # 0
  <2> HIDE DEF B
  <2> QED  BY <1>2, <1>7, FS_CardinalityType, FS_EmptySet
<1>9. \A j \in B : Slice(T, n, j) = B /\ File(T, j) = F
  <2> TAKE j \in B
  <2>1. File(T, j) = F /\ Place(T, j) \div n = q
    BY <1>1, <1>2
  <2>2. QED
    BY <2>1 DEF Slice
<1>10. QED
  BY <1>1, <1>2, <1>7, <1>8, <1>9

\* The slices of a list are disjoint.
LEMMA SlicesDisjoint ==
    ASSUME comments \in Seq(Keys), NEW T \in SUBSET Positions, NEW n \in Nat \ {0},
           NEW b \in Slices(T, n), NEW c \in Slices(T, n), NEW x \in b, x \in c
    PROVE  b = c
<1>1. PICK i \in T : b = Slice(T, n, i)
  BY DEF Slices
<1>2. PICK j \in T : c = Slice(T, n, j)
  BY DEF Slices
<1>3. Slice(T, n, x) = b
  BY <1>1, SliceFacts
<1>4. Slice(T, n, x) = c
  BY <1>2, SliceFacts
<1>5. QED
  BY <1>3, <1>4

\* The slices of a list are in a strict order.
LEMMA SlicesOrdered ==
    ASSUME comments \in Seq(Keys), NEW T \in SUBSET Positions, NEW n \in Nat \ {0}
    PROVE  LET P == Slices(T, n)
           IN  StrictOrder({p \in P \X P : Before(T, p[1], p[2])}, P) /\ IsFiniteSet(P)
<1> DEFINE P == Slices(T, n)
           R == {p \in P \X P : Before(T, p[1], p[2])}
<1>1. T \in SUBSET Nat /\ IsFiniteSet(T)
  BY PositionsFinite
<1>2. P \in SUBSET SUBSET T /\ \A b \in P : b # {}
  BY SliceFacts DEF Slices
<1>3. IsFiniteSet(P)
  BY <1>1, <1>2, FS_SUBSET, FS_Subset
<1>4. \A b \in P : Min(b) \in b /\ Min(b) \in Nat /\ First(T, b) \in Nat
  <2> TAKE b \in P
  <2>1. b \in SUBSET Nat /\ IsFiniteSet(b) /\ b # {} /\ b \in SUBSET T
    <3>1. b \in SUBSET T /\ b # {}
      BY <1>2
    <3>2. QED
      BY <1>1, <3>1, FS_Subset
  <2>2. Min(b) \in b
    BY <2>1, Least
  <2>3. Min(b) \in T
    BY <2>1, <2>2
  <2> DEFINE F == File(T, Min(b))
  <2>4. F \in SUBSET T /\ Min(b) \in F
    BY <2>3, Places
  <2>5. F \in SUBSET Nat /\ IsFiniteSet(F) /\ F # {}
    <3> HIDE DEF F
    <3> QED  BY <1>1, <2>4, FS_Subset
  <2>6. Min(F) \in F
    <3> HIDE DEF F
    <3> QED  BY <2>5, Least
  <2>7. QED
    BY <2>1, <2>2, <2>5, <2>6 DEF First
<1>5. \A b, c \in P : Min(b) = Min(c) => b = c
  BY <1>4, SlicesDisjoint
<1>6. \A b, c \in P : <<b, c>> \in R <=> Before(T, b, c)
  OBVIOUS
<1> HIDE DEF P, R
<1>7. \A b \in P : ~Before(T, b, b)
  BY <1>4 DEF Before
<1>8. \A b, c, d \in P : Before(T, b, c) /\ Before(T, c, d) => Before(T, b, d)
  BY <1>4 DEF Before
<1>9. \A b, c \in P : b # c => Before(T, b, c) \/ Before(T, c, b)
  BY <1>4, <1>5 DEF Before
<1>10. StrictOrder(R, P)
  BY <1>6, <1>7, <1>8, <1>9 DEF StrictOrder
<1>11. QED
  BY <1>3, <1>10 DEF P, R

\* batches_by_file loses nothing, repeats nothing and keeps the limit.
LEMMA Batches ==
    ASSUME comments \in Seq(Keys), NEW T \in SUBSET Positions, NEW n \in Nat \ {0}
    PROVE  Batched(T, n, BatchesByFile(T, n))
<1> DEFINE P == Slices(T, n)
           R == {p \in P \X P : Before(T, p[1], p[2])}
           N == Cardinality(P)
           G == BatchesByFile(T, n)
<1>1. StrictOrder(R, P) /\ IsFiniteSet(P)
  BY SlicesOrdered
<1>2. /\ \A b, c \in P : RankIn(P, R, b) = RankIn(P, R, c) => b = c
      /\ \A k \in 0 .. N - 1 : \E b \in P : RankIn(P, R, b) = k
      /\ \A b \in P : RankIn(P, R, b) \in 0 .. N - 1
  <2> HIDE DEF P, R
  <2> QED  BY <1>1, Ranks
<1>3. N \in Nat
  <2> HIDE DEF P
  <2> QED  BY <1>1, FS_CardinalityType
<1>4. \A b \in P : Cardinality({c \in P : Before(T, c, b)}) = RankIn(P, R, b)
  <2> TAKE b \in P
  <2>1. {c \in P : Before(T, c, b)} = {c \in P : <<c, b>> \in R}
    OBVIOUS
  <2>2. QED
    BY <2>1 DEF RankIn
<1>5. G = [k \in 1 .. N |-> CHOOSE b \in P : Cardinality({c \in P : Before(T, c, b)}) = k - 1]
  BY DEF BatchesByFile, InOrder
<1> HIDE DEF P, R, N, G
<1>6. \A k \in 1 .. N : G[k] \in P /\ RankIn(P, R, G[k]) = k - 1
  <2> TAKE k \in 1 .. N
  <2>1. k - 1 \in 0 .. N - 1
    BY <1>3
  <2>2. \E b \in P : Cardinality({c \in P : Before(T, c, b)}) = k - 1
    BY <1>2, <1>4, <2>1
  <2>3. G[k] \in P /\ Cardinality({c \in P : Before(T, c, G[k])}) = k - 1
    BY <1>5, <2>2
  <2>4. QED
    BY <1>4, <2>3
<1>7. \A b \in P : b \in SUBSET T /\ Cardinality(b) \in 1 .. n
  BY SliceFacts DEF P, Slices
<1>8. \A b \in P : \A j, k \in b : comments[j].path = comments[k].path
  <2> TAKE b \in P
  <2>1. PICK i \in T : b = Slice(T, n, i)
    BY DEF P, Slices
  <2>2. QED
    BY <2>1 DEF Slice, File
<1>9. DOMAIN G = 1 .. N /\ Len(G) = N /\ G \in Seq(SUBSET T)
  <2>1. G \in [1 .. N -> SUBSET T]
    <3>1. \A k \in 1 .. N : G[k] \in SUBSET T
      BY <1>6, <1>7
    <3>2. QED
      BY <1>5, <3>1
  <2>2. QED
    BY <1>3, <2>1
<1>10. \A k \in 1 .. N : /\ Cardinality(G[k]) \in 1 .. n
                         /\ \A i, j \in G[k] : comments[i].path = comments[j].path
  BY <1>6, <1>7, <1>8
<1>11. \A k, m \in 1 .. N : k # m => G[k] \cap G[m] = {}
  <2>1. SUFFICES ASSUME NEW k \in 1 .. N, NEW m \in 1 .. N, NEW x \in G[k], x \in G[m]
                 PROVE  k = m
    OBVIOUS
  <2>2. G[k] \in P /\ G[m] \in P
    BY <1>6
  <2>3. G[k] = G[m]
    BY <2>1, <2>2, SlicesDisjoint DEF P
  <2>4. k - 1 = m - 1
    BY <1>6, <2>3
  <2>5. QED
    BY <2>4
<1>12. \A t \in T : \E k \in 1 .. N : t \in G[k]
  <2> TAKE t \in T
  <2> DEFINE b == Slice(T, n, t)
  <2>1. b \in P /\ t \in b
    BY SliceFacts DEF P, Slices
  <2> HIDE DEF b
  <2>2. RankIn(P, R, b) + 1 \in 1 .. N /\ RankIn(P, R, b) \in Int
    BY <1>2, <1>3, <2>1
  <2> DEFINE k == RankIn(P, R, b) + 1
  <2>3. RankIn(P, R, G[k]) = RankIn(P, R, b) /\ G[k] \in P
    BY <1>6, <2>2
  <2>4. G[k] = b
    BY <1>2, <2>1, <2>3
  <2>5. QED
    BY <2>1, <2>2, <2>4
<1>13. QED
  BY <1>9, <1>10, <1>11, <1>12 DEF Batched, G

-----------------------------------------------------------------------------
(* Counting the comments at a set of positions *)

LEMMA CountType ==
    ASSUME comments \in Seq(Keys), NEW S \in SUBSET Positions, NEW k
    PROVE  Count(S, k) \in Nat /\ Count(S, k) <= Count(Positions, k)
<1> DEFINE A == {i \in S : comments[i] = k}
           B == {i \in Positions : comments[i] = k}
<1>1. IsFiniteSet(Positions) /\ B \in SUBSET Positions /\ A \in SUBSET B
  BY PositionsFinite
<1> HIDE DEF A, B
<1>2. IsFiniteSet(B) /\ IsFiniteSet(A)
  BY <1>1, FS_Subset
<1>3. Cardinality(A) \in Nat /\ Cardinality(A) <= Cardinality(B)
  BY <1>1, <1>2, FS_Subset, FS_CardinalityType
<1>4. QED
  BY <1>3 DEF Count, A, B

\* A comment is there when one of its positions is.
LEMMA CountPositive ==
    ASSUME comments \in Seq(Keys), NEW S \in SUBSET Positions, NEW k
    PROVE  Count(S, k) > 0 <=> \E i \in S : comments[i] = k
<1> DEFINE A == {i \in S : comments[i] = k}
<1>1. IsFiniteSet(S) /\ A \in SUBSET S
  BY PositionsFinite
<1>2. A # {} <=> \E i \in S : comments[i] = k
  OBVIOUS
<1> HIDE DEF A
<1>3. IsFiniteSet(A)
  BY <1>1, FS_Subset
<1>4. Cardinality(A) \in Nat /\ (Cardinality(A) = 0 <=> A = {})
  BY <1>3, FS_CardinalityType, FS_EmptySet
<1>5. Cardinality(A) > 0 <=> A # {}
  BY <1>4
<1>6. Count(S, k) = Cardinality(A)
  BY DEF Count, A
<1>7. QED
  BY <1>2, <1>5, <1>6

LEMMA CountUnion ==
    ASSUME comments \in Seq(Keys), NEW S \in SUBSET Positions, NEW b \in SUBSET Positions,
           b \cap S = {}, NEW k
    PROVE  Count(S \cup b, k) = Count(S, k) + Count(b, k)
<1> DEFINE A == {i \in S : comments[i] = k}
           B == {i \in b : comments[i] = k}
<1>1. IsFiniteSet(S) /\ A \in SUBSET S /\ IsFiniteSet(b) /\ B \in SUBSET b
  BY PositionsFinite
<1>2. A \cap B = {} /\ {i \in S \cup b : comments[i] = k} = A \cup B
  OBVIOUS
<1> HIDE DEF A, B
<1>3. IsFiniteSet(A) /\ IsFiniteSet(B)
  BY <1>1, FS_Subset
<1>4. Cardinality(A) \in Nat /\ Cardinality(B) \in Nat /\ Cardinality(A \cap B) = 0
  BY <1>2, <1>3, FS_CardinalityType, FS_EmptySet
<1>5. Cardinality(A \cup B) = Cardinality(A) + Cardinality(B)
  <2>1. Cardinality(A \cup B) = Cardinality(A) + Cardinality(B) - Cardinality(A \cap B)
    BY <1>3, FS_Union
  <2>2. QED
    BY <1>4, <2>1
<1>6. Count(S, k) = Cardinality(A) /\ Count(b, k) = Cardinality(B)
  BY DEF Count, A, B
<1>7. Count(S \cup b, k) = Cardinality(A \cup B)
  BY <1>2 DEF Count
<1>8. QED
  BY <1>5, <1>6, <1>7

-----------------------------------------------------------------------------
(* Types *)

LEMMA InputFacts ==
    ASSUME TypeOK
    PROVE  comments \in Seq(Keys) /\ cap \in Nat \ {0} /\ Positions = 1 .. Len(comments)
           /\ \A i \in Positions : comments[i] \in Keys
<1>1. comments \in Seq(Keys)
  BY ListsAssumption DEF TypeOK
<1>2. QED
  BY <1>1, BoundsAssumption DEF TypeOK, Positions

\* What a run reads is batched.
LEMMA ReadBatches ==
    ASSUME TypeOK, ReadComments
    PROVE  LET T == {i \in Positions : comments[i] \notin Visible}
           IN  T \in SUBSET Positions /\ Batched(T, cap, groups') /\ groups' \in Seq(SUBSET Positions)
<1> DEFINE T == {i \in Positions : comments[i] \notin Visible}
<1>1. T \in SUBSET Positions /\ groups' = BatchesByFile(T, cap)
  BY DEF ReadComments
<1> HIDE DEF T
<1>2. Batched(T, cap, groups')
  BY <1>1, InputFacts, Batches
<1>3. groups' \in Seq(SUBSET Positions)
  BY <1>1, <1>2 DEF Batched
<1>4. QED
  BY <1>1, <1>2, <1>3 DEF T

LEMMA CreatedFacts ==
    ASSUME TypeOK, NEW b \in SUBSET Positions
    PROVE  /\ Created(b) \in [Keys -> Nat]
           /\ \A k \in Keys : Created(b)[k] = inline[k] + Count(b, k)
           /\ \A k \in Keys : Count(b, k) \in Nat /\ inline[k] <= Created(b)[k]
<1>1. \A k \in Keys : Count(b, k) \in Nat
  BY InputFacts, CountType
<1>2. \A k \in Keys : inline[k] \in Nat
  BY DEF TypeOK
<1>3. QED
  BY <1>1, <1>2 DEF Created

\* The batches after the current one.
LEMMA TailFacts ==
    ASSUME NEW U, NEW s \in Seq(U), s # <<>>
    PROVE  /\ Len(s) \in Nat \ {0} /\ Head(s) = s[1] /\ Head(s) \in U
           /\ Tail(s) \in Seq(U) /\ Len(Tail(s)) = Len(s) - 1
           /\ \A i \in 1 .. Len(s) - 1 : Tail(s)[i] = s[i + 1]
  OBVIOUS

LEMMA InitType == Init => TypeOK
<1> SUFFICES ASSUME Init
             PROVE  TypeOK
  OBVIOUS
<1>1. groups \in Seq(SUBSET Positions)
  BY DEF Init
<1>2. tries \in 0 .. (CONFIRM_TRIES - 1) /\ lates \in 0 .. MaxLate
  BY BoundsAssumption DEF Init
<1>3. QED
  BY <1>1, <1>2 DEF Init, TypeOK, Exits

LEMMA StepType ==
    ASSUME TypeOK, BatchInv, [Next]_vars
    PROVE  TypeOK'
<1> USE DEF Exits, Steps, server
<1>1. comments' = comments => Positions' = Positions
  BY DEF Positions
<1>2. \A b \in SUBSET Positions : Created(b) \in [Keys -> Nat]
  BY CreatedFacts
<1>3. pc \in {"post", "confirm"} => Head(groups) \in SUBSET Positions /\ Tail(groups) \in Seq(SUBSET Positions)
  BY TailFacts DEF TypeOK, BatchInv
<1>4. 0 \in 0 .. (CONFIRM_TRIES - 1) /\ (tries + 1 < CONFIRM_TRIES => tries + 1 \in 0 .. (CONFIRM_TRIES - 1))
  BY BoundsAssumption DEF TypeOK
<1>5. lates < MaxLate => lates + 1 \in 0 .. MaxLate /\ lates + 1 \in 1 .. MaxLate
  BY BoundsAssumption DEF TypeOK
<1>6. CASE Run
  <2>1. groups' \in Seq(SUBSET Positions)
    BY <1>6 DEF Run
  <2>2. QED
    BY <1>1, <1>4, <1>6, <2>1 DEF TypeOK, Run, AfterInline
<1>7. CASE ReadComments
  <2>1. groups' \in Seq(SUBSET Positions)
    BY <1>7, ReadBatches
  <2>2. QED
    BY <1>1, <1>7, <2>1 DEF TypeOK, ReadComments, AfterInline
<1>8. CASE ReadFails
  BY <1>1, <1>8 DEF TypeOK, ReadFails
<1>9. CASE PostCreated
  BY <1>1, <1>2, <1>3, <1>4, <1>9 DEF TypeOK, PostCreated, NextBatch, AfterInline
<1>10. CASE PostRejected
  BY <1>1, <1>3, <1>4, <1>10 DEF TypeOK, PostRejected, NextBatch, AfterInline
<1>11. CASE PostUnknown
  <2>1. inline' \in [Keys -> Nat] /\ lates' \in 0 .. MaxLate
    BY <1>2, <1>3, <1>5, <1>11 DEF TypeOK, PostUnknown
  <2>2. late' \subseteq (1 .. MaxLate) \X SUBSET Positions
    BY <1>3, <1>5, <1>11 DEF TypeOK, PostUnknown
  <2>3. QED
    BY <1>1, <1>4, <1>11, <2>1, <2>2 DEF TypeOK, PostUnknown
<1>12. CASE ConfirmSeen
  BY <1>1, <1>3, <1>4, <1>12 DEF TypeOK, ConfirmSeen, NextBatch, AfterInline
<1>13. CASE ConfirmNotSeen
  BY <1>1, <1>4, <1>13 DEF TypeOK, ConfirmNotSeen
<1>14. CASE ReadIssue
  BY <1>1, <1>14 DEF TypeOK, ReadIssue, IssueDone
<1>15. CASE ReadIssueFails
  BY <1>1, <1>15 DEF TypeOK, ReadIssueFails, IssueDone
<1>16. CASE PostIssue
  BY <1>1, <1>4, <1>5, <1>16 DEF TypeOK, PostIssue, IssueDone
<1>17. CASE ConfirmIssue
  BY <1>1, <1>4, <1>17 DEF TypeOK, ConfirmIssue, IssueDone
<1>18. CASE LateWrite
  <2>1. inline' \in [Keys -> Nat] /\ issue' \in Nat /\ lateIssue' \in Nat
    <3>1. \A review \in late : review[2] \in SUBSET Positions
      BY DEF TypeOK
    <3>2. QED
      BY <1>2, <1>18, <3>1 DEF TypeOK, LateWrite
  <2>2. late' \subseteq late
    BY <1>18 DEF LateWrite
  <2>3. QED
    BY <1>1, <1>18, <2>1, <2>2 DEF TypeOK, LateWrite
<1>19. CASE Interrupt
  BY <1>1, <1>19 DEF TypeOK, Interrupt
<1>20. CASE UNCHANGED vars
  BY <1>1, <1>20 DEF TypeOK, vars
<1>21. QED
  BY <1>6, <1>7, <1>8, <1>9, <1>10, <1>11, <1>12, <1>13, <1>14, <1>15, <1>16, <1>17, <1>18,
     <1>19, <1>20 DEF Next, Program, Done

-----------------------------------------------------------------------------
(* The batches of a run *)

LEMMA NextBatchInv ==
    ASSUME TypeOK, BatchInv, pc \in {"post", "confirm"}, NEW failed, NextBatch(failed),
           comments' = comments, cap' = cap, pc' \in {"post", "confirm"}
    PROVE  BatchInv'
<1>1. Len(groups) > 1 /\ groups' = Tail(groups) /\ groups # <<>> /\ groups \in Seq(SUBSET Positions)
  BY DEF NextBatch, AfterInline, BatchInv, TypeOK
<1>2. /\ Len(groups) \in Nat /\ groups' \in Seq(SUBSET Positions) /\ Len(groups') = Len(groups) - 1
      /\ \A i \in 1 .. Len(groups') : groups'[i] = groups[i + 1] /\ i + 1 \in 1 .. Len(groups)
  BY <1>1, TailFacts
<1>3. groups' # <<>>
  BY <1>1, <1>2
<1>4. \A i, j \in 1 .. Len(groups') : i # j => i + 1 # j + 1
  OBVIOUS
<1>5. \A i \in 1 .. Len(groups) : /\ Cardinality(groups[i]) \in 1 .. cap
                                  /\ \A j, k \in groups[i] : comments[j].path = comments[k].path
  BY DEF BatchInv
<1>6. \A i, j \in 1 .. Len(groups) : i # j => groups[i] \cap groups[j] = {}
  BY DEF BatchInv
<1>7. \A i \in 1 .. Len(groups') : /\ Cardinality(groups'[i]) \in 1 .. cap
                                   /\ \A j, k \in groups'[i] : comments[j].path = comments[k].path
  <2> TAKE i \in 1 .. Len(groups')
  <2>1. groups'[i] = groups[i + 1] /\ i + 1 \in 1 .. Len(groups)
    BY <1>2
  <2>2. QED
    BY ONLY <1>5, <2>1
<1>8. \A i, j \in 1 .. Len(groups') : i # j => groups'[i] \cap groups'[j] = {}
  BY ONLY <1>2, <1>4, <1>6
<1>9. QED
  BY <1>3, <1>7, <1>8 DEF BatchInv

LEMMA StepBatch ==
    ASSUME TypeOK, BatchInv, [Next]_vars
    PROVE  BatchInv'
<1> USE DEF Exits, Steps, server
<1>1. CASE UNCHANGED <<comments, cap, groups>> /\ (pc' = pc \/ pc = "post" \/ pc' \notin {"post", "confirm"})
  BY <1>1 DEF BatchInv
<1>2. CASE pc' \notin {"post", "confirm"}
  BY <1>2 DEF BatchInv
<1>3. CASE ReadComments
  <2>1. CASE pc' = "post"
    <3> DEFINE T == {i \in Positions : comments[i] \notin Visible}
    <3>1. groups' # <<>> /\ cap' = cap /\ comments' = comments
      BY <1>3, <2>1 DEF ReadComments, AfterInline
    <3>2. Batched(T, cap, groups')
      BY <1>3, ReadBatches
    <3> HIDE DEF T
    <3>3. QED
      BY <3>1, <3>2 DEF Batched, BatchInv
  <2>2. QED
    BY <1>2, <1>3, <2>1 DEF ReadComments, AfterInline
<1>4. CASE PostCreated
  BY <1>2, <1>4, NextBatchInv DEF PostCreated
<1>5. CASE PostRejected
  BY <1>2, <1>5, NextBatchInv DEF PostRejected
<1>6. CASE ConfirmSeen
  BY <1>2, <1>6, NextBatchInv DEF ConfirmSeen
<1>7. CASE Run
  BY <1>2, <1>7 DEF Run, AfterInline
<1>8. CASE PostUnknown \/ ConfirmNotSeen \/ LateWrite \/ ReadFails \/ Interrupt \/ UNCHANGED vars
  BY <1>1, <1>8 DEF PostUnknown, ConfirmNotSeen, LateWrite, ReadFails, Interrupt, vars
<1>9. CASE ReadIssue \/ ReadIssueFails \/ PostIssue \/ ConfirmIssue
  BY <1>2, <1>9 DEF ReadIssue, ReadIssueFails, PostIssue, ConfirmIssue, IssueDone
<1>10. QED
  BY <1>3, <1>4, <1>5, <1>6, <1>7, <1>8, <1>9 DEF Next, Program, Done

-----------------------------------------------------------------------------
(* The issue comment *)

LEMMA StepIssue ==
    ASSUME TypeOK, IssueInv, [Next]_vars
    PROVE  IssueInv'
<1> USE DEF Exits, Steps, server
<1>1. issue \in Nat /\ lateIssue \in Nat /\ raced \in BOOLEAN /\ orphans \in BOOLEAN
  BY DEF TypeOK
<1>2. CASE /\ UNCHANGED <<orphans, issue, lateIssue>>
           /\ raced => raced'
           /\ \/ pc' \in {"get", "post", "confirm", "failed", "stopped", pc}
              \/ pc' = "issue_get" /\ orphans
              \/ pc' = "ok" /\ ~orphans
  BY <1>1, <1>2 DEF IssueInv
<1>3. CASE Run
  BY <1>1, <1>2, <1>3 DEF Run, AfterInline
<1>4. CASE ReadComments
  BY <1>1, <1>2, <1>4 DEF ReadComments, AfterInline
<1>5. CASE PostCreated \/ PostRejected \/ ConfirmSeen
  BY <1>1, <1>2, <1>5 DEF PostCreated, PostRejected, ConfirmSeen, NextBatch, AfterInline
<1>6. CASE ReadFails \/ PostUnknown \/ ConfirmNotSeen \/ Interrupt \/ UNCHANGED vars
  BY <1>1, <1>2, <1>6 DEF ReadFails, PostUnknown, ConfirmNotSeen, Interrupt, vars
<1>7. CASE ReadIssue
  <2>1. UNCHANGED <<orphans, issue, lateIssue>> /\ orphans /\ (raced => raced')
    BY <1>7 DEF ReadIssue, IssueInv
  <2>2. CASE issue > 0
    BY <1>1, <1>7, <2>1, <2>2 DEF ReadIssue, IssueDone, IssueInv
  <2>3. CASE issue = 0
    <3>1. raced' \/ ~(issue = 0 /\ lateIssue > 0)
      BY <1>7, Zenon DEF ReadIssue
    <3>2. pc' = "issue_post"
      BY <1>7, <2>3 DEF ReadIssue
    <3>3. QED
      BY <1>1, <2>1, <2>3, <3>1, <3>2 DEF IssueInv
  <2>4. QED
    BY <1>1, <2>2, <2>3
<1>8. CASE ReadIssueFails
  BY <1>1, <1>2, <1>8 DEF ReadIssueFails, IssueDone
<1>9. CASE PostIssue
  BY <1>1, <1>9 DEF PostIssue, IssueDone, IssueInv
<1>10. CASE ConfirmIssue
  BY <1>1, <1>10 DEF ConfirmIssue, IssueDone, IssueInv
<1>11. CASE LateWrite
  BY <1>1, <1>11 DEF LateWrite, IssueInv
<1>12. QED
  BY <1>3, <1>4, <1>5, <1>6, <1>7, <1>8, <1>9, <1>10, <1>11 DEF Next, Program, Done

-----------------------------------------------------------------------------
(* What is on the PR *)

LEMMA UnsentNext ==
    ASSUME TypeOK, BatchInv, pc \in {"post", "confirm"}, groups' = Tail(groups), pc' = "post"
    PROVE  \A b \in Unsent' : b \in Unsent /\ b \cap Head(groups) = {}
<1>1. groups # <<>> /\ groups \in Seq(SUBSET Positions)
  BY DEF TypeOK, BatchInv
<1>2. /\ Len(groups) \in Nat \ {0} /\ Len(groups') = Len(groups) - 1 /\ Head(groups) = groups[1]
      /\ \A i \in 1 .. Len(groups) - 1 : groups'[i] = groups[i + 1]
  BY <1>1, TailFacts
<1>3. SUFFICES ASSUME NEW i \in 1 .. Len(groups')
               PROVE  groups'[i] \in Unsent /\ groups'[i] \cap Head(groups) = {}
  BY DEF Unsent
<1>4. i + 1 \in 2 .. Len(groups) /\ i + 1 \in 1 .. Len(groups) /\ i + 1 # 1
      /\ groups'[i] = groups[i + 1] /\ 1 \in 1 .. Len(groups)
  BY <1>2
<1>5. groups[i + 1] \in Unsent
  BY <1>4 DEF Unsent
<1>6. groups[i + 1] \cap groups[1] = {}
  BY <1>4 DEF BatchInv
<1>7. QED
  BY <1>2, <1>4, <1>5, <1>6

\* The batch about to be submitted has not been, and is not any of the later ones.
LEMMA UnsentHead ==
    ASSUME TypeOK, BatchInv, pc = "post"
    PROVE  /\ Head(groups) \in Unsent /\ Head(groups) \in SUBSET Positions
           /\ groups' = groups /\ pc' = "confirm" =>
                \A b \in Unsent' : b \in Unsent /\ b \cap Head(groups) = {}
<1>1. groups # <<>> /\ groups \in Seq(SUBSET Positions)
  BY DEF TypeOK, BatchInv
<1>2. Len(groups) \in Nat \ {0} /\ Head(groups) = groups[1] /\ Head(groups) \in SUBSET Positions
  BY <1>1, TailFacts
<1>3. 1 \in 1 .. Len(groups)
  BY <1>2
<1>4. groups[1] \in Unsent
  BY <1>3 DEF Unsent
<1>5. ASSUME groups' = groups, pc' = "confirm", NEW i \in 2 .. Len(groups)
      PROVE  groups[i] \in Unsent /\ groups[i] \cap groups[1] = {}
  <2>1. i \in 1 .. Len(groups) /\ i # 1
    BY <1>2
  <2>2. QED
    BY <1>3, <2>1 DEF Unsent, BatchInv
<1>6. ASSUME groups' = groups, pc' = "confirm"
      PROVE  Unsent' = {groups[i] : i \in 2 .. Len(groups)}
  BY <1>6 DEF Unsent
<1>7. QED
  BY <1>2, <1>4, <1>5, <1>6

\* A batch b is written: the server has it besides S.
LEMMA Written ==
    ASSUME TypeOK, NEW S \in SUBSET Positions, Stored(S), NEW b \in SUBSET Positions, b \cap S = {},
           inline' = Created(b), comments' = comments, late' \subseteq late,
           \A l \in late' : l[2] \cap b = {}
    PROVE  S \cup b \in SUBSET Positions /\ Stored(S \cup b)'
<1>1. \A k \in Keys : inline'[k] = Count(S \cup b, k)
  <2> TAKE k \in Keys
  <2>1. inline'[k] = inline[k] + Count(b, k)
    BY CreatedFacts
  <2>2. Count(S \cup b, k) = Count(S, k) + Count(b, k)
    BY InputFacts, CountUnion
  <2>3. QED
    BY <2>1, <2>2 DEF Stored
<1>2. \A k : Count(S \cup b, k)' = Count(S \cup b, k)
  BY DEF Count
<1>3. \A k \in Keys : inline'[k] = Count(S \cup b, k)'
  BY <1>1, <1>2
<1>4. \A l \in late' : l[2] \cap (S \cup b) = {}
  BY DEF Stored
<1>5. \A l, m \in late' : l # m => l[2] \cap m[2] = {}
  BY DEF Stored
<1>6. QED
  BY <1>3, <1>4, <1>5 DEF Stored

LEMMA StoredStays ==
    ASSUME NEW S, Stored(S), UNCHANGED <<comments, inline, late>>
    PROVE  Stored(S)'
<1>1. \A k : Count(S, k)' = Count(S, k)
  BY DEF Count
<1>2. QED
  BY <1>1 DEF Stored

\* Once a run has read the list too early, it has.
LEMMA RacedStays ==
    ASSUME TypeOK, [Next]_vars, ~raced'
    PROVE  /\ ~raced /\ comments' = comments /\ Positions' = Positions
           /\ ReadComments => late = {}
<1> USE DEF server
<1>1. ~raced
  BY Zenon DEF Next, Program, Run, ReadComments, ReadFails, PostCreated, PostRejected, PostUnknown,
     ConfirmSeen, ConfirmNotSeen, ReadIssue, ReadIssueFails, PostIssue, ConfirmIssue, LateWrite,
     Interrupt, Done, vars
<1>2. comments' = comments
  BY DEF Next, Program, Run, ReadComments, ReadFails, PostCreated, PostRejected, PostUnknown,
     ConfirmSeen, ConfirmNotSeen, ReadIssue, ReadIssueFails, PostIssue, ConfirmIssue, LateWrite,
     Interrupt, Done, vars
<1>3. ReadComments => late = {}
  BY Zenon DEF ReadComments
<1>4. QED
  BY <1>1, <1>2, <1>3 DEF Positions

LEMMA StepServer ==
    ASSUME TypeOK, BatchInv, ServerInv, [Next]_vars
    PROVE  ServerInv'
<1> USE DEF Exits, Steps, server
<1>1. SUFFICES ASSUME ~raced'
               PROVE  \E S \in SUBSET Positions : Accounted(S)'
  BY RacedStays DEF ServerInv
<1>2. ~raced /\ comments' = comments /\ Positions' = Positions
  BY <1>1, RacedStays
<1>3. PICK S \in SUBSET Positions : Accounted(S)
  BY <1>2 DEF ServerInv
<1>4. Stored(S)
  BY <1>3 DEF Accounted
<1>5. CASE UNCHANGED <<inline, late>> /\ pc' \notin {"post", "confirm"}
  <2>1. Stored(S)'
    BY <1>2, <1>4, <1>5, StoredStays
  <2>2. QED
    BY <1>5, <2>1 DEF Accounted
<1>6. CASE UNCHANGED <<inline, late, groups, pc>>
  <2>1. Stored(S)'
    BY <1>2, <1>4, <1>6, StoredStays
  <2>2. Unsent' = Unsent
    BY <1>6 DEF Unsent
  <2>3. QED
    BY <1>3, <1>6, <2>1, <2>2 DEF Accounted
<1>7. CASE UNCHANGED <<inline, late>> /\ groups' = Tail(groups) /\ pc \in {"post", "confirm"}
           /\ pc' = "post"
  <2>1. Stored(S)'
    BY <1>2, <1>4, <1>7, StoredStays
  <2>2. \A b \in Unsent' : b \in Unsent
    BY <1>7, UnsentNext
  <2>3. \A b \in Unsent' : b \cap S = {} /\ \A l \in late' : b \cap l[2] = {}
    BY <1>3, <1>7, <2>2 DEF Accounted
  <2>4. QED
    BY <1>7, <2>1, <2>3 DEF Accounted
<1>8. CASE Run \/ ReadFails \/ Interrupt
  BY <1>5, <1>8 DEF Run, ReadFails, Interrupt, AfterInline
<1>9. CASE ReadComments
  <2>1. CASE pc' # "post"
    BY <1>5, <1>9, <2>1 DEF ReadComments, AfterInline
  <2>2. CASE pc' = "post"
    <3> DEFINE T == {i \in Positions : comments[i] \notin Visible}
    <3>1. T \in SUBSET Positions /\ Batched(T, cap, groups')
      BY <1>9, ReadBatches
    <3>2. late' = {} /\ UNCHANGED <<inline, late>>
      BY <1>1, <1>9, RacedStays DEF ReadComments
    <3>3. Stored(S)'
      BY <1>2, <1>4, <3>2, StoredStays
    <3>4. T \cap S = {}
      <4>1. SUFFICES ASSUME NEW i \in S
                     PROVE  comments[i] \in Visible
        OBVIOUS
      <4>2. comments[i] \in Keys
        BY InputFacts
      <4>3. Count(S, comments[i]) > 0
        BY InputFacts, CountPositive
      <4>4. QED
        BY <1>4, <4>2, <4>3 DEF Stored, Visible
    <3> HIDE DEF T
    <3>5. \A b \in Unsent' : b \in SUBSET T
      <4>1. groups' \in Seq(SUBSET T)
        BY <3>1 DEF Batched
      <4>2. \A i \in 1 .. Len(groups') : groups'[i] \in SUBSET T
        BY <4>1
      <4>3. QED
        BY <2>2, <4>2 DEF Unsent
    <3>6. \A b \in Unsent' : b \cap S = {}
      BY <3>4, <3>5
    <3>7. QED
      BY <2>2, <3>2, <3>3, <3>6 DEF Accounted
  <2>3. QED
    BY <2>1, <2>2
<1>10. CASE PostCreated
  <2>0. PICK H : H = Head(groups)
    OBVIOUS
  <2>1. pc = "post" /\ H \in Unsent /\ H \in SUBSET Positions
    BY <1>10, <2>0, UnsentHead DEF PostCreated
  <2>2. H \cap S = {} /\ \A l \in late : l[2] \cap H = {}
    BY <1>3, <2>1 DEF Accounted
  <2>3. inline' = Created(H) /\ late' = late
    BY <1>10, <2>0 DEF PostCreated
  <2>4. S \cup H \in SUBSET Positions /\ Stored(S \cup H)'
    BY <1>2, <1>4, <2>1, <2>2, <2>3, Written
  <2>5. CASE pc' = "post"
    <3>1. \A b \in Unsent' : b \in Unsent /\ b \cap H = {}
      BY <1>10, <2>0, <2>1, <2>5, UnsentNext DEF PostCreated, NextBatch
    <3>2. \A b \in Unsent' : b \cap (S \cup H) = {} /\ \A l \in late' : b \cap l[2] = {}
      BY <1>3, <2>1, <2>3, <3>1 DEF Accounted
    <3>3. QED
      BY <2>4, <2>5, <3>2 DEF Accounted
  <2>6. CASE pc' # "post"
    <3>1. pc' \notin {"post", "confirm"}
      BY <1>10, <2>6 DEF PostCreated, NextBatch, AfterInline
    <3>2. QED
      BY <2>4, <3>1 DEF Accounted
  <2>7. QED
    BY <2>5, <2>6
<1>11. CASE PostRejected \/ ConfirmSeen
  BY <1>5, <1>7, <1>11 DEF PostRejected, ConfirmSeen, NextBatch, AfterInline
<1>12. CASE PostUnknown
  <2> DEFINE H == Head(groups)
  <2>1. /\ pc = "post" /\ pc' = "confirm" /\ groups' = groups
        /\ H \in Unsent /\ H \in SUBSET Positions /\ H' = H
    BY <1>12, UnsentHead DEF PostUnknown
  <2>2. H \cap S = {} /\ \A l \in late : l[2] \cap H = {}
    BY <1>3, <2>1 DEF Accounted
  <2>3. \A b \in Unsent' : b \in Unsent /\ b \cap H = {}
    BY <2>1, UnsentHead
  <2>4. \A b \in Unsent' : b \cap S = {} /\ \A l \in late : b \cap l[2] = {}
    BY <1>3, <2>1, <2>3 DEF Accounted
  <2>5. CASE inline' = Created(H) /\ late' = late
    <3>1. S \cup H \in SUBSET Positions /\ Stored(S \cup H)'
      <4> HIDE DEF H
      <4> QED  BY <1>2, <1>4, <2>1, <2>2, <2>5, Written
    <3>2. \A b \in Unsent' : b \cap (S \cup H) = {} /\ \A l \in late' : b \cap l[2] = {}
      BY <2>3, <2>4, <2>5
    <3>3. H' \subseteq S \cup H /\ \A l \in late' : l[2] \cap H' = {}
      BY <2>1, <2>2, <2>5
    <3>4. QED
      BY <2>1, <3>1, <3>2, <3>3 DEF Accounted
  <2>6. CASE UNCHANGED <<inline, late>>
    <3>1. Stored(S)'
      BY <1>2, <1>4, <2>6, StoredStays
    <3>2. QED
      BY <2>1, <2>2, <2>4, <2>6, <3>1 DEF Accounted
  <2>7. CASE inline' = inline /\ late' = late \cup {<<lates + 1, H>>}
    <3> DEFINE new == <<lates + 1, H>>
    <3>1. new[2] = H
      OBVIOUS
    <3>2. \A l \in late' : l \in late \/ l = new
      BY <2>7
    <3> HIDE DEF new, H
    <3>3. \A k : Count(S, k)' = Count(S, k)
      BY <1>2 DEF Count
    <3>4. \A l \in late' : l[2] \cap S = {}
      BY <1>4, <2>2, <3>1, <3>2 DEF Stored
    <3>5. \A l, m \in late' : l # m => l[2] \cap m[2] = {}
      BY <1>4, <2>2, <3>1, <3>2 DEF Stored
    <3>6. Stored(S)'
      BY <1>4, <2>7, <3>3, <3>4, <3>5 DEF Stored
    <3>7. \A b \in Unsent' : b \cap S = {} /\ \A l \in late' : b \cap l[2] = {}
      BY <2>3, <2>4, <3>1, <3>2
    <3>8. \A l \in late' : l[2] = H \/ l[2] \cap H = {}
      BY <2>2, <3>1, <3>2
    <3>9. QED
      BY <2>1, <2>2, <3>6, <3>7, <3>8 DEF Accounted, H
  <2>8. QED
    BY <1>12, <2>5, <2>6, <2>7 DEF PostUnknown
<1>13. CASE ConfirmNotSeen
  BY <1>5, <1>6, <1>13 DEF ConfirmNotSeen
<1>14. CASE ReadIssue \/ ReadIssueFails \/ PostIssue \/ ConfirmIssue
  BY <1>5, <1>14 DEF ReadIssue, ReadIssueFails, PostIssue, ConfirmIssue, IssueDone
<1>15. CASE LateWrite
  <2>1. CASE UNCHANGED <<inline, late>>
    BY <1>6, <1>15, <2>1 DEF LateWrite
  <2>2. CASE \E review \in late : inline' = Created(review[2]) /\ late' = late \ {review}
    <3>1. PICK review \in late : inline' = Created(review[2]) /\ late' = late \ {review}
      BY <2>2
    <3> DEFINE b == review[2]
    <3>2. b \in SUBSET Positions
      BY DEF TypeOK
    <3>3. b \cap S = {} /\ late' \subseteq late /\ \A l \in late' : l[2] \cap b = {}
      BY <1>4, <3>1 DEF Stored
    <3>4. inline' = Created(b)
      BY <3>1
    <3>5. S \cup b \in SUBSET Positions /\ Stored(S \cup b)'
      <4> HIDE DEF b
      <4> QED  BY <1>2, <1>4, <3>2, <3>3, <3>4, Written
    <3>6. pc' = pc /\ groups' = groups /\ Unsent' = Unsent
      BY <1>15 DEF LateWrite, Unsent
    <3>7. pc \in {"post", "confirm"} =>
            \A c \in Unsent : c \cap (S \cup b) = {} /\ \A l \in late' : c \cap l[2] = {}
      BY <1>3, <3>3 DEF Accounted
    <3>8. pc = "confirm" =>
            /\ Head(groups) \subseteq S \cup b \/ Head(groups) \cap (S \cup b) = {}
            /\ \A l \in late' : l[2] = Head(groups) \/ l[2] \cap Head(groups) = {}
      <4>1. pc = "confirm" => b = Head(groups) \/ b \cap Head(groups) = {}
        BY <1>3 DEF Accounted
      <4> HIDE DEF b
      <4>2. QED
        BY <1>3, <3>3, <4>1 DEF Accounted
    <3>9. QED
      BY <3>5, <3>6, <3>7, <3>8 DEF Accounted
  <2>3. QED
    BY <1>15, <2>1, <2>2 DEF LateWrite
<1>16. CASE UNCHANGED vars
  BY <1>6, <1>16 DEF vars
<1>17. QED
  BY <1>8, <1>9, <1>10, <1>11, <1>12, <1>13, <1>14, <1>15, <1>16 DEF Next, Program, Done

-----------------------------------------------------------------------------
(* Nothing is dropped *)

\* Comments only appear.
LEMMA VisibleGrows ==
    ASSUME TypeOK, BatchInv, [Next]_vars
    PROVE  /\ \A k \in Keys : inline[k] \in Nat /\ inline'[k] \in Nat /\ inline[k] <= inline'[k]
           /\ Visible \subseteq Visible'
<1> USE DEF server
<1>1. \A b \in SUBSET Positions : \A k \in Keys : inline[k] <= Created(b)[k]
  BY CreatedFacts
<1>2. inline \in [Keys -> Nat] /\ inline' \in [Keys -> Nat]
  BY StepType DEF TypeOK
<1>3. pc = "post" => Head(groups) \in SUBSET Positions
  BY UnsentHead
<1>4. \A review \in late : review[2] \in SUBSET Positions
  BY DEF TypeOK
<1>5. inline' = inline \/ \E b \in SUBSET Positions : inline' = Created(b)
  BY <1>3, <1>4 DEF Next, Program, Run, ReadComments, ReadFails, PostCreated, PostRejected,
     PostUnknown, ConfirmSeen, ConfirmNotSeen, ReadIssue, ReadIssueFails, PostIssue, ConfirmIssue,
     LateWrite, Interrupt, Done, vars
<1>6. \A k \in Keys : inline[k] <= inline'[k]
  BY <1>1, <1>2, <1>5
<1>7. QED
  BY <1>2, <1>6 DEF Visible

\* The current batch is on the PR, the others are still pending.
LEMMA BatchDone ==
    ASSUME TypeOK, BatchInv, pc \in {"post", "confirm"}, comments' = comments,
           groups' = Tail(groups), Visible \subseteq Visible',
           \A i \in Head(groups) : comments[i] \in Visible',
           Wanted \subseteq Visible \cup Pending
    PROVE  /\ Wanted' \subseteq Visible' \cup Pending'
           /\ ~(Len(groups) > 1) => Wanted' \subseteq Visible'
<1>1. groups # <<>> /\ groups \in Seq(SUBSET Positions)
  BY DEF TypeOK, BatchInv
<1>2. /\ Len(groups) \in Nat \ {0} /\ Len(groups') = Len(groups) - 1 /\ Head(groups) = groups[1]
      /\ \A i \in 1 .. Len(groups) - 1 : groups'[i] = groups[i + 1]
      /\ groups' \in Seq(SUBSET Positions)
  BY <1>1, TailFacts
<1>3. DOMAIN groups = 1 .. Len(groups) /\ DOMAIN groups' = 1 .. Len(groups')
  BY <1>1, <1>2
<1>4. Wanted' = Wanted
  BY DEF Wanted, Positions
<1>5. ASSUME NEW c \in Wanted, c \notin Visible'
      PROVE  \E j \in 1 .. Len(groups') : \E i \in groups'[j] : comments[i] = c
  <2>1. c \in Pending
    BY <1>5
  <2>2. PICK n \in 1 .. Len(groups) : \E i \in groups[n] : comments[i] = c
    BY <1>3, <2>1 DEF Pending
  <2>3. n # 1
    BY <1>2, <1>5, <2>2
  <2>4. n - 1 \in 1 .. Len(groups') /\ (n - 1) + 1 = n
    BY <1>2, <2>3
  <2>5. groups'[n - 1] = groups[n]
    BY <1>2, <2>4
  <2>6. QED
    BY <2>2, <2>4, <2>5
<1>6. ASSUME NEW c, NEW j \in 1 .. Len(groups'), NEW i \in groups'[j], comments[i] = c
      PROVE  c \in Pending'
  BY <1>3, <1>6 DEF Pending
<1>7. Wanted' \subseteq Visible' \cup Pending'
  BY <1>4, <1>5, <1>6
<1>8. ~(Len(groups) > 1) => Len(groups') = 0
  BY <1>2
<1>9. QED
  BY <1>4, <1>5, <1>7, <1>8

\* Once a run has cut across a review that was due, it has; one that does so reads early.
LEMMA RecutStays ==
    ASSUME TypeOK, [Next]_vars
    PROVE  /\ ~recut' => ~recut
           /\ comments' = comments /\ Positions' = Positions
           /\ RecutInv => RecutInv'
<1> USE DEF server
<1>1. CASE ReadComments
  <2>1. comments' = comments /\ (~recut' => ~recut) /\ (raced => raced')
    BY <1>1, Zenon DEF ReadComments
  <2>2. recut' => recut \/ raced'
    BY <1>1, Zenon DEF ReadComments
  <2>3. QED
    BY <2>1, <2>2 DEF Positions, RecutInv
<1>2. CASE ReadIssue
  <2>1. comments' = comments /\ recut' = recut /\ (raced => raced')
    BY <1>2, Zenon DEF ReadIssue
  <2>2. QED
    BY <2>1 DEF Positions, RecutInv
<1>3. CASE UNCHANGED <<comments, raced, recut>>
  BY <1>3 DEF Positions, RecutInv
<1>4. QED
  BY <1>1, <1>2, <1>3 DEF Next, Program, Run, ReadFails, PostCreated, PostRejected, PostUnknown,
     ConfirmSeen, ConfirmNotSeen, ReadIssueFails, PostIssue, ConfirmIssue, LateWrite,
     Interrupt, Done, vars

\* What is on the PR after a batch has been written.
LEMMA VisibleAfter ==
    ASSUME TypeOK, NEW b \in SUBSET Positions, inline' = Created(b)
    PROVE  Visible' = Visible \cup {comments[i] : i \in b}
<1>1. \A i \in b : comments[i] \in Keys
  BY InputFacts
<1>2. ASSUME NEW k \in Keys
      PROVE  inline'[k] > 0 <=> inline[k] > 0 \/ \E i \in b : comments[i] = k
  <2>1. inline'[k] = inline[k] + Count(b, k) /\ Count(b, k) \in Nat /\ inline[k] \in Nat
    BY CreatedFacts DEF TypeOK
  <2>2. Count(b, k) > 0 <=> \E i \in b : comments[i] = k
    BY InputFacts, CountPositive
  <2>3. QED
    BY <2>1, <2>2
<1>3. QED
  BY <1>1, <1>2 DEF Visible

\* A batch that has been written is seen; one it has nothing in common with is as it was.
LEMMA WrittenWhole ==
    ASSUME TypeOK, Distinct, NEW b \in SUBSET Positions, inline' = Created(b),
           comments' = comments, NEW c \in SUBSET Positions, Seen(c, Visible) \/ Unseen(c, Visible),
           c \cap b = {} \/ c \subseteq b
    PROVE  Seen(c, Visible') \/ Unseen(c, Visible')
<1>1. Visible' = Visible \cup {comments[i] : i \in b}
  BY VisibleAfter
<1>2. CASE c \cap b = {}
  <2>1. \A i \in c : comments[i] \in Visible' <=> comments[i] \in Visible
    BY <1>1, <1>2 DEF Distinct
  <2>2. QED
    BY <2>1 DEF Seen, Unseen
<1>3. CASE c \subseteq b
  BY <1>1, <1>3 DEF Seen
<1>4. QED
  BY <1>2, <1>3

LEMMA StepWhole ==
    ASSUME TypeOK, BatchInv, WholeInv, [Next]_vars
    PROVE  WholeInv'
<1> USE DEF Exits, Steps, server
<1>0. comments' = comments /\ (~recut' => ~recut)
  BY RecutStays
<1>1. SUFFICES ASSUME pc' \in {"post", "confirm"}, Distinct', ~recut'
               PROVE  \A i \in 1 .. Len(groups') :
                        /\ Seen(groups'[i], Visible') \/ Unseen(groups'[i], Visible')
                        /\ \A x \in late' : groups'[i] \cap x[2] = {} \/ groups'[i] \subseteq x[2]
  BY <1>0 DEF WholeInv, Seen, Unseen
<1>2. Distinct /\ ~recut /\ comments' = comments
  BY <1>0, <1>1 DEF Distinct, Positions
<1>3. ASSUME pc \in {"post", "confirm"}
      PROVE  /\ groups \in Seq(SUBSET Positions) /\ groups # <<>> /\ Head(groups) = groups[1]
             /\ Len(groups) \in Nat \ {0}
             /\ \A i \in 1 .. Len(groups) :
                  /\ groups[i] \in SUBSET Positions
                  /\ i # 1 => groups[i] \cap Head(groups) = {}
                  /\ Seen(groups[i], Visible) \/ Unseen(groups[i], Visible)
                  /\ \A x \in late : groups[i] \cap x[2] = {} \/ groups[i] \subseteq x[2]
  <2>1. groups \in Seq(SUBSET Positions) /\ groups # <<>>
    BY <1>3 DEF TypeOK, BatchInv
  <2>2. Head(groups) = groups[1] /\ Len(groups) \in Nat \ {0}
        /\ \A i \in 1 .. Len(groups) : groups[i] \in SUBSET Positions
    BY <2>1
  <2>3. \A i \in 1 .. Len(groups) : i # 1 => groups[i] \cap groups[1] = {}
    <3>1. 1 \in 1 .. Len(groups)
      BY <2>2
    <3>2. QED
      BY <1>3, <3>1 DEF BatchInv
  <2>4. QED
    BY <1>2, <1>3, <2>1, <2>2, <2>3 DEF WholeInv
\* The batches stay, nothing appears and nothing new is due.
<1>4. CASE UNCHANGED <<groups, inline, late>> /\ pc \in {"post", "confirm"}
  <2>1. Visible' = Visible
    BY <1>4 DEF Visible
  <2>2. QED
    BY <1>3, <1>4, <2>1
<1>5. CASE ReadComments
  <2>1. /\ groups' \in Seq(SUBSET Positions) /\ UNCHANGED <<inline, late>>
        /\ ~ \E x \in late, j \in DOMAIN groups' : Crosses(groups'[j], x)
        /\ Batched({i \in Positions : comments[i] \notin Visible}, cap, groups')
    <3>1. UNCHANGED <<inline, late>>
      BY <1>5 DEF ReadComments
    <3>2. ~ \E x \in late, j \in DOMAIN groups' : Crosses(groups'[j], x)
      BY <1>1, <1>5, Zenon DEF ReadComments
    <3>3. QED
      BY <1>5, <3>1, <3>2, ReadBatches
  <2>2. DOMAIN groups' = 1 .. Len(groups')
    BY <2>1
  <2>3. ASSUME NEW i \in 1 .. Len(groups') PROVE Unseen(groups'[i], Visible')
    <3>1. groups'[i] \subseteq {j \in Positions : comments[j] \notin Visible}
      BY <2>1, <2>3 DEF Batched
    <3>2. Visible' = Visible
      BY <2>1 DEF Visible
    <3>3. QED
      BY <1>2, <3>1, <3>2 DEF Unseen
  <2>4. ASSUME NEW i \in 1 .. Len(groups'), NEW x \in late'
        PROVE  groups'[i] \cap x[2] = {} \/ groups'[i] \subseteq x[2]
    BY <2>1, <2>2, <2>4 DEF Crosses
  <2>5. QED
    BY <2>3, <2>4
\* The next batch, after the current one was written, rejected or confirmed.
<1>6. ASSUME pc \in {"post", "confirm"}, NEW failed, NextBatch(failed), late' = late,
             inline' = inline \/ inline' = Created(Head(groups))
      PROVE  \A i \in 1 .. Len(groups') :
               /\ Seen(groups'[i], Visible') \/ Unseen(groups'[i], Visible')
               /\ \A x \in late' : groups'[i] \cap x[2] = {} \/ groups'[i] \subseteq x[2]
  <2> TAKE i \in 1 .. Len(groups')
  <2>1. /\ Len(groups') = Len(groups) - 1 /\ groups'[i] = groups[i + 1]
        /\ i + 1 \in 1 .. Len(groups) /\ i + 1 # 1
    <3>1. groups' = Tail(groups) /\ groups \in Seq(SUBSET Positions) /\ groups # <<>>
      BY <1>3, <1>6 DEF NextBatch
    <3>2. Len(groups') = Len(groups) - 1 /\ Len(groups) \in Nat
          /\ \A j \in 1 .. Len(groups) - 1 : groups'[j] = groups[j + 1]
      BY <3>1, TailFacts
    <3>3. QED
      BY <3>2
  <2>2. /\ groups'[i] \in SUBSET Positions /\ groups'[i] \cap Head(groups) = {}
        /\ Seen(groups'[i], Visible) \/ Unseen(groups'[i], Visible)
        /\ \A x \in late : groups'[i] \cap x[2] = {} \/ groups'[i] \subseteq x[2]
    BY <1>3, <1>6, <2>1
  <2>3. Seen(groups'[i], Visible') \/ Unseen(groups'[i], Visible')
    <3>1. CASE inline' = inline
      BY <1>2, <2>2, <3>1 DEF Seen, Unseen, Visible
    <3>2. CASE inline' = Created(Head(groups))
      <4>1. Head(groups) \in SUBSET Positions
        BY <1>3, <1>6
      <4>2. QED
        BY <1>2, <2>2, <3>2, <4>1, WrittenWhole
    <3>3. QED
      BY <1>6, <3>1, <3>2
  <2>4. QED
    BY <1>6, <2>2, <2>3
<1>7. CASE PostCreated
  BY <1>6, <1>7 DEF PostCreated
<1>8. CASE PostRejected
  BY <1>6, <1>8 DEF PostRejected
<1>9. CASE ConfirmSeen
  BY <1>6, <1>9 DEF ConfirmSeen
<1>10. CASE PostUnknown
  <2>1. pc = "post" /\ groups' = groups
    BY <1>10 DEF PostUnknown
  <2>2. \A i \in 1 .. Len(groups) : groups[i] \cap Head(groups) = {} \/ groups[i] \subseteq Head(groups)
    BY <1>3, <2>1
  <2>3. CASE inline' = Created(Head(groups)) /\ late' = late
    <3> TAKE i \in 1 .. Len(groups')
    <3>1. Head(groups) \in SUBSET Positions /\ i \in 1 .. Len(groups)
      BY <1>3, <2>1
    <3>2. Seen(groups[i], Visible') \/ Unseen(groups[i], Visible')
      BY <1>2, <1>3, <2>1, <2>2, <2>3, <3>1, WrittenWhole
    <3>3. QED
      BY <1>3, <2>1, <2>3, <3>1, <3>2
  <2>4. CASE inline' = inline /\ late' = late
    BY <1>4, <2>1, <2>4
  <2>5. CASE inline' = inline /\ late' = late \cup {<<lates + 1, Head(groups)>>}
    <3>1. Visible' = Visible
      BY <2>5 DEF Visible
    <3>2. QED
      BY <1>3, <2>1, <2>2, <2>5, <3>1
  <2>6. QED
    BY <1>10, <2>3, <2>4, <2>5 DEF PostUnknown
<1>11. CASE LateWrite
  <2>1. pc' = pc /\ groups' = groups
    BY <1>11 DEF LateWrite
  <2>2. CASE UNCHANGED <<inline, late>>
    BY <1>1, <1>4, <2>1, <2>2
  <2>3. CASE \E review \in late : inline' = Created(review[2]) /\ late' = late \ {review}
    <3>1. PICK review \in late : inline' = Created(review[2]) /\ late' = late \ {review}
      BY <2>3
    <3>2. review[2] \in SUBSET Positions
      BY DEF TypeOK
    <3> TAKE i \in 1 .. Len(groups')
    <3>3. Seen(groups[i], Visible') \/ Unseen(groups[i], Visible')
      BY <1>1, <1>2, <1>3, <2>1, <3>1, <3>2, WrittenWhole
    <3>4. QED
      BY <1>1, <1>3, <2>1, <3>1, <3>3
  <2>4. QED
    BY <1>11, <2>2, <2>3 DEF LateWrite
<1>12. CASE ConfirmNotSeen \/ UNCHANGED vars
  BY <1>1, <1>4, <1>12 DEF ConfirmNotSeen, vars
<1>13. QED
  BY <1>1, <1>5, <1>7, <1>8, <1>9, <1>10, <1>11, <1>12
     DEF Next, Program, Done, Run, AfterInline, ReadFails, ReadIssue, ReadIssueFails, PostIssue,
         ConfirmIssue, IssueDone, Interrupt

\* One comment seen stands for the batch, until a run has cut across a review that is due.
LEMMA SeenStandsForAll ==
    ASSUME TypeOK, BatchInv, WholeInv, Distinct, ~recut, ConfirmSeen
    PROVE  \A i \in Head(groups) : comments[i] \in Visible
<1>1. pc = "confirm" /\ groups \in Seq(SUBSET Positions) /\ groups # <<>>
  BY DEF ConfirmSeen, TypeOK, BatchInv
<1>2. Head(groups) = groups[1] /\ 1 \in 1 .. Len(groups)
  BY <1>1
<1>3. Seen(Head(groups), Visible) \/ Unseen(Head(groups), Visible)
  BY <1>1, <1>2 DEF WholeInv
<1>4. QED
  BY <1>3 DEF ConfirmSeen, Seen, Unseen

LEMMA StepKeeps ==
    ASSUME TypeOK, BatchInv, WholeInv, KeepsInv, [Next]_vars
    PROVE  KeepsInv'
<1> USE DEF Exits, Steps, server
<1>1. Visible \subseteq Visible'
  BY VisibleGrows
<1>2. (~recut' => ~recut) /\ comments' = comments /\ Positions' = Positions
  BY RecutStays
<1>3. comments' = comments => (Wanted' = Wanted /\ (Distinct' <=> Distinct))
  BY DEF Wanted, Distinct, Positions
<1>4. CASE /\ pc' = pc \/ (pc = "post" /\ pc' = "confirm") \/ pc' \in {"failed", "stopped"}
           /\ UNCHANGED <<groups, errors>> \/ pc' \in {"failed", "stopped"}
  <2>1. comments' = comments /\ groups' = groups => Pending' = Pending
    BY DEF Pending
  <2>2. QED
    BY <1>1, <1>2, <1>3, <1>4, <2>1 DEF KeepsInv, After
<1>5. CASE Run
  <2>1. CASE comments = <<>>
    <3>1. Wanted' = {} /\ ~errors' /\ pc' \notin {"post", "confirm", "get"}
      BY <1>5, <2>1 DEF Run, AfterInline, Wanted, Positions
    <3>2. QED
      BY <3>1 DEF KeepsInv
  <2>2. CASE comments # <<>>
    BY <1>5, <2>2 DEF Run, KeepsInv, After
  <2>3. QED
    BY <2>1, <2>2
<1>6. CASE ReadComments
  <2> DEFINE T == {i \in Positions : comments[i] \notin Visible}
  <2>1. Batched(T, cap, groups')
    BY <1>6, ReadBatches
  <2>2. ~errors /\ ~errors' /\ comments' = comments /\ inline' = inline
    BY <1>6 DEF ReadComments, KeepsInv
  <2>3. ASSUME NEW c \in Wanted, c \notin Visible
        PROVE  \E j \in 1 .. Len(groups') : \E i \in groups'[j] : comments[i] = c
    <3>1. PICK i \in Positions : comments[i] = c
      BY DEF Wanted
    <3>2. i \in T
      BY <2>3, <3>1
    <3>3. PICK j \in 1 .. Len(groups') : i \in groups'[j]
      BY <2>1, <3>2 DEF Batched
    <3>4. QED
      BY <3>1, <3>3
  <2>4. groups' \in Seq(SUBSET Positions)
    BY <1>6, ReadBatches
  <2>5. CASE groups' = <<>>
    <3>1. Wanted \subseteq Visible
      BY <2>3, <2>5
    <3>2. Wanted' \subseteq Visible'
      BY <1>1, <1>3, <2>2, <3>1
    <3>3. pc' \notin {"post", "confirm", "get"}
      BY <1>6, <2>5 DEF ReadComments, AfterInline
    <3>4. QED
      BY <2>2, <3>2, <3>3 DEF KeepsInv
  <2>6. CASE groups' # <<>>
    <3>1. pc' = "post"
      BY <1>6, <2>6 DEF ReadComments
    <3>2. DOMAIN groups' = 1 .. Len(groups')
      BY <2>4
    <3>3. \A c \in Wanted : c \in Visible \/ c \in Pending'
      BY <2>2, <2>3, <3>2 DEF Pending
    <3>4. Wanted' \subseteq Visible' \cup Pending'
      BY <1>1, <1>3, <2>2, <3>3
    <3>5. QED
      BY <3>1, <3>4 DEF KeepsInv, After
  <2>7. QED
    BY <2>5, <2>6
<1>7. CASE PostCreated
  <2>1. /\ pc = "post" /\ groups' = Tail(groups) /\ comments' = comments /\ errors' = errors
        /\ IF Len(groups) > 1 THEN pc' = "post" ELSE pc' \in After \cup {"failed"}
        /\ pc' = "ok" => ~errors'
    BY <1>7 DEF PostCreated, NextBatch, AfterInline, After
  <2>2. Head(groups) \in SUBSET Positions
    BY <2>1, UnsentHead
  <2>3. \A i \in Head(groups) : comments[i] \in Visible'
    <3> TAKE i \in Head(groups)
    <3>1. comments[i] \in Keys /\ inline[comments[i]] \in Nat
      BY <2>2, InputFacts DEF TypeOK
    <3>2. Count(Head(groups), comments[i]) > 0
      BY <2>2, InputFacts, CountPositive
    <3>3. inline'[comments[i]] = inline[comments[i]] + Count(Head(groups), comments[i])
          /\ Count(Head(groups), comments[i]) \in Nat
      BY <1>7, <2>2, <3>1, CreatedFacts DEF PostCreated
    <3>4. inline'[comments[i]] > 0
      BY <3>1, <3>2, <3>3
    <3>5. QED
      BY <3>1, <3>4 DEF Visible
  <2>4. Wanted \subseteq Visible \cup Pending =>
          /\ Wanted' \subseteq Visible' \cup Pending'
          /\ ~(Len(groups) > 1) => Wanted' \subseteq Visible'
    BY <1>1, <2>1, <2>3, BatchDone
  <2>5. QED
    BY <1>2, <1>3, <2>1, <2>4 DEF KeepsInv, After
<1>8. CASE PostRejected
  BY <1>8 DEF PostRejected, NextBatch, AfterInline, KeepsInv, After
<1>9. CASE ConfirmSeen
  <2>1. /\ pc = "confirm" /\ groups' = Tail(groups) /\ comments' = comments /\ errors' = errors
        /\ IF Len(groups) > 1 THEN pc' = "post" ELSE pc' \in After \cup {"failed"}
        /\ pc' = "ok" => ~errors'
    BY <1>9 DEF ConfirmSeen, NextBatch, AfterInline, After
  <2>2. Distinct /\ ~recut => \A i \in Head(groups) : comments[i] \in Visible'
    BY <1>1, <1>9, SeenStandsForAll
  <2>3. Distinct /\ ~recut /\ Wanted \subseteq Visible \cup Pending =>
          /\ Wanted' \subseteq Visible' \cup Pending'
          /\ ~(Len(groups) > 1) => Wanted' \subseteq Visible'
    BY <1>1, <2>1, <2>2, BatchDone
  <2>4. QED
    BY <1>2, <1>3, <2>1, <2>3 DEF KeepsInv, After
<1>10. CASE ReadFails \/ PostUnknown \/ ConfirmNotSeen \/ LateWrite \/ Interrupt \/ UNCHANGED vars
  BY <1>4, <1>10 DEF ReadFails, PostUnknown, ConfirmNotSeen, LateWrite, Interrupt, vars
<1>11. CASE ReadIssue \/ ReadIssueFails \/ PostIssue \/ ConfirmIssue
  <2>1. /\ pc \in After \ {"ok"} /\ pc' \in After \cup {"failed"} /\ errors' = errors
        /\ pc' = "ok" => ~errors
    BY <1>11 DEF ReadIssue, ReadIssueFails, PostIssue, ConfirmIssue, IssueDone, After
  <2>2. QED
    BY <1>1, <1>2, <1>3, <2>1 DEF KeepsInv, After
<1>12. QED
  BY <1>5, <1>6, <1>7, <1>8, <1>9, <1>10, <1>11 DEF Next, Program, Done

-----------------------------------------------------------------------------
(* The theorems *)

LEMMA InitInv == Init => IndInv
<1> SUFFICES ASSUME Init
             PROVE  IndInv
  OBVIOUS
<1>1. TypeOK
  BY InitType
<1>2. ServerInv
  <2>1. \A k : {i \in {} : comments[i] = k} = {}
    OBVIOUS
  <2>2. \A k : Count({}, k) = 0
    BY <2>1, FS_EmptySet DEF Count
  <2>3. Accounted({})
    BY <2>2 DEF Init, Accounted, Stored
  <2>4. QED
    BY <2>3 DEF ServerInv
<1>3. BatchInv /\ WholeInv /\ KeepsInv /\ IssueInv /\ RecutInv
  BY DEF Init, BatchInv, WholeInv, KeepsInv, IssueInv, RecutInv, After
<1>4. QED
  BY <1>1, <1>2, <1>3 DEF IndInv

LEMMA StepInv == IndInv /\ [Next]_vars => IndInv'
  BY StepType, StepBatch, StepServer, StepWhole, StepKeeps, StepIssue, RecutStays DEF IndInv

\* The invariant is inductive: however often the command is started, interrupted or
\* answered with an error, the comments on the PR, those the server has still to write
\* and the batches of the run are accounted for (post_inline, confirm_created).
THEOREM PublisherInductive == Spec => []IndInv
<1>1. Init => IndInv
  BY InitInv
<1>2. IndInv /\ [Next]_vars => IndInv'
  BY StepInv
<1>3. QED
  BY <1>1, <1>2, PTL DEF Spec

\* Every variable of the command and of the server keeps its type: the tries of
\* confirm_created stay below CONFIRM_TRIES, and the batches are positions of the list.
THEOREM PublisherTypes == Spec => []TypeOK
<1>1. IndInv => TypeOK
  BY DEF IndInv
<1>2. QED
  BY <1>1, PublisherInductive, PTL

\* Whatever is rejected, lost, interrupted and repeated with whatever --per-review, no
\* comment appears more often than it was asked for, unless a run read the list while a
\* write was due (post_inline's GET, confirm_created instead of a second POST).
THEOREM NoDuplicates == Spec => []DuplicateOnlyAfterLateWrite
<1>1. IndInv => DuplicateOnlyAfterLateWrite
  <2>1. SUFFICES ASSUME IndInv, ~raced
                 PROVE  issue <= 1 /\ \A k \in Keys : inline[k] <= Count(Positions, k)
    BY DEF DuplicateOnlyAfterLateWrite
  <2>2. PICK S \in SUBSET Positions : Accounted(S)
    BY <2>1 DEF IndInv, ServerInv
  <2>3. \A k \in Keys : inline[k] = Count(S, k)
    BY <2>2 DEF Accounted, Stored
  <2>4. comments \in Seq(Keys)
    BY <2>1, InputFacts DEF IndInv
  <2>5. \A k \in Keys : inline[k] <= Count(Positions, k)
    BY <2>3, <2>4, CountType
  <2>6. issue <= 1
    BY <2>1 DEF IndInv, IssueInv, TypeOK
  <2>7. QED
    BY <2>5, <2>6
<1>2. QED
  BY <1>1, PublisherInductive, PTL

\* A run without errors has every comment on the PR or in a batch to come, for every
\* list without repetitions, every number of late writes and another --per-review each
\* time, until a run cuts the list across a review that is due (batches_by_file,
\* post_inline's loop, confirm_created).
THEOREM NothingDropped == Spec => []PlanIsComplete
<1>1. IndInv => PlanIsComplete
  <2>1. SUFFICES ASSUME IndInv, pc \in {"post", "confirm"}
                 PROVE  /\ Distinct /\ ~recut /\ ~errors => Wanted \subseteq Visible \cup Pending
                        /\ \A i \in DOMAIN groups :
                             /\ Cardinality(groups[i]) \in 1..cap
                             /\ \A j, k \in groups[i] : comments[j].path = comments[k].path
    BY DEF PlanIsComplete
  <2>2. Distinct /\ ~recut /\ ~errors => Wanted \subseteq Visible \cup Pending
    BY <2>1 DEF IndInv, KeepsInv
  <2>3. DOMAIN groups = 1 .. Len(groups)
    BY <2>1 DEF IndInv, TypeOK
  <2>4. QED
    BY <2>1, <2>2, <2>3 DEF IndInv, BatchInv
<1>2. QED
  BY <1>1, PublisherInductive, PTL

\* Under the same condition exit code 0 means that everything is on the PR (main's exit
\* code), however many writes came late.
THEOREM ExitCodeHonest == Spec => []ExitZeroIfDistinct
<1>1. IndInv => ExitZeroIfDistinct
  BY DEF IndInv, KeepsInv, IssueInv, After, ExitZeroIfDistinct, ExitZeroMeansPosted
<1>2. QED
  BY <1>1, PublisherInductive, PTL

-----------------------------------------------------------------------------
(* PostReview implements Publication *)

\* Comments that all differ.
AllDistinct == \A s \in InputLists : \A i, j \in DOMAIN s : s[i] = s[j] => i = j

DistinctInv == IndInv /\ Distinct

LEMMA DistinctInit ==
    ASSUME AllDistinct, Init
    PROVE  DistinctInv
<1>1. IndInv
  BY InitInv
<1>2. Distinct
  BY DEF AllDistinct, Init, Distinct, Positions
<1>3. QED
  BY <1>1, <1>2 DEF DistinctInv

LEMMA DistinctStep ==
    ASSUME DistinctInv, [Next]_vars
    PROVE  DistinctInv'
<1>1. IndInv'
  BY StepInv DEF DistinctInv
<1>2. comments' = comments /\ Positions' = Positions
  BY RecutStays DEF DistinctInv, IndInv
<1>3. QED
  BY <1>1, <1>2 DEF DistinctInv, Distinct

\* What is on the PR until a run reads the list while a write is due.
Board ==
    /\ inline \in [Keys -> Nat] /\ issue \in Nat /\ orphans \in BOOLEAN
    /\ \A k \in Keys : inline[k] <= Count(Positions, k) /\ Count(Positions, k) \in Nat
    /\ issue <= IF orphans THEN 1 ELSE 0
    /\ pc = "ok" => /\ issue = IF orphans THEN 1 ELSE 0
                    /\ \A k \in Keys : Count(Positions, k) > 0 => inline[k] > 0

LEMMA HasBoard == DistinctInv /\ ~raced => Board
<1> SUFFICES ASSUME DistinctInv, ~raced
             PROVE  Board
  OBVIOUS
<1>1. TypeOK /\ ~raced /\ ~recut /\ Distinct /\ ServerInv /\ KeepsInv /\ IssueInv
  BY DEF DistinctInv, IndInv, RecutInv
<1>2. comments \in Seq(Keys)
  BY <1>1, InputFacts
<1>3. PICK S \in SUBSET Positions : \A k \in Keys : inline[k] = Count(S, k)
  BY <1>1 DEF ServerInv, Accounted, Stored
<1>4. \A k \in Keys : inline[k] <= Count(Positions, k)
  BY <1>2, <1>3, CountType
<1>5. \A k \in Keys : Count(Positions, k) \in Nat
  BY <1>2, CountType
<1>6. issue \in Nat /\ lateIssue \in Nat /\ orphans \in BOOLEAN /\ inline \in [Keys -> Nat]
  BY <1>1 DEF TypeOK
<1>7. issue <= IF orphans THEN 1 ELSE 0
  BY <1>1, <1>6 DEF IssueInv
<1>8. pc = "ok" => issue = IF orphans THEN 1 ELSE 0
  BY <1>1, <1>6, <1>7 DEF IssueInv
<1>9. ASSUME pc = "ok", NEW k \in Keys, Count(Positions, k) > 0
      PROVE  inline[k] > 0
  <2>1. \E i \in Positions : comments[i] = k
    BY <1>2, <1>9, CountPositive
  <2>2. k \in Wanted
    BY <2>1 DEF Wanted
  <2>3. Wanted \subseteq Visible
    BY <1>1, <1>9 DEF KeepsInv, After
  <2>4. QED
    BY <2>2, <2>3 DEF Visible
<1>10. QED
  BY <1>4, <1>5, <1>6, <1>7, <1>8, <1>9 DEF Board

LEMMA PublishesInit ==
    ASSUME DistinctInv, Init
    PROVE  Promise!Init
<1>0. Board
  BY HasBoard DEF Init
<1>1. \A k \in Keys : Count(Positions, k) \in Nat
  BY <1>0 DEF Board
<1>2. [k \in Keys |-> Count(Positions, k)] \in [Keys -> Nat]
  BY <1>1
<1>3. (IF orphans THEN 1 ELSE 0) \in {0, 1}
  BY <1>0 DEF Board
<1>4. QED
  BY <1>2, <1>3 DEF Init, Promise!Init

\* A step of the command or of the server publishes, leaves the board as it was, or is
\* excused by what the server had still to write.
LEMMA PublishesStep ==
    ASSUME DistinctInv, DistinctInv', [Next]_vars
    PROVE  [Promise!Publish \/ Promise!Excused]_(Promise!pubVars)
<1> USE DEF server, Exits, Steps
<1> DEFINE asked == [k \in Keys |-> Count(Positions, k)]
           note == IF orphans THEN 1 ELSE 0
<1>e. CASE raced'
  <2>1. raced' = TRUE
    BY <1>e DEF DistinctInv, IndInv, TypeOK
  <2>2. QED
    BY <2>1 DEF Promise!Excused
<1>n. SUFFICES ASSUME ~raced'
               PROVE  [Promise!Publish \/ Promise!Excused]_(Promise!pubVars)
  BY <1>e
<1>r. ~raced /\ raced' = raced
  <2>1. ~raced
    BY <1>n, RacedStays DEF DistinctInv, IndInv
  <2>2. QED
    BY <1>n, <2>1 DEF DistinctInv, IndInv, TypeOK
<1>0. Board /\ Board'
  <2>1. Board
    BY <1>r, HasBoard
  <2>2. Board'
    BY <1>n, HasBoard, PTL
  <2>3. QED
    BY <2>1, <2>2
<1>1. comments' = comments /\ orphans' = orphans
  BY DEF Next, Program, Run, ReadComments, ReadFails, PostCreated, PostRejected, PostUnknown,
     ConfirmSeen, ConfirmNotSeen, ReadIssue, ReadIssueFails, PostIssue, ConfirmIssue, LateWrite,
     Interrupt, Done, vars
<1>2. asked' = asked /\ note' = note
  BY <1>1 DEF Count, Positions
<1>3. issue' = issue \/ inline' = inline
  BY <1>1 DEF Next, Program, Run, ReadComments, ReadFails, PostCreated, PostRejected, PostUnknown,
     ConfirmSeen, ConfirmNotSeen, ReadIssue, ReadIssueFails, PostIssue, ConfirmIssue, LateWrite,
     Interrupt, Done, vars
<1>4. issue' = issue \/ issue' = issue + 1
  BY <1>1 DEF Next, Program, Run, ReadComments, ReadFails, PostCreated, PostRejected, PostUnknown,
     ConfirmSeen, ConfirmNotSeen, ReadIssue, ReadIssueFails, PostIssue, ConfirmIssue, LateWrite,
     Interrupt, Done, vars
<1>5. pc = "ok" => pc' = "ok"
  BY <1>1 DEF Next, Program, Run, ReadComments, ReadFails, PostCreated, PostRejected, PostUnknown,
     ConfirmSeen, ConfirmNotSeen, ReadIssue, ReadIssueFails, PostIssue, ConfirmIssue, LateWrite,
     Interrupt, Done, vars
<1>6. /\ inline' \in [Keys -> Nat] /\ issue \in Nat /\ orphans \in BOOLEAN
      /\ \A k \in Keys : inline'[k] <= asked[k]
      /\ issue' <= note /\ issue \in Nat
      /\ pc' = "ok" => issue' = note /\ \A k \in Keys : asked[k] > 0 => inline'[k] > 0
  <2>1. /\ inline' \in [Keys -> Nat] /\ issue' \in Nat /\ issue \in Nat /\ orphans \in BOOLEAN
    BY <1>0 DEF Board
  <2>2. /\ \A k \in Keys : inline'[k] <= Count(Positions, k)'
        /\ issue' <= note'
        /\ pc' = "ok" => /\ issue' = note'
                         /\ \A k \in Keys : Count(Positions, k)' > 0 => inline'[k] > 0
    BY <1>0 DEF Board
  <2>3. \A k : Count(Positions, k)' = Count(Positions, k)
    BY <1>1 DEF Count, Positions
  <2>4. QED
    BY <1>2, <2>1, <2>2, <2>3
<1>7. \A k \in Keys : inline[k] <= inline'[k]
  BY VisibleGrows DEF DistinctInv, IndInv
<1>8. issue' \in {issue, note}
  BY <1>4, <1>6
<1>9. (pc' = "ok") \in BOOLEAN
  OBVIOUS
<1>10. Promise!Publish
  BY <1>r, <1>2, <1>3, <1>5, <1>6, <1>7, <1>8, <1>9 DEF Promise!Publish, Promise!job
<1>11. QED
  BY <1>10

\* The command keeps its promise: for lists without repetitions every behaviour of the
\* runs, retries, rejections, interrupts and late writes is one of Publication, which
\* promises nothing once a run has read the list while a write was due (post_inline,
\* post_issue_comment, main).
THEOREM ImplementsPublication ==
    ASSUME AllDistinct
    PROVE  Spec => Publishes
<1>1. Init => DistinctInv /\ Promise!Init
  BY DistinctInit, PublishesInit
<1>2. DistinctInv /\ [Next]_vars => DistinctInv' /\ [Promise!Publish \/ Promise!Excused]_(Promise!pubVars)
  BY DistinctStep, PublishesStep
<1>3. QED
  BY <1>1, <1>2, PTL DEF Spec, Publishes, Promise!Spec

=============================================================================
