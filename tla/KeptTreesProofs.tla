--------------------------- MODULE KeptTreesProofs ----------------------------
(***************************************************************************)
(* Proofs about KeptTrees for every set of names, texts and signatures and   *)
(* every bound.  The argument: a tree that is not closed has one owner, the  *)
(* list, another tree's signature plans or, in shape 1, the EXECUTE that has *)
(* taken it (Own); the entries of the list have different names (NameInv);   *)
(* every function of the registry moves trees between owners or closes the   *)
(* ones it owns.  A registry in the middle of such a function is described   *)
(* by Sound(r, H, m): H are the trees in the caller's hands, m the number of *)
(* trees made so far.                                                        *)
(***************************************************************************)
EXTENDS KeptTrees, SequenceTheorems, FiniteSetTheorems, TLAPS

NodeType == [name : Names \cup {None}, text : Texts \cup {None}, sid : 0 .. MaxSessions, sig : Sigs]
Registries ==
    [list : Seq(Trees), node : [Trees -> NodeType], plans : [Trees -> Seq(Trees)],
     closes : [Trees -> 0 .. 1]]

NoDup(s) == \A i, j \in 1 .. Len(s) : s[i] = s[j] => i = j

\* One owner each: L is on the list, P[u] are the plans kept with u, H is in hand.
Own(L, P, C, H, m) ==
    /\ L \subseteq Trees /\ P \in [Trees -> SUBSET Trees] /\ C \in [Trees -> 0 .. 1]
    /\ m \in 0 .. MaxTrees /\ H \subseteq Trees
    /\ L \cap H = {}
    /\ \A u \in Trees : P[u] \cap (L \cup H) = {}
    /\ \A u, v \in Trees : u # v => P[u] \cap P[v] = {}
    /\ \A u \in Trees : P[u] # {} => u \in L \cup H
    /\ \A t \in Trees : (t \in L \cup H \/ \E u \in Trees : t \in P[u]) <=> t <= m /\ C[t] = 0
    /\ \A t \in Trees : t > m => C[t] = 0

PlanSets(r) == [u \in Trees |-> Elems(r.plans[u])]

\* The entries of the list have names, all different; what is in hand has one.
NameInv(r, H) ==
    /\ \A t \in Elems(r.list) \cup H : r.node[t].name \in Names
    /\ \A i, j \in 1 .. Len(r.list) : r.node[r.list[i]].name = r.node[r.list[j]].name => i = j

\* No tree is twice in a sequence, and no tree has more plans than are kept.
SeqInv(r) ==
    /\ NoDup(r.list)
    /\ \A u \in Trees : NoDup(r.plans[u]) /\ Len(r.plans[u]) <= MaxPlans

Sound(r, H, m) ==
    /\ r \in Registries
    /\ Own(Elems(r.list), PlanSets(r), r.closes, H, m)
    /\ NameInv(r, H) /\ SeqInv(r)

\* The trees of S are what they were.
Same(c, r, S) == \A t \in S : c.node[t] = r.node[t]

\* G is closed, T with its plans, and what T held is freed.
Closing(P, C, H, T, G, P2, C2) ==
    /\ T \subseteq H
    /\ G \in SUBSET Trees /\ \A x \in Trees : x \in G <=> x \in T \/ \E t \in T : x \in P[t]
    /\ C2 \in [Trees -> Int]
    /\ \A t \in Trees : C2[t] = IF t \in G /\ C[t] < 2 THEN C[t] + 1 ELSE C[t]
    /\ P2 \in [Trees -> SUBSET Trees] /\ \A t \in Trees : P2[t] = IF t \in T THEN {} ELSE P[t]

\* The tree e and its plans become the plans K of t, but for O, which is closed.
Absorbing(P, C, H, e, t, K, O, P2, C2) ==
    /\ e \in H /\ t \in H /\ e # t /\ P[t] = {}
    /\ K \cup O = {e} \cup P[e] /\ K \cap O = {} /\ e \in K
    /\ C2 \in [Trees -> 0 .. 1] /\ \A x \in Trees : C2[x] = IF x \in O THEN 1 ELSE C[x]
    /\ P2 \in [Trees -> SUBSET Trees]
    /\ \A x \in Trees : P2[x] = IF x = e THEN {} ELSE IF x = t THEN K ELSE P[x]

\* The tree e with its plans s, split into the ones that fit and those past the limit.
Split(e, s, F, O) ==
    /\ F \in Seq(Trees) /\ NoDup(F) /\ Len(F) <= MaxPlans
    /\ Elems(F) \cup O = {e} \cup Elems(s) /\ Elems(F) \cap O = {} /\ e \in Elems(F)

NoPlans(r, t) == Elems(r.plans[t]) = {}

\* The steps of db_prepared_tree_register.
Naming(r, t, d) == [r EXCEPT !.node[t] = d]
Moving(r, e, t, F, O) ==
    db_close_session_local([r EXCEPT !.plans[e] = <<>>, !.node[e].name = None, !.plans[t] = F], O)

-----------------------------------------------------------------------------
(* Owners *)

\* A tree is taken off the list.
LEMMA OwnTake ==
    ASSUME NEW L, NEW P, NEW C, NEW H, NEW m, Own(L, P, C, H, m), NEW e \in L
    PROVE  Own(L \ {e}, P, C, H \cup {e}, m) /\ e \notin H
  BY DEF Own

\* A tree in hand goes to the list.
LEMMA OwnGive ==
    ASSUME NEW L, NEW P, NEW C, NEW H, NEW m, Own(L, P, C, H, m), NEW e \in H
    PROVE  Own(L \cup {e}, P, C, H \ {e}, m) /\ e \notin L
  BY DEF Own

\* Trees in hand are closed, with the plans kept with them.
LEMMA OwnClose ==
    ASSUME NEW L, NEW P, NEW C, NEW H, NEW m, Own(L, P, C, H, m), NEW T,
           NEW G, NEW P2, NEW C2, Closing(P, C, H, T, G, P2, C2)
    PROVE  Own(L, P2, C2, H \ T, m)
<1> USE DEF Closing
<1>1. G \subseteq Trees /\ \A x \in G : x \in T \/ \E t \in T : x \in P[t]
  BY DEF Own
<1>2. \A x \in G : C[x] = 0 /\ x <= m
  BY <1>1 DEF Own
<1>3. G \cap (L \cup (H \ T)) = {}
  BY <1>1 DEF Own
<1>4. C2 \in [Trees -> 0 .. 1] /\ \A t \in Trees : C2[t] = IF t \in G THEN 1 ELSE C[t]
  BY <1>1, <1>2 DEF Own
<1>5. P2 \in [Trees -> SUBSET Trees] /\ \A t \in Trees : P2[t] = IF t \in T THEN {} ELSE P[t]
  BY DEF Own
<1>6. ASSUME NEW t \in Trees
      PROVE  /\ (t \in L \cup (H \ T) \/ \E u \in Trees : t \in P2[u]) <=> t <= m /\ C2[t] = 0
             /\ t > m => C2[t] = 0
  <2>1. CASE t \in G
    <3>1. ~(\E u \in Trees : t \in P2[u])
      BY <1>1, <1>5, <2>1 DEF Own
    <3>2. t \in Int /\ m \in Int
      BY DEF Own, Trees
    <3>3. QED
      BY <1>2, <1>3, <1>4, <2>1, <3>1, <3>2
  <2>2. CASE t \notin G
    <3>1. (\E u \in Trees : t \in P2[u]) <=> \E u \in Trees : t \in P[u]
      BY <1>5, <2>2 DEF Own
    <3>2. t \in T => FALSE
      BY <2>2
    <3>3. QED
      BY <1>4, <2>2, <3>1, <3>2 DEF Own
  <2>3. QED
    BY <2>1, <2>2
<1>7. QED
  BY <1>4, <1>5, <1>6 DEF Own

\* A compiled tree is in hand at first.
LEMMA OwnNew ==
    ASSUME NEW L, NEW P, NEW C, NEW H, NEW m, Own(L, P, C, H, m), m < MaxTrees
    PROVE  /\ Own(L, P, C, H \cup {m + 1}, m + 1) /\ m + 1 \in Trees
           /\ m + 1 \notin L \cup H /\ P[m + 1] = {}
<1>1. m + 1 \in Trees /\ m + 1 \in 0 .. MaxTrees /\ ~(m + 1 <= m) /\ C[m + 1] = 0
  BY KeptTreesAssumption DEF Own, Trees
<1>2. m + 1 \notin L \cup H /\ \A u \in Trees : m + 1 \notin P[u]
  BY <1>1 DEF Own
<1>3. P[m + 1] = {}
  BY <1>1, <1>2 DEF Own
<1>4. \A t \in Trees : t \in Int /\ m \in Int
  BY KeptTreesAssumption DEF Own, Trees
<1>5. QED
  BY <1>1, <1>2, <1>3, <1>4 DEF Own

\* A tree in hand becomes, with its plans, the plans K of a new one; O is past the
\* limit and closed.
LEMMA OwnAbsorb ==
    ASSUME NEW L, NEW P, NEW C, NEW H, NEW m, Own(L, P, C, H, m),
           NEW e, NEW t, NEW K, NEW O, NEW P2, NEW C2, Absorbing(P, C, H, e, t, K, O, P2, C2)
    PROVE  Own(L, P2, C2, H \ {e}, m)
<1> USE DEF Absorbing
<1>1. e \in Trees /\ t \in Trees /\ P[e] \subseteq Trees
  BY DEF Own
<1>2. O \subseteq P[e] /\ O \cap (L \cup H) = {} /\ \A u \in Trees : u # e => P[u] \cap (K \cup O) = {}
  BY <1>1 DEF Own
<1>3. ASSUME NEW x \in Trees
      PROVE  (\E u \in Trees : x \in P2[u]) <=>
               \/ x \in K
               \/ x \notin O /\ \E u \in Trees : x \in P[u]
  <2>1. ASSUME NEW u \in Trees, x \in P2[u] PROVE x \in K \/ (x \notin O /\ x \in P[u])
    BY <1>1, <1>2, <2>1 DEF Own
  <2>2. x \in K => x \in P2[t]
    BY <1>1
  <2>3. ASSUME NEW u \in Trees, x \in P[u], x \notin O PROVE x \in P2[t] \/ x \in P2[u]
    BY <1>1, <2>3 DEF Own
  <2>4. QED
    BY <1>1, <2>1, <2>2, <2>3
<1>4. ASSUME NEW x \in Trees
      PROVE  (x \in L \cup (H \ {e}) \/ \E u \in Trees : x \in P2[u]) <=> x <= m /\ C2[x] = 0
  <2>1. (x \in L \cup H \/ \E u \in Trees : x \in P[u]) <=> x <= m /\ C[x] = 0
    BY DEF Own
  <2>2. CASE x \in O
    BY <1>2, <1>3, <2>2 DEF Own
  <2>3. CASE x \in K
    BY <1>1, <1>3, <2>1, <2>3
  <2>4. CASE x \notin K \cup O
    BY <1>3, <2>1, <2>4
  <2>5. QED
    BY <2>2, <2>3, <2>4
<1>5. \A x \in Trees : x > m => C2[x] = 0
  <2>1. \A x \in O : x <= m
    BY <1>1, <1>2 DEF Own
  <2>2. \A x \in Trees : x \in Int /\ m \in Int
    BY DEF Own, Trees
  <2>3. QED
    BY <2>1, <2>2 DEF Own
<1>6. \A u \in Trees : P2[u] \cap (L \cup (H \ {e})) = {}
  BY <1>1, <1>2 DEF Own
<1>7. \A u, v \in Trees : u # v => P2[u] \cap P2[v] = {}
  BY <1>1, <1>2 DEF Own
<1>8. \A u \in Trees : P2[u] # {} => u \in L \cup (H \ {e})
  BY <1>1 DEF Own
<1>9. QED
  BY <1>4, <1>5, <1>6, <1>7, <1>8 DEF Own

-----------------------------------------------------------------------------
(* Sequences *)

\* The elements of a sequence of trees.
LEMMA ElemsIs ==
    ASSUME NEW s \in Seq(Trees)
    PROVE  Elems(s) = {s[i] : i \in 1 .. Len(s)} /\ Elems(s) \subseteq Trees
  BY DEF Elems

\* A sequence without its i-th element.
LEMMA WithoutFacts ==
    ASSUME NEW s \in Seq(Trees), NEW i \in 1 .. Len(s), NoDup(s)
    PROVE  /\ Without(s, i) \in Seq(Trees) /\ NoDup(Without(s, i))
           /\ Elems(Without(s, i)) = Elems(s) \ {s[i]}
           /\ \A j \in 1 .. Len(Without(s, i)) : \E k \in 1 .. Len(s) :
                k # i /\ Without(s, i)[j] = s[k]
<1> DEFINE a == SubSeq(s, 1, i - 1)
           b == SubSeq(s, i + 1, Len(s))
           w == a \o b
           n == Len(s)
<1>0. n \in Nat /\ i \in Int /\ 1 <= i /\ i <= n /\ \A j \in 1 .. n : s[j] \in Trees
  OBVIOUS
<1>1. /\ a \in Seq(Trees) /\ Len(a) = i - 1 /\ \A j \in 1 .. i - 1 : a[j] = s[j]
  <2>1. 1 \in 1 .. n + 1 /\ i - 1 \in 1 - 1 .. n /\ (i - 1) - 1 + 1 = i - 1
    BY <1>0
  <2>2. \A j \in 1 .. i - 1 : 1 + j - 1 = j /\ j \in 1 .. n
    BY <1>0
  <2>3. QED
    BY <1>0, <2>1, <2>2, SubSeqProperties
<1>2. /\ b \in Seq(Trees) /\ Len(b) = n - i /\ \A j \in 1 .. n - i : b[j] = s[i + j]
  <2>1. i + 1 \in Int /\ n \in Int /\ n - (i + 1) + 1 = n - i /\ (i + 1 <= n \/ n - i = 0)
    BY <1>0
  <2>2. \A j \in 1 .. n - i : (i + 1) + j - 1 = i + j /\ i + j \in 1 .. n
    BY <1>0
  <2>3. \A j \in i + 1 .. n : s[j] \in Trees
    BY <1>0
  <2>4. /\ b \in Seq(Trees) /\ Len(b) = IF i + 1 <= n THEN n - (i + 1) + 1 ELSE 0
        /\ \A j \in 1 .. n - (i + 1) + 1 : b[j] = s[(i + 1) + j - 1]
    <3> DEFINE x == i + 1
    <3>1. x \in Int /\ \A j \in x .. n : s[j] \in Trees
      BY <2>1, <2>3
    <3> HIDE DEF x, n
    <3>2. /\ SubSeq(s, x, n) \in Seq(Trees) /\ Len(SubSeq(s, x, n)) = IF x <= n THEN n - x + 1 ELSE 0
          /\ \A j \in 1 .. n - x + 1 : SubSeq(s, x, n)[j] = s[x + j - 1]
      BY <2>1, <3>1, SubSeqProperties
    <3>3. QED
      BY <3>2 DEF x, n
  <2>5. QED
    BY <2>1, <2>2, <2>4
<1> HIDE DEF a, b
<1>3. /\ w \in Seq(Trees) /\ Len(w) = n - 1
      /\ \A j \in 1 .. n - 1 : w[j] = IF j < i THEN s[j] ELSE s[j + 1]
  <2>1. w \in Seq(Trees) /\ Len(w) = Len(a) + Len(b) /\ Len(w) = n - 1
    <3>1. w \in Seq(Trees) /\ Len(w) = Len(a) + Len(b)
      BY <1>1, <1>2, ConcatProperties
    <3>2. QED
      BY <1>0, <1>1, <1>2, <3>1
  <2>2. ASSUME NEW j \in 1 .. n - 1, j < i PROVE w[j] = s[j]
    <3>1. j \in 1 .. Len(a)
      BY <1>0, <1>1, <2>2
    <3>2. QED
      BY <1>1, <1>2, <3>1, ConcatProperties
  <2>3. ASSUME NEW j \in 1 .. n - 1, ~(j < i) PROVE w[j] = s[j + 1]
    <3>1. j \in 1 .. Len(a) + Len(b) /\ j > Len(a)
      BY <1>0, <1>1, <1>2, <2>3
    <3>2. w[j] = b[j - Len(a)]
      BY <1>1, <1>2, <3>1, ConcatProperties
    <3>3. j - Len(a) \in 1 .. n - i /\ i + (j - Len(a)) = j + 1
      BY <1>0, <1>1, <2>3
    <3>4. QED
      BY <1>2, <3>2, <3>3
  <2>4. QED
    BY <2>1, <2>2, <2>3
<1> HIDE DEF w
<1>4. Without(s, i) = w
  BY DEF Without, a, b, w
<1>5. ASSUME NEW j \in 1 .. Len(w)
      PROVE  \E k \in 1 .. n : k # i /\ w[j] = s[k] /\ k = IF j < i THEN j ELSE j + 1
  BY <1>0, <1>3
<1>6. NoDup(w)
  <2>1. SUFFICES ASSUME NEW j \in 1 .. Len(w), NEW l \in 1 .. Len(w), w[j] = w[l] PROVE j = l
    BY DEF NoDup
  <2>2. PICK x \in 1 .. n : w[j] = s[x] /\ x = IF j < i THEN j ELSE j + 1
    BY <1>5
  <2>3. PICK y \in 1 .. n : w[l] = s[y] /\ y = IF l < i THEN l ELSE l + 1
    BY <1>5
  <2>4. x = y
    BY <2>1, <2>2, <2>3 DEF NoDup
  <2>5. QED
    BY <1>0, <1>3, <2>2, <2>3, <2>4
<1>7. Elems(w) = Elems(s) \ {s[i]}
  <2>1. ASSUME NEW x \in Elems(w) PROVE x \in Elems(s) /\ x # s[i]
    <3>1. PICK j \in 1 .. Len(w) : x = w[j]
      BY <1>3, ElemsIs
    <3>2. PICK k \in 1 .. n : k # i /\ w[j] = s[k]
      BY <1>5
    <3>3. QED
      BY <3>1, <3>2, ElemsIs DEF NoDup
  <2>2. ASSUME NEW x \in Elems(s), x # s[i] PROVE x \in Elems(w)
    <3>1. PICK k \in 1 .. n : x = s[k]
      BY ElemsIs
    <3>2. k # i
      BY <2>2, <3>1
    <3>3. CASE k < i
      BY <1>0, <1>3, <3>1, <3>3, ElemsIs
    <3>4. CASE k > i
      <4>1. k - 1 \in 1 .. n - 1 /\ ~(k - 1 < i) /\ (k - 1) + 1 = k
        BY <1>0, <3>4
      <4>2. QED
        BY <1>3, <3>1, <4>1, ElemsIs
    <3>5. QED
      BY <1>0, <3>2, <3>3, <3>4
  <2>3. QED
    BY <2>1, <2>2
<1>8. QED
  BY <1>3, <1>4, <1>5, <1>6, <1>7

\* A sequence with a new first element.
LEMMA FrontFacts ==
    ASSUME NEW s \in Seq(Trees), NEW t \in Trees
    PROVE  /\ <<t>> \o s \in Seq(Trees) /\ Len(<<t>> \o s) = Len(s) + 1
           /\ (<<t>> \o s)[1] = t /\ \A j \in 2 .. Len(s) + 1 : (<<t>> \o s)[j] = s[j - 1]
           /\ Elems(<<t>> \o s) = {t} \cup Elems(s)
           /\ NoDup(s) /\ t \notin Elems(s) => NoDup(<<t>> \o s)
<1> DEFINE w == <<t>> \o s
<1>1. <<t>> \in Seq(Trees) /\ Len(<<t>>) = 1 /\ <<t>>[1] = t
  OBVIOUS
<1>2. /\ w \in Seq(Trees) /\ Len(w) = Len(s) + 1 /\ Len(s) \in Nat
      /\ w[1] = t /\ \A j \in 2 .. Len(s) + 1 : w[j] = s[j - 1]
  BY <1>1, ConcatProperties
<1> HIDE DEF w
<1>3. Elems(w) = {t} \cup Elems(s)
  <2>1. ASSUME NEW x \in Elems(w) PROVE x \in {t} \cup Elems(s)
    <3>1. PICK j \in 1 .. Len(w) : x = w[j]
      BY <1>2, ElemsIs
    <3>2. j = 1 \/ (j \in 2 .. Len(s) + 1 /\ j - 1 \in 1 .. Len(s))
      BY <1>2
    <3>3. QED
      BY <1>2, <3>1, <3>2, ElemsIs
  <2>2. ASSUME NEW x \in Elems(s) PROVE x \in Elems(w)
    <3>1. PICK j \in 1 .. Len(s) : x = s[j]
      BY ElemsIs
    <3>2. j + 1 \in 2 .. Len(s) + 1 /\ (j + 1) - 1 = j /\ j + 1 \in 1 .. Len(w)
      BY <1>2
    <3>3. w[j + 1] = s[j]
      BY <1>2, <3>2
    <3>4. QED
      BY <1>2, <3>1, <3>2, <3>3, ElemsIs
  <2>3. t \in Elems(w)
    BY <1>2, ElemsIs
  <2>4. QED
    BY <2>1, <2>2, <2>3
<1>4. ASSUME NoDup(s), t \notin Elems(s) PROVE NoDup(w)
  <2>1. SUFFICES ASSUME NEW j \in 1 .. Len(w), NEW l \in 1 .. Len(w), w[j] = w[l] PROVE j = l
    BY DEF NoDup
  <2>2. \A x \in 1 .. Len(w) :
          x = 1 \/ (x \in 2 .. Len(s) + 1 /\ x - 1 \in 1 .. Len(s) /\ w[x] = s[x - 1] /\ w[x] \in Elems(s))
    BY <1>2, ElemsIs
  <2>3. j = 1 <=> l = 1
    BY <1>2, <1>4, <2>1, <2>2
  <2>4. CASE j # 1 /\ l # 1
    <3>1. s[j - 1] = s[l - 1] /\ j - 1 \in 1 .. Len(s) /\ l - 1 \in 1 .. Len(s)
      BY <2>1, <2>2, <2>4
    <3>2. j - 1 = l - 1
      BY <1>4, <3>1 DEF NoDup
    <3>3. QED
      BY <1>2, <3>2
  <2>5. QED
    BY <2>3, <2>4
<1>5. QED
  BY <1>2, <1>3, <1>4 DEF w

-----------------------------------------------------------------------------
(* The registry *)

\* The entry of a name is the one tree of the list with that name.
LEMMA EntryFacts ==
    ASSUME NEW r, NEW H, NEW m, Sound(r, H, m), NEW n \in Names
    PROVE  \/ At(r, n) = {} /\ Entry(r, n) = None
           \/ \E i \in 1 .. Len(r.list) :
                /\ At(r, n) = {i} /\ First(At(r, n)) = i /\ Entry(r, n) = r.list[i]
                /\ r.list[i] \in Elems(r.list) /\ r.list[i] \in Trees /\ r.list[i] # None
                /\ r.node[r.list[i]].name = n
<1>1. CASE At(r, n) = {}
  BY <1>1 DEF Entry
<1>2. CASE At(r, n) # {}
  <2>0. r.list \in Seq(Trees) /\ DOMAIN r.list = 1 .. Len(r.list)
    BY DEF Sound, Registries
  <2>1. PICK i \in 1 .. Len(r.list) : i \in At(r, n)
    BY <1>2, <2>0 DEF At
  <2>2. r.node[r.list[i]].name = n /\ r.list[i] \in Trees
    BY <2>0, <2>1 DEF At
  <2>3. At(r, n) = {i}
    BY <2>0, <2>1, <2>2 DEF At, Sound, NameInv
  <2>4. First({i}) = i
    BY <2>1 DEF First
  <2>5. r.list[i] \in Elems(r.list) /\ r.list[i] # None
    BY <2>0, <2>2, KeptTreesAssumption DEF Elems, Trees
  <2>6. QED
    BY <1>2, <2>1, <2>2, <2>3, <2>4, <2>5 DEF Entry
<1>3. QED
  BY <1>1, <1>2

\* Taking an entry off the list puts it in the caller's hands; the name is free.
LEMMA UnlinkSound ==
    ASSUME NEW r, NEW H, NEW m, Sound(r, H, m), NEW n \in Names, Entry(r, n) # None
    PROVE  LET e == Entry(r, n)
               u == db_prepared_tree_unlink(r, n)
           IN  /\ Sound(u, H \cup {e}, m) /\ e \in Elems(r.list) /\ e \notin H
               /\ e \in Trees /\ r.node[e].name = n
               /\ Elems(u.list) = Elems(r.list) \ {e}
               /\ u.node = r.node /\ u.plans = r.plans /\ u.closes = r.closes
               /\ \A t \in Elems(u.list) : u.node[t].name # n
<1>1. PICK i \in 1 .. Len(r.list) :
        /\ At(r, n) = {i} /\ First(At(r, n)) = i /\ Entry(r, n) = r.list[i]
        /\ r.list[i] \in Elems(r.list) /\ r.list[i] \in Trees
        /\ r.node[r.list[i]].name = n
  BY EntryFacts
<1> DEFINE e == r.list[i]
           l == Without(r.list, i)
           u == [r EXCEPT !.list = l]
<1>2. db_prepared_tree_unlink(r, n) = u
  BY <1>1 DEF db_prepared_tree_unlink
<1>3. r \in Registries /\ r.list \in Seq(Trees) /\ NoDup(r.list)
  BY DEF Sound, Registries, SeqInv
<1>4. /\ l \in Seq(Trees) /\ NoDup(l) /\ Elems(l) = Elems(r.list) \ {e}
      /\ \A j \in 1 .. Len(l) : \E k \in 1 .. Len(r.list) : k # i /\ l[j] = r.list[k]
  BY <1>3, WithoutFacts
<1> HIDE DEF l
<1>5. /\ u \in Registries /\ u.list = l /\ u.node = r.node /\ u.plans = r.plans
      /\ u.closes = r.closes
  BY <1>3, <1>4 DEF Registries
<1> HIDE DEF u
<1>6. Own(Elems(u.list), PlanSets(u), u.closes, H \cup {e}, m) /\ e \notin H
  <2>1. PlanSets(u) = PlanSets(r)
    BY <1>5 DEF PlanSets
  <2>2. Own(Elems(r.list), PlanSets(r), r.closes, H, m) /\ e \in Elems(r.list)
    BY <1>1 DEF Sound
  <2> HIDE DEF e
  <2>3. Own(Elems(r.list) \ {e}, PlanSets(r), r.closes, H \cup {e}, m) /\ e \notin H
    BY <2>2, OwnTake
  <2>4. QED
    BY <1>4, <1>5, <2>1, <2>3
<1>7. \A x \in Elems(l) : \E k \in 1 .. Len(r.list) : k # i /\ x = r.list[k]
  BY <1>4, ElemsIs
<1>8. \A x \in Elems(l) : r.node[x].name # n
  BY <1>1, <1>7 DEF Sound, NameInv
<1>9. NameInv(u, H \cup {e})
  <2>1. \A t \in Elems(u.list) \cup (H \cup {e}) : u.node[t].name \in Names
    BY <1>1, <1>4, <1>5 DEF Sound, NameInv
  <2>2. ASSUME NEW x \in 1 .. Len(l), NEW y \in 1 .. Len(l),
               r.node[l[x]].name = r.node[l[y]].name
        PROVE  x = y
    <3>1. PICK a \in 1 .. Len(r.list) : l[x] = r.list[a]
      BY <1>4
    <3>2. PICK b \in 1 .. Len(r.list) : l[y] = r.list[b]
      BY <1>4
    <3>3. a = b
      BY <2>2, <3>1, <3>2 DEF Sound, NameInv
    <3>4. QED
      BY <1>4, <3>1, <3>2, <3>3 DEF NoDup
  <2>3. QED
    BY <1>5, <2>1, <2>2 DEF NameInv
<1>10. SeqInv(u)
  BY <1>4, <1>5 DEF SeqInv, Sound
<1>11. Sound(u, H \cup {e}, m)
  BY <1>5, <1>6, <1>9, <1>10 DEF Sound
<1>12. QED
  BY <1>1, <1>2, <1>4, <1>5, <1>6, <1>8, <1>11

\* Closing what is in hand.
LEMMA CloseSound ==
    ASSUME NEW r, NEW H, NEW m, Sound(r, H, m), NEW T \in SUBSET H
    PROVE  LET c == db_close_session_local(r, T)
           IN  /\ Sound(c, H \ T, m) /\ c.list = r.list
               /\ Same(c, r, Elems(r.list)) /\ Same(c, r, H \ T)
<1> DEFINE G == T \cup UNION {Elems(r.plans[t]) : t \in T}
           C2 == [t \in Trees |-> IF t \in G /\ r.closes[t] < 2
                                  THEN r.closes[t] + 1 ELSE r.closes[t]]
           N2 == [t \in Trees |-> IF t \in G THEN NoNode ELSE r.node[t]]
           P2 == [t \in Trees |-> IF t \in T THEN <<>> ELSE r.plans[t]]
           c == [r EXCEPT !.closes = C2, !.node = N2, !.plans = P2]
           PS2 == [t \in Trees |-> IF t \in T THEN {} ELSE PlanSets(r)[t]]
<1>0. /\ r \in Registries /\ Own(Elems(r.list), PlanSets(r), r.closes, H, m)
      /\ H \subseteq Trees /\ T \subseteq Trees
  BY DEF Sound, Own
<1>1. db_close_session_local(r, T) = c
  BY DEF db_close_session_local
<1>2. G = T \cup UNION {PlanSets(r)[t] : t \in T}
  BY <1>0 DEF PlanSets
<1>3. /\ Own(Elems(r.list), PS2, C2, H \ T, m) /\ G \cap (Elems(r.list) \cup (H \ T)) = {}
  <2> DEFINE L == Elems(r.list)
             P == PlanSets(r)
             C == r.closes
  <2>1. /\ C2 \in [Trees -> Int]
        /\ \A t \in Trees : C2[t] = IF t \in G /\ C[t] < 2 THEN C[t] + 1 ELSE C[t]
    BY <1>0 DEF Own
  <2>2. PS2 \in [Trees -> SUBSET Trees] /\ \A t \in Trees : PS2[t] = IF t \in T THEN {} ELSE P[t]
    BY <1>0 DEF Own
  <2>3. /\ Own(L, P, C, H, m) /\ G \in SUBSET Trees
        /\ \A x \in Trees : x \in G <=> x \in T \/ \E t \in T : x \in P[t]
    BY <1>0, <1>2 DEF Own
  <2> HIDE DEF L, P, C, C2, PS2, G
  <2>4. Closing(P, C, H, T, G, PS2, C2)
    BY <2>1, <2>2, <2>3 DEF Closing
  <2>5. Own(L, P, C, H, m)
    BY <2>3
  <2> HIDE DEF N2, P2, c
  <2>6. Own(L, PS2, C2, H \ T, m)
    BY <2>4, <2>5, OwnClose
  <2>7. G \cap (L \cup (H \ T)) = {}
    <3>1. \A x \in G : x \in T \/ \E t \in T : x \in P[t]
      BY <2>3
    <3>2. QED
      BY <2>5, <3>1 DEF Own
  <2>8. QED
    BY <2>6, <2>7 DEF L
<1>4. NoNode \in NodeType
  BY KeptTreesAssumption DEF NoNode, NodeType
<1>5. C2 \in [Trees -> 0 .. 1]
  BY <1>3 DEF Own
<1>6. N2 \in [Trees -> NodeType] /\ P2 \in [Trees -> Seq(Trees)]
  BY <1>0, <1>4 DEF Registries
<1> HIDE DEF C2, N2, P2
<1>7. c \in Registries /\ c.list = r.list /\ c.node = N2 /\ c.plans = P2 /\ c.closes = C2
  BY <1>0, <1>5, <1>6 DEF Registries
<1> HIDE DEF c
<1>8. PlanSets(c) = PS2
  <2>1. Elems(<<>>) = {}
    BY DEF Elems
  <2>2. QED
    BY <1>7, <2>1 DEF PlanSets, P2
<1> HIDE DEF PS2
<1>9. \A t \in Elems(r.list) \cup (H \ T) : c.node[t] = r.node[t]
  <2>1. Elems(r.list) \subseteq Trees
    BY <1>0 DEF Own
  <2>2. QED
    BY <1>0, <1>3, <1>7, <2>1 DEF N2
<1>10. NameInv(c, H \ T)
  <2>1. \A i \in 1 .. Len(r.list) : r.list[i] \in Elems(r.list)
    BY <1>0, ElemsIs DEF Registries
  <2>2. QED
    BY <1>7, <1>9, <2>1 DEF Sound, NameInv
<1>11. SeqInv(c)
  <2>1. NoDup(<<>>) /\ Len(<<>>) <= MaxPlans
    BY KeptTreesAssumption DEF NoDup
  <2>2. QED
    BY <1>7, <2>1 DEF SeqInv, Sound, P2
<1>12. QED
  BY <1>1, <1>3, <1>7, <1>8, <1>9, <1>10, <1>11 DEF Sound, Same

\* Releasing the entry of a name: it is closed and the name is free.
LEMMA RemoveSound ==
    ASSUME NEW r, NEW H, NEW m, Sound(r, H, m), NEW n \in Names
    PROVE  LET c == db_prepared_tree_remove(r, n)
           IN  /\ Sound(c, H, m)
               /\ \A t \in Elems(c.list) : t \in Elems(r.list) /\ r.node[t].name # n /\ c.node[t] = r.node[t]
<1> DEFINE e == Entry(r, n)
           u == db_prepared_tree_unlink(r, n)
           c == db_close_session_local(u, {e})
<1>1. CASE e = None
  <2>1. db_prepared_tree_remove(r, n) = r
    BY <1>1 DEF db_prepared_tree_remove
  <2>2. At(r, n) = {} /\ r.list \in Seq(Trees)
    BY <1>1, EntryFacts DEF Sound, Registries
  <2>3. \A t \in Elems(r.list) : r.node[t].name # n
    BY <2>2 DEF At, Elems
  <2>4. QED
    BY <2>1, <2>3
<1>2. CASE e # None
  <2>1. /\ Sound(u, H \cup {e}, m) /\ e \notin H /\ u.node = r.node
        /\ Elems(u.list) = Elems(r.list) \ {e}
        /\ \A t \in Elems(u.list) : u.node[t].name # n
    BY <1>2, UnlinkSound
  <2>2. db_prepared_tree_remove(r, n) = c
    BY <1>2 DEF db_prepared_tree_remove, db_prepared_tree_close
  <2> HIDE DEF u, e
  <2> DEFINE K == H \cup {e}
             T == {e}
  <2>3. K \ T = H /\ T \in SUBSET K /\ Sound(u, K, m)
    BY <2>1
  <2> HIDE DEF K, T
  <2>4. LET d == db_close_session_local(u, T)
        IN  Sound(d, K \ T, m) /\ d.list = u.list /\ Same(d, u, Elems(u.list))
    BY <2>3, CloseSound
  <2>5. QED
    BY <2>1, <2>2, <2>3, <2>4 DEF T, Same
<1>3. QED
  BY <1>1, <1>2

\* A tree in hand heads the list when its name is free.
LEMMA PushSound ==
    ASSUME NEW r, NEW H, NEW m, Sound(r, H, m), NEW t \in H,
           \A x \in Elems(r.list) : r.node[x].name # r.node[t].name
    PROVE  LET p == [r EXCEPT !.list = <<t>> \o @]
           IN  Sound(p, H \ {t}, m) /\ Elems(p.list) = {t} \cup Elems(r.list) /\ p.node = r.node
<1> DEFINE l == <<t>> \o r.list
           p == [r EXCEPT !.list = l]
           L == Elems(r.list)
<1>1. /\ r \in Registries /\ r.list \in Seq(Trees) /\ t \in Trees /\ NoDup(r.list)
      /\ Own(L, PlanSets(r), r.closes, H, m) /\ L \in SUBSET Trees
  BY DEF Sound, Registries, SeqInv, Own
<1>2. Own(L \cup {t}, PlanSets(r), r.closes, H \ {t}, m) /\ t \notin L
  <2> HIDE DEF L
  <2> QED  BY <1>1, OwnGive
<1>3. /\ l \in Seq(Trees) /\ Len(l) = Len(r.list) + 1 /\ Len(r.list) \in Nat
      /\ l[1] = t /\ \A j \in 2 .. Len(r.list) + 1 : l[j] = r.list[j - 1]
      /\ Elems(l) = {t} \cup L /\ NoDup(l)
  BY <1>1, <1>2, FrontFacts
<1> HIDE DEF l
<1>4. /\ p \in Registries /\ p.list = l /\ p.node = r.node /\ p.plans = r.plans
      /\ p.closes = r.closes
  BY <1>1, <1>3 DEF Registries
<1> HIDE DEF p
<1>5. Own(Elems(p.list), PlanSets(p), p.closes, H \ {t}, m)
  <2>1. PlanSets(p) = PlanSets(r) /\ Elems(p.list) = L \cup {t}
    BY <1>3, <1>4 DEF PlanSets
  <2>2. QED
    BY <1>2, <1>4, <2>1
<1>6. NameInv(p, H \ {t})
  <2>1. \A x \in Elems(p.list) \cup (H \ {t}) : p.node[x].name \in Names
    BY <1>3, <1>4 DEF Sound, NameInv
  <2>2. ASSUME NEW i \in 1 .. Len(l), NEW j \in 1 .. Len(l),
               r.node[l[i]].name = r.node[l[j]].name
        PROVE  i = j
    <3>1. \A x \in 1 .. Len(l) :
            x = 1 \/ (x - 1 \in 1 .. Len(r.list) /\ l[x] = r.list[x - 1] /\ l[x] \in L)
      <4>1. \A x \in 1 .. Len(l) : x = 1 \/ (x - 1 \in 1 .. Len(r.list) /\ x \in 2 .. Len(r.list) + 1)
        BY <1>3
      <4>2. \A y \in 1 .. Len(r.list) : r.list[y] \in L
        BY <1>1, ElemsIs
      <4>3. QED
        BY <1>3, <4>1, <4>2
    <3>2. i = 1 <=> j = 1
      BY <1>3, <2>2, <3>1
    <3>3. CASE i # 1 /\ j # 1
      <4>1. /\ i - 1 \in 1 .. Len(r.list) /\ j - 1 \in 1 .. Len(r.list)
            /\ r.node[r.list[i - 1]].name = r.node[r.list[j - 1]].name
        BY <2>2, <3>1, <3>3
      <4>2. i - 1 = j - 1
        BY <4>1 DEF Sound, NameInv
      <4>3. QED
        BY <1>3, <4>2
    <3>4. QED
      BY <3>2, <3>3
  <2>3. QED
    BY <1>4, <2>1, <2>2 DEF NameInv
<1>7. SeqInv(p)
  BY <1>3, <1>4 DEF SeqInv, Sound
<1>8. QED
  BY <1>3, <1>4, <1>5, <1>6, <1>7 DEF Sound, p, l

\* The list after put_back: the tree, or its newer entry.
LEMMA PutBackSound ==
    ASSUME NEW r, NEW H, NEW m, Sound(r, H, m), NEW t \in H
    PROVE  LET p == db_prepared_tree_put_back(r, t)
           IN  Sound(p, H \ {t}, m) /\ Elems(p.list) \subseteq {t} \cup Elems(r.list)
<1> DEFINE n == r.node[t].name
<1>1. n \in Names
  BY DEF Sound, NameInv
<1>2. CASE Entry(r, n) # None
  <2>1. db_prepared_tree_put_back(r, t) = db_close_session_local(r, {t})
    BY <1>2 DEF db_prepared_tree_put_back, db_prepared_tree_close
  <2>2. {t} \in SUBSET H
    OBVIOUS
  <2>3. QED
    BY <2>1, <2>2, CloseSound
<1>3. CASE Entry(r, n) = None
  <2>1. db_prepared_tree_put_back(r, t) = [r EXCEPT !.list = <<t>> \o @]
    BY <1>3 DEF db_prepared_tree_put_back
  <2>2. At(r, n) = {}
    BY <1>1, <1>3, EntryFacts
  <2>3. \A x \in Elems(r.list) : r.node[x].name # n
    BY <2>2 DEF At, Elems
  <2>4. QED
    BY <2>1, <2>3, PushSound
<1>4. QED
  BY <1>2, <1>3

\* A compiled tree gets its node and is in hand.
LEMMA NewSound ==
    ASSUME NEW r, NEW H, NEW m, Sound(r, H, m), m < MaxTrees, NEW d \in NodeType, d.name \in Names
    PROVE  LET c == Naming(r, m + 1, d)
           IN  /\ Sound(c, H \cup {m + 1}, m + 1) /\ m + 1 \in Trees
               /\ m + 1 \notin Elems(r.list) /\ m + 1 \notin H
               /\ c.list = r.list /\ c.plans = r.plans /\ c.closes = r.closes /\ c.node[m + 1] = d
               /\ Same(c, r, Elems(r.list)) /\ Same(c, r, H) /\ NoPlans(c, m + 1)
<1> DEFINE k == m + 1
           L == Elems(r.list)
           c == [r EXCEPT !.node[k] = d]
<1>1. /\ r \in Registries /\ Own(L, PlanSets(r), r.closes, H, m) /\ L \in SUBSET Trees
      /\ H \in SUBSET Trees /\ r.list \in Seq(Trees)
  BY DEF Sound, Own, Registries
<1>2. /\ Own(L, PlanSets(r), r.closes, H \cup {k}, k) /\ k \in Trees
      /\ k \notin L \cup H /\ PlanSets(r)[k] = {}
  <2> HIDE DEF L
  <2> QED  BY <1>1, OwnNew
<1> HIDE DEF k
<1>3. /\ c \in Registries /\ c.list = r.list /\ c.plans = r.plans /\ c.closes = r.closes
      /\ c.node[k] = d /\ \A t \in Trees : t # k => c.node[t] = r.node[t]
  <2>1. [r.node EXCEPT ![k] = d] \in [Trees -> NodeType] /\ k \in DOMAIN r.node
    BY <1>1, <1>2 DEF Registries
  <2>2. QED
    BY <1>1, <1>2, <2>1 DEF Registries
<1> HIDE DEF c
<1>4. \A t \in L \cup H : c.node[t] = r.node[t]
  BY <1>1, <1>2, <1>3
<1>5. PlanSets(c) = PlanSets(r)
  BY <1>3 DEF PlanSets
<1>6. NameInv(c, H \cup {k})
  <2>1. \A i \in 1 .. Len(r.list) : r.list[i] \in L
    BY <1>1, ElemsIs
  <2>2. QED
    BY <1>3, <1>4, <2>1 DEF Sound, NameInv
<1>7. SeqInv(c)
  BY <1>3 DEF Sound, SeqInv
<1>8. Elems(c.plans[k]) = {}
  BY <1>2, <1>3 DEF PlanSets
<1>9. Sound(c, H \cup {k}, k)
  BY <1>2, <1>3, <1>5, <1>6, <1>7 DEF Sound
<1>10. QED
  BY <1>2, <1>3, <1>4, <1>8, <1>9 DEF Same, k, c, Naming, NoPlans

\* The first plans of a chain of trees, and the ones past the limit.
LEMMA ChainFacts ==
    ASSUME NEW s \in Seq(Trees), NEW e \in Trees, NoDup(s), e \notin Elems(s), Len(s) <= MaxPlans
    PROVE  LET chain == <<e>> \o s
               fit   == IF Len(chain) <= MaxPlans THEN chain ELSE SubSeq(chain, 1, MaxPlans)
               over  == {chain[i] : i \in (MaxPlans + 1) .. Len(chain)}
           IN  Split(e, s, fit, over)
<1> DEFINE chain == <<e>> \o s
           over  == {chain[i] : i \in (MaxPlans + 1) .. Len(chain)}
<1>1. /\ chain \in Seq(Trees) /\ Len(chain) = Len(s) + 1 /\ Len(s) \in Nat /\ chain[1] = e
      /\ Elems(chain) = {e} \cup Elems(s) /\ NoDup(chain)
  BY FrontFacts
<1>2. MaxPlans \in Nat /\ MaxPlans >= 1
  BY KeptTreesAssumption
<1> HIDE DEF chain
<1>3. Elems(chain) = {chain[i] : i \in 1 .. Len(chain)}
  BY <1>1, ElemsIs
<1>4. CASE Len(chain) <= MaxPlans
  <2>1. over = {}
    BY <1>1, <1>2, <1>4
  <2>2. e \in Elems(chain)
    BY <1>1
  <2>3. QED
    BY <1>1, <1>4, <2>1, <2>2 DEF chain, Split
<1>5. CASE ~(Len(chain) <= MaxPlans)
  <2> DEFINE fit == SubSeq(chain, 1, MaxPlans)
  <2>1. fit \in Seq(Trees) /\ Len(fit) = MaxPlans /\ \A j \in 1 .. MaxPlans : fit[j] = chain[j]
    <3>1. 1 \in 1 .. Len(chain) + 1 /\ MaxPlans \in 1 - 1 .. Len(chain) /\ MaxPlans - 1 + 1 = MaxPlans
      BY <1>1, <1>2, <1>5
    <3>2. \A j \in 1 .. MaxPlans : 1 + j - 1 = j
      BY <1>2
    <3>3. QED
      BY <1>1, <1>2, <3>1, <3>2, SubSeqProperties
  <2> HIDE DEF fit
  <2>2. Elems(fit) = {chain[j] : j \in 1 .. MaxPlans}
    BY <2>1, ElemsIs
  <2>3. \A i \in 1 .. Len(chain) : i \in 1 .. MaxPlans \/ i \in (MaxPlans + 1) .. Len(chain)
    BY <1>1, <1>2
  <2>4. \A i \in 1 .. MaxPlans : i \in 1 .. Len(chain) /\ ~(i \in (MaxPlans + 1) .. Len(chain))
    BY <1>1, <1>2, <1>5
  <2>5. \A i \in (MaxPlans + 1) .. Len(chain) : i \in 1 .. Len(chain) /\ i # 1
    BY <1>1, <1>2
  <2>6. NoDup(fit)
    BY <1>1, <2>1, <2>4 DEF NoDup
  <2>7. Elems(fit) \cup over = {e} \cup Elems(s)
    BY <1>1, <1>3, <2>2, <2>3, <2>4, <2>5
  <2>8. Elems(fit) \cap over = {}
    <3>1. ASSUME NEW i \in 1 .. MaxPlans, NEW j \in (MaxPlans + 1) .. Len(chain), chain[i] = chain[j]
          PROVE  FALSE
      BY <1>1, <2>4, <2>5, <3>1 DEF NoDup
    <3>2. QED
      BY <2>2, <3>1
  <2>9. e \in Elems(fit)
    <3>1. 1 \in 1 .. MaxPlans
      BY <1>2
    <3>2. QED
      BY <1>1, <2>2, <3>1
  <2>10. Len(fit) <= MaxPlans
    BY <1>2, <2>1
  <2>11. QED
    BY <1>5, <2>1, <2>6, <2>7, <2>8, <2>9, <2>10 DEF chain, fit, Split
<1>6. QED
  BY <1>4, <1>5

\* The entry e in hand and its plans become the plans F of the tree t in hand; O is
\* past the limit and is closed.
LEMMA AbsorbSound ==
    ASSUME NEW r, NEW H, NEW m, Sound(r, H, m), NEW e \in H, NEW t \in H, e # t,
           NoPlans(r, t), NEW F, NEW O, Split(e, r.plans[e], F, O)
    PROVE  LET c == Moving(r, e, t, F, O)
           IN  /\ Sound(c, H \ {e}, m) /\ c.list = r.list
               /\ Same(c, r, Elems(r.list)) /\ Same(c, r, H \ {e})
<1> USE DEF Split, NoPlans
<1> DEFINE a == [r EXCEPT !.plans[e] = <<>>, !.node[e].name = None, !.plans[t] = F]
           G == O \cup UNION {Elems(a.plans[x]) : x \in O}
           C2 == [x \in Trees |-> IF x \in G /\ a.closes[x] < 2
                                  THEN a.closes[x] + 1 ELSE a.closes[x]]
           N2 == [x \in Trees |-> IF x \in G THEN NoNode ELSE a.node[x]]
           P2 == [x \in Trees |-> IF x \in O THEN <<>> ELSE a.plans[x]]
           c == [a EXCEPT !.closes = C2, !.node = N2, !.plans = P2]
           L == Elems(r.list)
           P == PlanSets(r)
           C == r.closes
<1>1. /\ r \in Registries /\ Own(L, P, C, H, m) /\ L \in SUBSET Trees
      /\ H \in SUBSET Trees /\ r.list \in Seq(Trees) /\ C \in [Trees -> 0 .. 1]
      /\ e \in Trees /\ t \in Trees
  BY DEF Sound, Own, Registries
<1>2. \A x \in Trees : P[x] = Elems(r.plans[x])
  BY DEF PlanSets
<1>3. O \subseteq P[e] /\ P[e] \subseteq Trees /\ e \notin O
  BY <1>1, <1>2 DEF Own
<1>4. \A x \in O : x \in Trees /\ x \notin L /\ x \notin H /\ P[x] = {} /\ C[x] = 0
  BY <1>1, <1>3 DEF Own
<1>5. /\ a \in Registries /\ a.list = r.list /\ a.closes = C
      /\ \A x \in Trees : x # e => a.node[x] = r.node[x]
      /\ a.plans[e] = <<>> /\ a.plans[t] = F
      /\ \A x \in Trees : x # e /\ x # t => a.plans[x] = r.plans[x]
  <2> DEFINE pl == [[r.plans EXCEPT ![e] = <<>>] EXCEPT ![t] = F]
             nd == [r.node EXCEPT ![e].name = None]
  <2>1. /\ pl \in [Trees -> Seq(Trees)] /\ pl[e] = <<>> /\ pl[t] = F
        /\ \A x \in Trees : x # e /\ x # t => pl[x] = r.plans[x]
    <3> DEFINE p1 == [r.plans EXCEPT ![e] = <<>>]
    <3>1. r.plans \in [Trees -> Seq(Trees)]
      BY <1>1 DEF Registries
    <3>2. /\ p1 \in [Trees -> Seq(Trees)] /\ p1[e] = <<>>
          /\ \A x \in Trees : x # e => p1[x] = r.plans[x]
      BY <1>1, <3>1
    <3> HIDE DEF p1
    <3>3. /\ [p1 EXCEPT ![t] = F] \in [Trees -> Seq(Trees)] /\ [p1 EXCEPT ![t] = F][t] = F
          /\ \A x \in Trees : x # t => [p1 EXCEPT ![t] = F][x] = p1[x]
      BY <1>1, <3>2
    <3>4. QED
      BY <1>1, <3>2, <3>3 DEF p1
  <2>2. [r.node[e] EXCEPT !.name = None] \in NodeType
    BY <1>1 DEF Registries, NodeType
  <2>3. nd \in [Trees -> NodeType] /\ \A x \in Trees : x # e => nd[x] = r.node[x]
    BY <1>1, <2>2 DEF Registries
  <2>4. a = [r EXCEPT !.plans = pl, !.node = nd]
    BY <1>1 DEF Registries
  <2> HIDE DEF pl, nd, a
  <2>5. a \in Registries /\ a.list = r.list /\ a.closes = C /\ a.plans = pl /\ a.node = nd
    BY <1>1, <2>1, <2>3, <2>4 DEF Registries
  <2>6. QED
    BY <2>1, <2>3, <2>5
<1>6. db_close_session_local(a, O) = c
  BY DEF db_close_session_local
<1> HIDE DEF a
<1>7. G = O
  <2>1. \A x \in O : Elems(a.plans[x]) = {}
    BY <1>1, <1>2, <1>3, <1>4, <1>5
  <2>2. QED
    BY <2>1
<1> HIDE DEF G
<1>8. C2 \in [Trees -> 0 .. 1] /\ \A x \in Trees : C2[x] = IF x \in O THEN 1 ELSE C[x]
  BY <1>1, <1>4, <1>5, <1>7
<1>9. /\ N2 \in [Trees -> NodeType]
      /\ \A x \in Trees : x \notin O /\ x # e => N2[x] = r.node[x]
  <2>1. NoNode \in NodeType
    BY KeptTreesAssumption DEF NoNode, NodeType
  <2>2. QED
    BY <1>5, <1>7, <2>1 DEF Registries
<1>10. /\ P2 \in [Trees -> Seq(Trees)] /\ P2[e] = <<>> /\ P2[t] = F
       /\ \A x \in Trees : x \in O => P2[x] = <<>>
       /\ \A x \in Trees : x \notin O /\ x # e /\ x # t => P2[x] = r.plans[x]
  BY <1>1, <1>3, <1>4, <1>5 DEF Registries
<1> HIDE DEF C2, N2, P2
<1>11. /\ c \in Registries /\ c.list = r.list /\ c.node = N2 /\ c.plans = P2 /\ c.closes = C2
  BY <1>5, <1>8, <1>9, <1>10 DEF Registries
<1> HIDE DEF c
<1>12. Elems(<<>>) = {}
  BY DEF Elems
<1>13. /\ PlanSets(c) \in [Trees -> SUBSET Trees]
       /\ \A x \in Trees : PlanSets(c)[x] = IF x = e THEN {} ELSE IF x = t THEN Elems(F) ELSE P[x]
  <2>1. ASSUME NEW x \in Trees
        PROVE  Elems(P2[x]) = IF x = e THEN {} ELSE IF x = t THEN Elems(F) ELSE P[x]
    BY <1>2, <1>4, <1>10, <1>12
  <2>2. \A x \in Trees : Elems(P2[x]) \subseteq Trees
    BY <1>10, ElemsIs
  <2>3. QED
    BY <1>11, <2>1, <2>2 DEF PlanSets
<1>14. Own(L, PlanSets(c), C2, H \ {e}, m)
  <2> DEFINE K == Elems(F)
             Q == PlanSets(c)
  <2>1. K \cup O = {e} \cup P[e] /\ P[t] = {}
    BY <1>1, <1>2
  <2>2. /\ Q \in [Trees -> SUBSET Trees]
        /\ \A x \in Trees : Q[x] = IF x = e THEN {} ELSE IF x = t THEN K ELSE P[x]
    BY <1>13
  <2>3. Absorbing(P, C, H, e, t, K, O, Q, C2)
    <3> HIDE DEF Q, P, C
    <3> QED  BY <1>8, <2>1, <2>2 DEF Absorbing
  <2>4. Own(L, P, C, H, m)
    BY <1>1
  <2> HIDE DEF K, Q, L, P, C
  <2>5. Own(L, Q, C2, H \ {e}, m)
    BY <2>3, <2>4, OwnAbsorb
  <2>6. QED
    BY <2>5 DEF Q, L
<1>15. \A x \in L \cup (H \ {e}) : c.node[x] = r.node[x]
  <2>1. \A x \in L \cup (H \ {e}) : x \in Trees /\ x # e /\ x \notin O
    BY <1>1, <1>4 DEF Own
  <2>2. QED
    BY <1>9, <1>11, <2>1
<1>16. NameInv(c, H \ {e})
  <2>1. \A i \in 1 .. Len(r.list) : r.list[i] \in L
    BY <1>1, ElemsIs
  <2>2. QED
    BY <1>11, <1>15, <2>1 DEF Sound, NameInv
<1>17. SeqInv(c)
  <2>1. NoDup(<<>>) /\ Len(<<>>) <= MaxPlans
    BY KeptTreesAssumption DEF NoDup
  <2>2. QED
    BY <1>10, <1>11, <2>1 DEF SeqInv, Sound
<1>18. Sound(c, H \ {e}, m)
  BY <1>11, <1>14, <1>16, <1>17 DEF Sound
<1>19. QED
  BY <1>6, <1>11, <1>15, <1>18 DEF Same, a, Moving

\* The compiled tree heads the list under its name; an earlier entry is closed or
\* becomes its plan.
LEMMA RegisterSound ==
    ASSUME NEW r, NEW H, NEW m, Sound(r, H, m), m < MaxTrees, NEW n \in Names,
           NEW text \in Texts, NEW sig \in Sigs, sid \in 1 .. MaxSessions
    PROVE  LET c == db_prepared_tree_register(r, n, m + 1, text, sig)
           IN  Sound(c, H, m + 1) /\ Elems(c.list) \subseteq {m + 1} \cup Elems(r.list)
<1> DEFINE old   == Entry(r, n)
           t     == m + 1
           d     == [name |-> n, text |-> text, sid |-> sid, sig |-> sig]
           u     == db_prepared_tree_unlink(r, n)
           named == Naming(u, t, d)
           other == old # None /\ NoBind \notin {sig, r.node[old].sig} /\ sig # r.node[old].sig
           chain == IF other THEN <<old>> \o r.plans[old] ELSE <<>>
           fit   == IF Len(chain) <= MaxPlans THEN chain ELSE SubSeq(chain, 1, MaxPlans)
           over  == {chain[i] : i \in (MaxPlans + 1) .. Len(chain)}
           moved == Moving(named, old, t, fit, over)
           freed == IF other THEN moved
                    ELSE IF old # None THEN db_prepared_tree_close(named, old) ELSE named
           E     == IF old = None THEN {} ELSE {old}
           L     == Elems(u.list)
           c     == db_prepared_tree_register(r, n, t, text, sig)
<1>1. c = [freed EXCEPT !.list = <<t>> \o @]
  BY DEF db_prepared_tree_register, Naming, Moving
<1>2. /\ Sound(u, H \cup E, m) /\ L \subseteq Elems(r.list) /\ E \cap H = {}
      /\ u.plans = r.plans /\ \A x \in L : u.node[x].name # n
      /\ old # None => old \in Trees
  <2>1. CASE old = None
    <3>1. At(r, n) = {}
      BY <2>1, EntryFacts
    <3>2. u = r
      BY <3>1 DEF db_prepared_tree_unlink
    <3>3. \A x \in L : u.node[x].name # n
      BY <3>1, <3>2 DEF At, Elems
    <3>4. H \cup E = H
      BY <2>1
    <3>5. QED
      BY <2>1, <3>2, <3>3, <3>4
  <2>2. CASE old # None
    BY <2>2, UnlinkSound
  <2>3. QED
    BY <2>1, <2>2
<1>3. d \in NodeType /\ d.name = n /\ d.name \in Names
  BY DEF NodeType
<1> HIDE DEF u, old, d
<1>4. /\ Sound(named, H \cup E \cup {t}, t) /\ t \in Trees /\ t \notin L /\ t \notin H \cup E
      /\ named.list = u.list /\ named.plans = u.plans /\ named.node[t] = d
      /\ Same(named, u, L) /\ NoPlans(named, t)
  <2> DEFINE K == H \cup E
  <2>1. Sound(u, K, m)
    BY <1>2
  <2> HIDE DEF K
  <2>2. /\ Sound(named, K \cup {t}, t) /\ t \in Trees /\ t \notin L /\ t \notin K
        /\ named.list = u.list /\ named.plans = u.plans /\ named.node[t] = d
        /\ Same(named, u, L) /\ NoPlans(named, t)
    BY <1>3, <2>1, NewSound
  <2>3. QED
    BY <2>2 DEF K
<1> HIDE DEF named, t
<1>5. \A x \in L : named.node[x].name # n
  BY <1>2, <1>4 DEF Same
<1>6. /\ Sound(freed, H \cup {t}, t) /\ freed.list = u.list /\ freed.node[t] = d
      /\ Same(freed, named, L)
  <2>1. CASE other
    <3>1. old # None /\ freed = moved /\ E = {old} /\ chain = <<old>> \o r.plans[old]
      BY <2>1
    <3> DEFINE K == H \cup E \cup {t}
    <3>2. old \in K /\ t \in K /\ old # t /\ K \ {old} = H \cup {t} /\ Sound(named, K, t)
      BY <1>2, <1>4, <3>1
    <3>3. /\ named.plans[old] = r.plans[old] /\ r.plans[old] \in Seq(Trees) /\ NoDup(r.plans[old])
          /\ Len(r.plans[old]) <= MaxPlans
      BY <1>2, <1>4, <3>1 DEF Sound, SeqInv, Registries
    <3>4. old \notin Elems(r.plans[old]) /\ old \in Trees
      <4>1. old \in Trees
        BY <1>2, <3>1
      <4>2. PlanSets(named)[old] = Elems(r.plans[old])
        BY <3>3, <4>1 DEF PlanSets
      <4>3. QED
        BY <3>2, <4>1, <4>2 DEF Sound, Own
    <3> HIDE DEF K, E, other
    <3>5. Split(old, r.plans[old], fit, over)
      <4> DEFINE ch == <<old>> \o r.plans[old]
                 ft == IF Len(ch) <= MaxPlans THEN ch ELSE SubSeq(ch, 1, MaxPlans)
                 ov == {ch[i] : i \in (MaxPlans + 1) .. Len(ch)}
      <4>1. Split(old, r.plans[old], ft, ov)
        BY <3>3, <3>4, ChainFacts
      <4>2. chain = ch
        BY <3>1
      <4> HIDE DEF chain, ch
      <4>3. QED
        BY <4>1, <4>2
    <3> HIDE DEF fit, over
    <3>6. /\ Sound(moved, K \ {old}, t) /\ moved.list = named.list
          /\ Same(moved, named, Elems(named.list)) /\ moved.node[t] = named.node[t]
      <4>1. Split(old, named.plans[old], fit, over)
        BY <3>3, <3>5
      <4>2. NoPlans(named, t)
        BY <1>4
      <4>3. Sound(named, K, t) /\ old \in K /\ t \in K /\ old # t
        BY <3>2
      <4> DEFINE d2 == Moving(named, old, t, fit, over)
      <4>4. Sound(d2, K \ {old}, t) /\ d2.list = named.list
        BY ONLY <4>1, <4>2, <4>3, AbsorbSound
      <4>5. Same(d2, named, Elems(named.list))
        BY ONLY <4>1, <4>2, <4>3, AbsorbSound
      <4>6. d2.node[t] = named.node[t]
        <5>1. Same(d2, named, K \ {old})
          BY ONLY <4>1, <4>2, <4>3, AbsorbSound
        <5>2. QED
          BY <4>3, <5>1 DEF Same
      <4>7. QED
        BY <4>4, <4>5, <4>6
    <3>7. QED
      BY <1>4, <3>1, <3>2, <3>6
  <2>2. CASE ~other /\ old # None
    <3> DEFINE K == H \cup E \cup {t}
               T == {old}
    <3>1. freed = db_close_session_local(named, T)
      BY <2>2 DEF db_prepared_tree_close
    <3>2. K \ T = H \cup {t} /\ T \in SUBSET K /\ Sound(named, K, t)
      BY <1>2, <1>4, <2>2
    <3> HIDE DEF K, T, freed
    <3>3. /\ Sound(freed, K \ T, t) /\ freed.list = named.list
          /\ Same(freed, named, Elems(named.list)) /\ Same(freed, named, K \ T)
      BY <3>1, <3>2, CloseSound
    <3>4. QED
      BY <1>4, <3>2, <3>3 DEF Same
  <2>3. CASE old = None
    <3>1. freed = named /\ H \cup E \cup {t} = H \cup {t}
      BY <2>3
    <3>2. QED
      BY <1>4, <3>1 DEF Same
  <2>4. QED
    BY <2>1, <2>2, <2>3
<1> HIDE DEF freed, c
<1>7. /\ Sound(c, (H \cup {t}) \ {t}, t) /\ Elems(c.list) = {t} \cup Elems(freed.list)
  <2> DEFINE K == H \cup {t}
  <2>1. /\ Sound(freed, K, t) /\ t \in K
        /\ \A x \in Elems(freed.list) : freed.node[x].name # freed.node[t].name
    BY <1>3, <1>5, <1>6 DEF Same
  <2> HIDE DEF K
  <2>2. Sound(c, K \ {t}, t) /\ Elems(c.list) = {t} \cup Elems(freed.list)
    BY <1>1, <2>1, PushSound
  <2>3. QED
    BY <2>2 DEF K
<1>8. (H \cup {t}) \ {t} = H
  BY <1>4
<1>9. QED
  BY <1>2, <1>6, <1>7, <1>8 DEF c, t

\* Everything on the list is closed, with its plans.
LEMMA FreeAllSound ==
    ASSUME NEW r, NEW H, NEW m, Sound(r, H, m)
    PROVE  LET c == db_prepared_tree_free_all(r) IN Sound(c, H, m) /\ Elems(c.list) = {}
<1> DEFINE L == Elems(r.list)
           q == [r EXCEPT !.list = <<>>]
           K == H \cup L
           c == db_prepared_tree_free_all(r)
<1>1. /\ r \in Registries /\ Own(L, PlanSets(r), r.closes, H, m) /\ L \in SUBSET Trees
      /\ H \in SUBSET Trees /\ r.list \in Seq(Trees)
  BY DEF Sound, Own, Registries
<1>2. /\ q \in Registries /\ q.list = <<>> /\ q.node = r.node /\ q.plans = r.plans
      /\ q.closes = r.closes
  <2>1. <<>> \in Seq(Trees)
    OBVIOUS
  <2>2. QED
    BY <1>1, <2>1 DEF Registries
<1>3. Elems(<<>>) = {}
  BY DEF Elems
<1>4. c = db_close_session_local(q, L)
  <2>1. q.list = <<>> /\ q.node = r.node /\ q.plans = r.plans /\ q.closes = r.closes
    BY <1>2
  <2>2. QED
    BY <1>1, <2>1 DEF db_prepared_tree_free_all, db_close_session_local, Registries
<1> HIDE DEF q
<1>5. Own({}, PlanSets(q), q.closes, K, m)
  <2>1. PlanSets(q) = PlanSets(r)
    BY <1>2 DEF PlanSets
  <2>2. QED
    BY <1>1, <1>2, <2>1 DEF Own
<1>6. NameInv(q, K) /\ SeqInv(q)
  <2>1. NoDup(<<>>) /\ Len(<<>>) = 0
    BY DEF NoDup
  <2>2. QED
    BY <1>2, <1>3, <2>1 DEF Sound, NameInv, SeqInv
<1>7. Sound(q, K, m)
  BY <1>2, <1>3, <1>5, <1>6 DEF Sound
<1>8. K \ L = H /\ L \in SUBSET K
  BY <1>1 DEF Own
<1> HIDE DEF K, L, c
<1>9. Sound(c, K \ L, m) /\ c.list = q.list
  BY <1>4, <1>7, <1>8, CloseSound
<1>10. QED
  BY <1>2, <1>3, <1>8, <1>9 DEF c

-----------------------------------------------------------------------------
(* The invariant *)

\* The trees EXECUTEs own: in shape 0 the tree stays on the list.
Held == IF shape = 1 THEN Executing ELSE {}

TakenOnce ==
    shape = 1 => \A i, j \in 1 .. Len(stack) :
                    stack[i].kept = stack[j].kept /\ stack[i].kept # None => i = j

OutdatedInv ==
    /\ outdated \subseteq 1 .. made
    /\ \A t \in Elems(reg.list) \cup Held : t \in outdated => t \in spared

KInv == TypeOK /\ Sound(reg, Held, made) /\ TakenOnce /\ OutdatedInv

\* What a checkout returns: nothing, or the entry of the name, open, fitting and, in
\* shape 1, the caller's.
Served(x, r, H, m, text) ==
    /\ Elems(x.reg.list) \subseteq Elems(r.list)
    /\ \/ x.kept = None /\ Sound(x.reg, H, m)
       \/ /\ x.kept \in Trees /\ x.kept # None /\ x.kept \in Elems(r.list) /\ x.kept \notin H
          /\ Sound(x.reg, IF shape = 1 THEN H \cup {x.kept} ELSE H, m)
          /\ r.node[x.kept].text = text /\ r.node[x.kept].sid = sid
          /\ x.reg.closes[x.kept] = 0

\* A checkout, in either shape, serves that.
LEMMA CheckoutSound ==
    ASSUME NEW r, NEW H, NEW m, Sound(r, H, m), NEW n \in Names, NEW text, shape \in {0, 1}
    PROVE  Served(unitseam_exec_checkout(r, n, text), r, H, m, text)
<1> USE DEF Served
<1> DEFINE x == unitseam_exec_checkout(r, n, text)
           y == IF shape = 1 THEN db_prepared_tree_take(r, n, text)
                             ELSE db_prepared_tree_lookup(r, n, text)
           e == Entry(r, n)
           u == db_prepared_tree_unlink(r, n)
           p == [u EXCEPT !.list = <<e>> \o @]
<1>1. x.kept = y.kept /\ x.reg = y.reg
  BY DEF unitseam_exec_checkout, unitseam_shape, unitseam_take_t, unitseam_lookup_t, Called
<1>2. CASE e = None
  <2>1. y = [kept |-> None, reg |-> r]
    BY <1>2 DEF db_prepared_tree_take, db_prepared_tree_lookup
  <2>2. QED
    BY <1>1, <2>1
<1>3. CASE e # None /\ ~Fits(r, n, text)
  <2>1. y = [kept |-> None, reg |-> db_prepared_tree_remove(r, n)]
    BY <1>3 DEF db_prepared_tree_take, db_prepared_tree_lookup
  <2>2. Sound(y.reg, H, m) /\ Elems(y.reg.list) \subseteq Elems(r.list)
    BY <2>1, RemoveSound
  <2>3. QED
    BY <1>1, <2>1, <2>2
<1>4. CASE e # None /\ Fits(r, n, text)
  <2>1. y = IF shape = 1 THEN [kept |-> e, reg |-> u] ELSE [kept |-> e, reg |-> p]
    BY <1>4 DEF db_prepared_tree_take, db_prepared_tree_lookup
  <2>2. /\ Sound(u, H \cup {e}, m) /\ e \in Elems(r.list) /\ e \notin H
        /\ e \in Trees /\ r.node[e].name = n /\ Elems(u.list) = Elems(r.list) \ {e}
        /\ u.node = r.node /\ u.closes = r.closes
        /\ \A t \in Elems(u.list) : u.node[t].name # n
    BY <1>4, UnlinkSound
  <2>3. r.node[e].text = text /\ r.node[e].sid = sid
    BY <1>4 DEF Fits
  <2>4. r.closes[e] = 0
    BY <2>2 DEF Sound, Own
  <2> HIDE DEF e, u
  <2>5. Sound(p, H, m) /\ Elems(p.list) = Elems(r.list) /\ p.closes = u.closes
    <3> DEFINE K == H \cup {e}
    <3>1. /\ Sound(u, K, m) /\ e \in K /\ K \ {e} = H
          /\ \A t \in Elems(u.list) : u.node[t].name # u.node[e].name
      BY <2>2
    <3> HIDE DEF K
    <3>2. Sound(p, K \ {e}, m) /\ Elems(p.list) = {e} \cup Elems(u.list)
      BY <3>1, PushSound
    <3>3. u \in Registries
      BY <2>2 DEF Sound
    <3>4. p.closes = u.closes
      BY <3>3 DEF Registries
    <3>5. QED
      BY <2>2, <3>1, <3>2, <3>4
  <2> HIDE DEF p
  <2>6. CASE shape = 1
    BY <1>1, <1>4, <2>1, <2>2, <2>3, <2>4, <2>6
  <2>7. CASE shape # 1
    BY <1>1, <1>4, <2>1, <2>2, <2>3, <2>4, <2>5, <2>7
  <2>8. QED
    BY <2>6, <2>7
<1>5. QED
  BY <1>2, <1>3, <1>4

Frames == [name : Names, kept : Trees \cup {None}]

\* The frame of a new EXECUTE.
LEMMA PushFrame ==
    ASSUME NEW s \in Seq(Frames), NEW f \in Frames
    PROVE  LET w == <<f>> \o s
           IN  /\ w \in Seq(Frames) /\ Len(w) = Len(s) + 1 /\ w[1] = f
               /\ \A j \in 2 .. Len(w) : w[j] = s[j - 1] /\ j - 1 \in 1 .. Len(s)
               /\ {w[i].kept : i \in DOMAIN w} = {f.kept} \cup {s[i].kept : i \in DOMAIN s}
<1> DEFINE w == <<f>> \o s
<1>1. <<f>> \in Seq(Frames) /\ Len(<<f>>) = 1 /\ <<f>>[1] = f
  OBVIOUS
<1>2. /\ w \in Seq(Frames) /\ Len(w) = Len(s) + 1 /\ Len(s) \in Nat
      /\ w[1] = f /\ \A j \in 2 .. Len(s) + 1 : w[j] = s[j - 1]
  BY <1>1, ConcatProperties
<1> HIDE DEF w
<1>3. \A j \in 1 .. Len(w) : j = 1 \/ (j \in 2 .. Len(s) + 1 /\ j - 1 \in 1 .. Len(s))
  BY <1>2
<1>4. \A j \in 1 .. Len(s) : j + 1 \in 1 .. Len(w) /\ j + 1 \in 2 .. Len(s) + 1 /\ (j + 1) - 1 = j
  BY <1>2
<1>5. DOMAIN w = 1 .. Len(w) /\ DOMAIN s = 1 .. Len(s) /\ 1 \in 1 .. Len(w)
  BY <1>2
<1>6. {w[i].kept : i \in DOMAIN w} = {f.kept} \cup {s[i].kept : i \in DOMAIN s}
  <2>1. \A j \in 1 .. Len(s) : w[j + 1] = s[j]
    BY <1>2, <1>4
  <2>2. ASSUME NEW i \in 1 .. Len(w) PROVE w[i].kept \in {f.kept} \cup {s[j].kept : j \in DOMAIN s}
    BY <1>2, <1>3, <1>5
  <2>3. ASSUME NEW j \in 1 .. Len(s) PROVE s[j].kept \in {w[i].kept : i \in DOMAIN w}
    BY <1>4, <1>5, <2>1
  <2>4. f.kept \in {w[i].kept : i \in DOMAIN w}
    BY <1>2, <1>5
  <2>5. QED
    BY <1>5, <2>2, <2>3, <2>4
<1>7. \A j \in 2 .. Len(w) : w[j] = s[j - 1] /\ j - 1 \in 1 .. Len(s)
  BY <1>2
<1>8. QED
  BY <1>2, <1>6, <1>7 DEF w

\* The frames under the one that returns.
LEMMA PopFrame ==
    ASSUME NEW s \in Seq(Frames), s # <<>>
    PROVE  /\ Tail(s) \in Seq(Frames) /\ Len(Tail(s)) = Len(s) - 1 /\ 1 \in 1 .. Len(s) /\ s[1] \in Frames
           /\ \A j \in 1 .. Len(Tail(s)) : Tail(s)[j] = s[j + 1] /\ j + 1 \in 2 .. Len(s)
           /\ \A k \in 1 .. Len(s) : k = 1 \/ (k - 1 \in 1 .. Len(Tail(s)) /\ Tail(s)[k - 1] = s[k])
<1> DEFINE w == Tail(s)
<1>1. /\ w \in Seq(Frames) /\ Len(w) = Len(s) - 1 /\ Len(s) \in Nat /\ Len(s) >= 1
      /\ \A j \in 1 .. Len(w) : w[j] = s[j + 1]
  BY HeadTailProperties, EmptySeq
<1> HIDE DEF w
<1>2. \A j \in 1 .. Len(w) : j + 1 \in 2 .. Len(s)
  BY <1>1
<1>3. \A k \in 1 .. Len(s) : k = 1 \/ (k - 1 \in 1 .. Len(w) /\ (k - 1) + 1 = k)
  BY <1>1
<1>4. 1 \in 1 .. Len(s) /\ s[1] \in Frames
  BY <1>1
<1>5. QED
  BY <1>1, <1>2, <1>3, <1>4 DEF w

\* A sound registry has the types of TypeOK.
LEMMA SoundType ==
    ASSUME NEW r, NEW H, NEW m, Sound(r, H, m)
    PROVE  /\ r.list \in Seq(Trees) /\ r.node \in [Trees -> NodeType]
           /\ r.plans \in [Trees -> Seq(Trees)] /\ r.closes \in [Trees -> 0 .. 1]
           /\ m \in 0 .. MaxTrees /\ H \subseteq Trees /\ Elems(r.list) \subseteq Trees
  BY DEF Sound, Registries, Own

\* What the registry is when the connection starts.
LEMMA InitKept == Init => KInv
<1> SUFFICES ASSUME Init PROVE KInv
  OBVIOUS
<1> DEFINE z == [list |-> <<>>, node |-> [t \in Trees |-> NoNode], plans |-> [t \in Trees |-> <<>>],
                 closes |-> [t \in Trees |-> 0]]
<1>1. reg = z
  BY DEF Init, unitseam_list_forget
<1>2. NoNode \in NodeType /\ <<>> \in Seq(Trees) /\ 0 \in 0 .. 1
  BY KeptTreesAssumption DEF NoNode, NodeType
<1>3. reg \in Registries
  BY <1>1, <1>2 DEF Registries
<1>4. stack = <<>> /\ Executing = {} /\ Held = {}
  BY DEF Init, Executing, Held
<1>5. Elems(<<>>) = {} /\ NoDup(<<>>) /\ Len(<<>>) = 0 /\ Len(<<>>) <= MaxPlans
  BY KeptTreesAssumption DEF Elems, NoDup
<1>6. /\ reg.list = <<>> /\ \A t \in Trees : reg.plans[t] = <<>> /\ reg.closes[t] = 0
  BY <1>1
<1>7. Own(Elems(reg.list), PlanSets(reg), reg.closes, Held, made)
  <2>1. /\ PlanSets(reg) \in [Trees -> SUBSET Trees] /\ \A u \in Trees : PlanSets(reg)[u] = {}
    BY <1>5, <1>6 DEF PlanSets
  <2>2. reg.closes \in [Trees -> 0 .. 1] /\ made = 0 /\ made \in 0 .. MaxTrees
    <3>1. made = 0
      BY DEF Init
    <3>2. MaxTrees \in Nat
      BY KeptTreesAssumption
    <3>3. QED
      BY <1>3, <3>1, <3>2 DEF Registries
  <2>3. \A t \in Trees : ~(t <= made)
    BY <2>2 DEF Trees
  <2>4. QED
    BY <1>4, <1>5, <1>6, <2>1, <2>2, <2>3 DEF Own
<1>8. NameInv(reg, Held) /\ SeqInv(reg)
  BY <1>4, <1>5, <1>6 DEF NameInv, SeqInv
<1>9. Sound(reg, Held, made)
  BY <1>3, <1>7, <1>8 DEF Sound
<1>10. TypeOK
  <2>1. 1 \in 1 .. MaxSessions /\ 0 \in 0 .. MaxTrees
    BY KeptTreesAssumption
  <2>2. /\ shape \in {0, 1} /\ sid = 1 /\ textOf \in [Names -> Texts] /\ made = 0
        /\ outdated = {} /\ spared = {}
    BY DEF Init
  <2>3. stack \in Seq([name : Names, kept : Trees \cup {None}])
    BY <1>4
  <2>4. /\ reg.list \in Seq(Trees) /\ reg.node \in [Trees -> NodeType]
        /\ reg.plans \in [Trees -> Seq(Trees)] /\ reg.closes \in [Trees -> 0 .. 1]
    BY <1>9, SoundType
  <2>5. QED
    BY <2>1, <2>2, <2>3, <2>4 DEF TypeOK, NodeType
<1>11. QED
  BY <1>4, <1>5, <1>6, <1>9, <1>10 DEF KInv, TakenOnce, OutdatedInv, Init

\* Every step of the connection leaves a sound registry and sound EXECUTEs.
LEMMA StepKept == KInv /\ [Next]_vars => KInv'
<1> SUFFICES ASSUME KInv, [Next]_vars PROVE KInv'
  OBVIOUS
<1>1. TypeOK /\ Sound(reg, Held, made) /\ TakenOnce /\ OutdatedInv
  BY DEF KInv
<1>2. stack \in Seq(Frames) /\ shape \in {0, 1} /\ made \in Nat
  BY <1>1 DEF TypeOK, Frames
<1>3. ASSUME NEW n \in Names, NEW x \in Texts, Prepare(n, x) PROVE KInv'
  <2>1. /\ Sound(reg', Held, made)
        /\ \A t \in Elems(reg'.list) : t \in Elems(reg.list) /\ reg.node[t].name # n
    BY <1>1, <1>3, RemoveSound DEF Prepare, unitseam_remove
  <2>2. Held' = Held /\ made' = made /\ shape' = shape /\ stack' = stack
    BY <1>3 DEF Prepare, Held, Executing
  <2>3. Sound(reg', Held', made')
    BY <2>1, <2>2
  <2>4. OfName(n) \subseteq 1 .. made /\ 1 .. made \subseteq Trees
    <3>1. made \in Int /\ MaxTrees \in Int /\ made <= MaxTrees
      BY <1>1, KeptTreesAssumption DEF TypeOK
    <3>2. QED
      BY <3>1 DEF OfName, Trees
  <2>5. TypeOK'
    BY <1>1, <1>3, <2>3, <2>4, SoundType DEF TypeOK, Prepare, NodeType, OutdatedInv
  <2>6. OutdatedInv'
    <3>1. outdated' \subseteq 1 .. made'
      BY <1>1, <1>3, <2>2, <2>4 DEF OutdatedInv, Prepare
    <3>2. ASSUME NEW t \in Elems(reg'.list), t \in outdated' PROVE t \in spared'
      BY <1>1, <1>3, <2>1, <3>2 DEF OutdatedInv, Prepare, OfName
    <3>3. ASSUME NEW t \in Held, t \in outdated' PROVE t \in spared'
      <4>1. Held \subseteq Executing
        BY DEF Held
      <4>2. QED
        BY <1>1, <1>3, <3>3, <4>1 DEF OutdatedInv, Prepare
    <3>4. QED
      BY <2>2, <3>1, <3>2, <3>3 DEF OutdatedInv
  <2>7. TakenOnce'
    BY <1>1, <2>2 DEF TakenOnce
  <2>8. QED
    BY <2>3, <2>5, <2>6, <2>7 DEF KInv
<1>4. ASSUME NEW n \in Names, Deallocate(n) PROVE KInv'
  <2>1. Sound(reg', Held, made) /\ Elems(reg'.list) \subseteq Elems(reg.list)
    BY <1>1, <1>4, RemoveSound DEF Deallocate, unitseam_remove
  <2>2. /\ Held' = Held /\ made' = made /\ shape' = shape /\ stack' = stack
        /\ outdated' = outdated /\ spared' = spared /\ sid' = sid /\ textOf' = textOf
    BY <1>4 DEF Deallocate, Held, Executing
  <2>3. Sound(reg', Held', made')
    BY <2>1, <2>2
  <2>4. TypeOK'
    BY <1>1, <2>2, <2>3, SoundType DEF TypeOK, NodeType
  <2>5. OutdatedInv' /\ TakenOnce'
    BY <1>1, <2>1, <2>2 DEF OutdatedInv, TakenOnce
  <2>6. QED
    BY <2>3, <2>4, <2>5 DEF KInv
<1>5. ASSUME ChangeSession PROVE KInv'
  <2>1. Sound(reg', Held, made) /\ Elems(reg'.list) = {}
    BY <1>1, <1>5, FreeAllSound DEF ChangeSession
  <2>2. /\ Held' = Held /\ made' = made /\ shape' = shape /\ stack' = stack
        /\ outdated' = outdated /\ spared' = spared /\ textOf' = textOf
    BY <1>5 DEF ChangeSession, Held, Executing
  <2>3. sid' \in 1 .. MaxSessions
    BY <1>1, <1>5, KeptTreesAssumption DEF ChangeSession, TypeOK
  <2>4. Sound(reg', Held', made')
    BY <2>1, <2>2
  <2>5. TypeOK'
    BY <1>1, <2>2, <2>3, <2>4, SoundType DEF TypeOK, NodeType
  <2>6. OutdatedInv' /\ TakenOnce'
    BY <1>1, <2>1, <2>2 DEF OutdatedInv, TakenOnce
  <2>7. QED
    BY <2>4, <2>5, <2>6 DEF KInv
<1>6. ASSUME NEW n \in Names, Execute(n) PROVE KInv'
  <2> DEFINE x == unitseam_exec_checkout(reg, n, textOf[n])
             f == [name |-> n, kept |-> x.kept]
             w == <<f>> \o stack
  <2>1. /\ Elems(x.reg.list) \subseteq Elems(reg.list)
        /\ \/ x.kept = None /\ Sound(x.reg, Held, made)
           \/ /\ x.kept \in Trees /\ x.kept # None /\ x.kept \in Elems(reg.list) /\ x.kept \notin Held
              /\ Sound(x.reg, IF shape = 1 THEN Held \cup {x.kept} ELSE Held, made)
    <3> DEFINE y == textOf[n]
    <3> HIDE DEF y
    <3>1. Served(unitseam_exec_checkout(reg, n, y), reg, Held, made, y)
      BY <1>1, <1>2, CheckoutSound
    <3>2. QED
      BY <3>1 DEF Served, y
  <2>2. f \in Frames
    BY <2>1 DEF Frames
  <2>3. /\ reg' = x.reg /\ stack' = w /\ shape' = shape /\ made' = made /\ sid' = sid
        /\ textOf' = textOf /\ outdated' = outdated /\ spared' = spared
    BY <1>6 DEF Execute
  <2> HIDE DEF x, f
  <2>4. /\ w \in Seq(Frames) /\ Len(w) = Len(stack) + 1 /\ w[1] = f
        /\ \A j \in 2 .. Len(w) : w[j] = stack[j - 1] /\ j - 1 \in 1 .. Len(stack)
        /\ {w[i].kept : i \in DOMAIN w} = {f.kept} \cup {stack[i].kept : i \in DOMAIN stack}
    BY <1>2, <2>2, PushFrame
  <2>5. f.kept = x.kept
    BY DEF f
  <2> HIDE DEF w
  <2>6. Executing' = Executing \cup ({x.kept} \ {None})
    <3> DEFINE S == {stack[i].kept : i \in DOMAIN stack}
               S2 == {w[i].kept : i \in DOMAIN w}
    <3>1. Executing = S \ {None} /\ Executing' = S2 \ {None} /\ S2 = {x.kept} \cup S
      BY <2>3, <2>4, <2>5 DEF Executing
    <3> HIDE DEF S, S2
    <3>2. QED
      BY <3>1
  <2>7. CASE x.kept = None
    <3>1. Held' = Held
      BY <2>3, <2>6, <2>7 DEF Held
    <3>2. Sound(reg', Held', made')
      BY <2>1, <2>3, <2>7, <3>1
    <3>3. TypeOK'
      BY <1>1, <2>3, <2>4, <3>2, SoundType DEF TypeOK, NodeType, Frames
    <3>4. OutdatedInv'
      BY <1>1, <2>1, <2>3, <3>1 DEF OutdatedInv
    <3>5. TakenOnce'
      <4>1. SUFFICES ASSUME shape = 1, NEW i \in 1 .. Len(w), NEW j \in 1 .. Len(w),
                            w[i].kept = w[j].kept, w[i].kept # None
                     PROVE  i = j
        BY <2>3 DEF TakenOnce
      <4>2. i # 1 /\ j # 1
        BY <2>4, <2>5, <2>7, <4>1
      <4>3. i \in 2 .. Len(w) /\ j \in 2 .. Len(w)
        BY <1>2, <2>4, <4>2
      <4>4. i - 1 = j - 1
        BY <1>1, <2>4, <4>1, <4>3 DEF TakenOnce
      <4>5. QED
        BY <4>3, <4>4
    <3>6. QED
      BY <3>2, <3>3, <3>4, <3>5 DEF KInv
  <2>8. CASE x.kept # None
    <3>1. Held' = IF shape = 1 THEN Held \cup {x.kept} ELSE Held
      BY <2>3, <2>6, <2>8 DEF Held
    <3>2. Sound(reg', Held', made')
      BY <2>1, <2>3, <2>8, <3>1
    <3>3. TypeOK'
      BY <1>1, <2>3, <2>4, <3>2, SoundType DEF TypeOK, NodeType, Frames
    <3>4. OutdatedInv'
      BY <1>1, <2>1, <2>3, <2>8, <3>1 DEF OutdatedInv
    <3>5. TakenOnce'
      <4>1. SUFFICES ASSUME shape = 1, NEW i \in 1 .. Len(w), NEW j \in 1 .. Len(w),
                            w[i].kept = w[j].kept, w[i].kept # None
                     PROVE  i = j
        BY <2>3 DEF TakenOnce
      <4>2. \A k \in 2 .. Len(w) : w[k].kept # x.kept
        <5>1. \A k \in 1 .. Len(stack) : stack[k].kept # None => stack[k].kept \in Held
          BY <1>2, <4>1 DEF Held, Executing
        <5>2. QED
          BY <2>1, <2>4, <2>8, <5>1
      <4>3. \A k \in 1 .. Len(w) : k = 1 \/ k \in 2 .. Len(w)
        BY <1>2, <2>4
      <4>4. i = 1 <=> j = 1
        BY <2>4, <2>5, <4>1, <4>2, <4>3
      <4>5. CASE i # 1 /\ j # 1
        <5>1. i \in 2 .. Len(w) /\ j \in 2 .. Len(w)
          BY <4>3, <4>5
        <5>2. i - 1 = j - 1
          BY <1>1, <2>4, <4>1, <5>1 DEF TakenOnce
        <5>3. QED
          BY <5>1, <5>2
      <4>6. QED
        BY <4>4, <4>5
    <3>6. QED
      BY <3>2, <3>3, <3>4, <3>5 DEF KInv
  <2>9. QED
    BY <2>7, <2>8
<1>7. ASSUME stack # <<>>, stack' = Tail(stack), shape' = shape
      PROVE  /\ stack' \in Seq(Frames) /\ stack[1] \in Frames /\ TakenOnce'
             /\ Held' = Held \ {stack[1].kept} /\ None \notin Held
             /\ shape = 1 /\ stack[1].kept # None => stack[1].kept \in Held
             /\ shape # 1 => Held = {}
  <2> DEFINE w == Tail(stack)
             n == Len(stack)
  <2>1. /\ w \in Seq(Frames) /\ 1 \in 1 .. n /\ stack[1] \in Frames
        /\ \A j \in 1 .. Len(w) : w[j] = stack[j + 1] /\ j + 1 \in 2 .. n
        /\ \A k \in 1 .. n : k = 1 \/ (k - 1 \in 1 .. Len(w) /\ w[k - 1] = stack[k])
    BY <1>2, <1>7, PopFrame
  <2> HIDE DEF w
  <2>2. stack' = w /\ DOMAIN w = 1 .. Len(w) /\ DOMAIN stack = 1 .. n /\ n \in Nat /\ Len(w) \in Nat
    BY <1>2, <1>7, <2>1 DEF w
  <2>3. \A j \in 1 .. Len(w) : j + 1 \in 1 .. n /\ j + 1 # 1
    BY <2>1, <2>2
  <2>4. TakenOnce'
    <3>1. SUFFICES ASSUME shape = 1, NEW i \in 1 .. Len(w), NEW j \in 1 .. Len(w),
                          w[i].kept = w[j].kept, w[i].kept # None
                   PROVE  i = j
      BY <1>7, <2>2 DEF TakenOnce
    <3>2. i + 1 = j + 1
      BY <1>1, <2>1, <2>3, <3>1 DEF TakenOnce
    <3>3. QED
      BY <3>2
  <2>5. CASE shape = 1
    <3>1. Held = {stack[i].kept : i \in 1 .. n} \ {None} /\ Held' = {w[i].kept : i \in 1 .. Len(w)} \ {None}
      BY <1>7, <2>2, <2>5 DEF Held, Executing
    <3>2. ASSUME NEW i \in 1 .. Len(w), w[i].kept # None
          PROVE  w[i].kept \in Held /\ w[i].kept # stack[1].kept
      <4>1. w[i].kept = stack[i + 1].kept /\ i + 1 \in 1 .. n /\ i + 1 # 1 /\ 1 \in 1 .. n
        BY <2>1, <2>3
      <4>2. w[i].kept # stack[1].kept
        BY <1>1, <2>5, <3>2, <4>1 DEF TakenOnce
      <4>3. QED
        BY <3>1, <3>2, <4>1, <4>2
    <3>3. ASSUME NEW k \in 1 .. n, stack[k].kept # None, stack[k].kept # stack[1].kept
          PROVE  stack[k].kept \in Held'
      <4>1. k - 1 \in 1 .. Len(w) /\ w[k - 1] = stack[k]
        BY <2>1, <3>3
      <4>2. QED
        BY <3>1, <3>3, <4>1
    <3>4. ASSUME NEW x \in Held' PROVE x \in Held /\ x # stack[1].kept
      BY <3>1, <3>2
    <3>5. ASSUME NEW x \in Held, x # stack[1].kept PROVE x \in Held'
      BY <3>1, <3>3, <3>5
    <3>6. Held' = Held \ {stack[1].kept}
      BY <3>4, <3>5
    <3>7. None \notin Held /\ (stack[1].kept # None => stack[1].kept \in Held)
      BY <2>1, <3>1
    <3>8. QED
      BY <2>1, <2>2, <2>4, <2>5, <3>6, <3>7
  <2>6. CASE shape # 1
    BY <1>7, <2>1, <2>2, <2>4, <2>6 DEF Held
  <2>7. QED
    BY <2>5, <2>6
<1>8. ASSUME ReturnOk PROVE KInv'
  <2> DEFINE k == stack[1].kept
  <2>1. /\ stack # <<>> /\ k # None /\ stack' = Tail(stack) /\ shape' = shape /\ sid' = sid
        /\ textOf' = textOf /\ made' = made /\ outdated' = outdated /\ spared' = spared
        /\ reg' = unitseam_exec_return_ok(reg, k)
    BY <1>8 DEF ReturnOk
  <2>2. /\ stack' \in Seq(Frames) /\ TakenOnce' /\ Held' = Held \ {k}
        /\ (shape = 1 => k \in Held) /\ (shape # 1 => Held = {})
    BY <1>7, <2>1
  <2> HIDE DEF k
  <2>3. Sound(reg', Held', made') /\ Elems(reg'.list) \subseteq Elems(reg.list) \cup Held
    <3>1. CASE shape = 1
      <4>1. reg' = db_prepared_tree_put_back(reg, k)
        BY <2>1, <3>1 DEF unitseam_exec_return_ok, unitseam_shape, unitseam_put_back_t, Called
      <4>2. k \in Held
        BY <2>2, <3>1
      <4>3. Sound(reg', Held \ {k}, made) /\ Elems(reg'.list) \subseteq {k} \cup Elems(reg.list)
        BY <1>1, <4>1, <4>2, PutBackSound
      <4>4. QED
        BY <2>1, <2>2, <4>2, <4>3
    <3>2. CASE shape # 1
      <4>1. reg' = reg /\ Held' = Held
        BY <2>1, <2>2, <3>2 DEF unitseam_exec_return_ok, unitseam_shape
      <4>2. QED
        BY <1>1, <2>1, <4>1
    <3>3. QED
      BY <3>1, <3>2
  <2>4. TypeOK'
    BY <1>1, <2>1, <2>2, <2>3, SoundType DEF TypeOK, NodeType, Frames
  <2>5. OutdatedInv'
    BY <1>1, <2>1, <2>2, <2>3 DEF OutdatedInv
  <2>6. QED
    BY <2>2, <2>3, <2>4, <2>5 DEF KInv
<1>9. ASSUME NEW miss \in BOOLEAN, NEW sig \in Sigs, ReturnFresh(miss, sig) PROVE KInv'
  <2> DEFINE f == stack[1]
             k == f.kept
             r == IF k = None THEN reg ELSE unitseam_exec_stale(reg, k, f.name, miss)
             n == f.name
             x == textOf[n]
  <2>1. /\ stack # <<>> /\ stack' = Tail(stack) /\ shape' = shape /\ sid' = sid
        /\ textOf' = textOf /\ made' = made + 1 /\ outdated' = outdated /\ spared' = spared
        /\ reg' = db_prepared_tree_register(r, n, made + 1, x, sig) /\ made < MaxTrees
    BY <1>9 DEF ReturnFresh, unitseam_register
  <2>2. /\ stack' \in Seq(Frames) /\ f \in Frames /\ TakenOnce' /\ Held' = Held \ {k} /\ None \notin Held
        /\ (shape = 1 /\ k # None => k \in Held) /\ (shape # 1 => Held = {})
    BY <1>7, <2>1
  <2>3. n \in Names /\ x \in Texts /\ sid \in 1 .. MaxSessions
    BY <1>1, <2>2 DEF Frames, TypeOK
  <2> HIDE DEF k, n, x
  <2>4. Sound(r, Held', made) /\ Elems(r.list) \subseteq Elems(reg.list) \cup Held
    <3>1. CASE k = None
      <4>1. r = reg /\ Held' = Held
        BY <2>2, <3>1
      <4>2. QED
        BY <1>1, <4>1
    <3>2. CASE k # None /\ shape = 1
      <4>1. k \in Held
        BY <2>2, <3>2
      <4>2. CASE miss
        <5>1. r = db_prepared_tree_put_back(reg, k)
          BY <3>2, <4>2 DEF unitseam_exec_stale, unitseam_shape, unitseam_put_back_t, Called
        <5>2. Sound(r, Held \ {k}, made) /\ Elems(r.list) \subseteq {k} \cup Elems(reg.list)
          BY <1>1, <4>1, <5>1, PutBackSound
        <5>3. QED
          BY <2>2, <4>1, <5>2
      <4>3. CASE ~miss
        <5> DEFINE T == {k}
        <5>1. r = db_close_session_local(reg, T)
          BY <3>2, <4>3 DEF unitseam_exec_stale, unitseam_shape, db_prepared_tree_close
        <5>2. T \in SUBSET Held /\ Held' = Held \ T
          BY <2>2, <4>1
        <5> HIDE DEF T, r
        <5>3. Sound(r, Held \ T, made) /\ r.list = reg.list
          BY <1>1, <5>1, <5>2, CloseSound
        <5>4. QED
          BY <5>2, <5>3
      <4>4. QED
        BY <4>2, <4>3
    <3>3. CASE k # None /\ shape # 1
      <4>1. Held' = Held
        BY <2>2, <3>3
      <4>2. r = IF miss THEN reg ELSE db_prepared_tree_remove(reg, n)
        BY <3>3 DEF unitseam_exec_stale, unitseam_shape, n
      <4>3. Sound(db_prepared_tree_remove(reg, n), Held, made)
            /\ Elems(db_prepared_tree_remove(reg, n).list) \subseteq Elems(reg.list)
        BY <1>1, <2>3, RemoveSound
      <4>4. QED
        BY <1>1, <4>1, <4>2, <4>3
    <3>4. QED
      BY <3>1, <3>2, <3>3
  <2> HIDE DEF r
  <2>5. Sound(reg', Held', made') /\ Elems(reg'.list) \subseteq {made + 1} \cup Elems(r.list)
    <3> DEFINE K == Held'
    <3>1. Sound(r, K, made)
      BY <2>4
    <3> HIDE DEF K
    <3>2. Sound(reg', K, made + 1) /\ Elems(reg'.list) \subseteq {made + 1} \cup Elems(r.list)
      BY <2>1, <2>3, <3>1, RegisterSound
    <3>3. QED
      BY <2>1, <3>2 DEF K
  <2>6. TypeOK'
    BY <1>1, <2>1, <2>2, <2>5, SoundType DEF TypeOK, NodeType, Frames
  <2>7. OutdatedInv'
    <3>1. outdated' \subseteq 1 .. made' /\ made + 1 \notin outdated
      BY <1>1, <1>2, <2>1 DEF OutdatedInv
    <3>2. QED
      BY <1>1, <2>1, <2>2, <2>4, <2>5, <3>1 DEF OutdatedInv
  <2>8. QED
    BY <2>2, <2>5, <2>6, <2>7 DEF KInv
<1>10. CASE UNCHANGED vars
  <2>1. Held' = Held
    BY <1>10 DEF vars, Held, Executing
  <2>2. QED
    BY <1>1, <1>10, <2>1 DEF vars, KInv, TypeOK, TakenOnce, OutdatedInv
<1>11. QED
  BY <1>3, <1>4, <1>5, <1>6, <1>8, <1>9, <1>10 DEF Next

-----------------------------------------------------------------------------
(* What the invariant says of the registry *)

\* A set with at most one element.
LEMMA AtMostOne ==
    ASSUME NEW X, \A a, b \in X : a = b
    PROVE  Cardinality(X) = IF X = {} THEN 0 ELSE 1
<1>1. CASE X = {}
  BY <1>1, FS_EmptySet
<1>2. CASE X # {}
  <2>1. PICK a \in X : TRUE
    BY <1>2
  <2>2. X = {a}
    BY <2>1
  <2>3. QED
    BY <1>2, <2>2, FS_Singleton
<1>3. QED
  BY <1>1, <1>2

\* One owner or one close: list, plans and stack hold a tree once between them.
LEMMA InvOwnedOnce == KInv => OwnedOnce
<1> SUFFICES ASSUME KInv, NEW t \in 1 .. made PROVE Places(t) + reg.closes[t] = 1
  BY DEF OwnedOnce
<1> DEFINE L == Elems(reg.list)
           P == PlanSets(reg)
           A == {i \in DOMAIN reg.list : reg.list[i] = t}
           B == {p \in Trees \X (1 .. MaxPlans + 1) :
                    p[2] \in DOMAIN reg.plans[p[1]] /\ reg.plans[p[1]][p[2]] = t}
           S == {i \in DOMAIN stack : stack[i].kept = t}
<1>1. /\ Sound(reg, Held, made) /\ TakenOnce /\ made \in 0 .. MaxTrees /\ shape \in {0, 1}
      /\ stack \in Seq(Frames)
  BY DEF KInv, TypeOK, Frames
<1>2. /\ reg.list \in Seq(Trees) /\ reg.plans \in [Trees -> Seq(Trees)]
      /\ NoDup(reg.list) /\ \A u \in Trees : NoDup(reg.plans[u]) /\ Len(reg.plans[u]) <= MaxPlans
      /\ Own(L, P, reg.closes, Held, made) /\ reg.closes \in [Trees -> 0 .. 1]
  BY <1>1 DEF Sound, Registries, SeqInv
<1>3. t \in Trees /\ t <= made /\ t # None /\ MaxPlans \in Nat
  BY <1>1, KeptTreesAssumption DEF Trees
<1>4. Cardinality(A) = IF t \in L THEN 1 ELSE 0
  <2>0. DOMAIN reg.list = 1 .. Len(reg.list)
    BY <1>2
  <2>1. ASSUME NEW a \in A, NEW b \in A PROVE a = b
    <3>1. a \in 1 .. Len(reg.list) /\ b \in 1 .. Len(reg.list) /\ reg.list[a] = reg.list[b]
      BY <2>0
    <3>2. NoDup(reg.list)
      BY <1>2
    <3>3. QED
      BY ONLY <3>1, <3>2 DEF NoDup
  <2>2. A = {} <=> t \notin L
    BY DEF Elems
  <2> HIDE DEF A
  <2>3. QED
    BY <2>1, <2>2, AtMostOne
<1>5. Cardinality(B) = IF \E u \in Trees : t \in P[u] THEN 1 ELSE 0
  <2>1. ASSUME NEW a \in B, NEW b \in B PROVE a = b
    <3>1. /\ a = <<a[1], a[2]>> /\ b = <<b[1], b[2]>> /\ a[1] \in Trees /\ b[1] \in Trees
          /\ a[2] \in DOMAIN reg.plans[a[1]] /\ b[2] \in DOMAIN reg.plans[b[1]]
          /\ reg.plans[a[1]][a[2]] = t /\ reg.plans[b[1]][b[2]] = t
      OBVIOUS
    <3>2. t \in P[a[1]] /\ t \in P[b[1]]
      BY <3>1 DEF PlanSets, Elems
    <3>3. a[1] = b[1]
      BY <1>2, <3>1, <3>2 DEF Own
    <3>4. a[2] \in 1 .. Len(reg.plans[a[1]]) /\ b[2] \in 1 .. Len(reg.plans[a[1]])
      BY <1>2, <3>1, <3>3
    <3>5. a[2] = b[2]
      BY <1>2, <3>1, <3>3, <3>4 DEF NoDup
    <3>6. QED
      BY <3>1, <3>3, <3>5
  <2>2. ASSUME NEW u \in Trees, t \in P[u] PROVE B # {}
    <3>1. PICK i \in DOMAIN reg.plans[u] : reg.plans[u][i] = t
      BY <2>2 DEF PlanSets, Elems
    <3>2. i \in 1 .. Len(reg.plans[u]) /\ Len(reg.plans[u]) \in Nat /\ Len(reg.plans[u]) <= MaxPlans
      BY <1>2
    <3>3. i \in 1 .. MaxPlans + 1
      BY <1>3, <3>2
    <3>4. <<u, i>> \in B
      BY <3>1, <3>3
    <3>5. QED
      BY <3>4
  <2>3. ASSUME NEW b \in B PROVE \E u \in Trees : t \in P[u]
    <3>1. b[1] \in Trees /\ b[2] \in DOMAIN reg.plans[b[1]] /\ reg.plans[b[1]][b[2]] = t
      OBVIOUS
    <3>2. t \in P[b[1]]
      BY <3>1 DEF PlanSets, Elems
    <3>3. QED
      BY <3>1, <3>2
  <2>4. Cardinality(B) = IF B = {} THEN 0 ELSE 1
    <3> HIDE DEF B
    <3> QED  BY <2>1, AtMostOne
  <2> HIDE DEF B, P
  <2>5. QED
    BY <2>2, <2>3, <2>4
<1>6. shape = 1 => Cardinality(S) = IF t \in Held THEN 1 ELSE 0
  <2> SUFFICES ASSUME shape = 1 PROVE Cardinality(S) = IF t \in Held THEN 1 ELSE 0
    OBVIOUS
  <2>1. \A a, b \in S : a = b
    BY <1>1, <1>3 DEF TakenOnce
  <2>2. S = {} <=> t \notin Held
    BY <1>3 DEF Held, Executing
  <2> HIDE DEF S
  <2>3. QED
    BY <2>1, <2>2, AtMostOne
<1>7. shape # 1 => Held = {}
  BY DEF Held
<1>8. Places(t) = (IF t \in L THEN 1 ELSE 0) + (IF \E u \in Trees : t \in P[u] THEN 1 ELSE 0)
                  + (IF t \in Held THEN 1 ELSE 0)
  <2>1. Places(t) = Cardinality(A) + Cardinality(B) + IF shape = 1 THEN Cardinality(S) ELSE 0
    BY DEF Places
  <2> HIDE DEF A, B, S, L, P
  <2>2. CASE shape = 1
    BY <1>4, <1>5, <1>6, <2>1, <2>2
  <2>3. CASE shape # 1
    <3>1. t \notin Held
      BY <1>7, <2>3
    <3>2. QED
      BY <1>4, <1>5, <2>1, <2>3, <3>1
  <2>4. QED
    BY <2>2, <2>3
<1>9. /\ (t \in L \/ t \in Held \/ \E u \in Trees : t \in P[u]) <=> reg.closes[t] = 0
      /\ ~(t \in L /\ t \in Held)
      /\ ~((t \in L \/ t \in Held) /\ \E u \in Trees : t \in P[u])
      /\ reg.closes[t] \in {0, 1}
  BY <1>2, <1>3 DEF Own
<1> HIDE DEF L, P
<1>10. QED
  BY <1>8, <1>9

\* Different entries have different names.
LEMMA InvOneEntry == KInv => OneEntryPerName
<1> SUFFICES ASSUME KInv, NEW n \in Names PROVE Cardinality(At(reg, n)) <= 1
  BY DEF OneEntryPerName
<1>1. reg.list \in Seq(Trees) /\ NameInv(reg, Held)
  BY DEF KInv, Sound, Registries
<1>2. \A a, b \in At(reg, n) : a = b
  BY <1>1 DEF At, NameInv
<1>3. QED
  BY <1>2, AtMostOne

\* The list holds no outdated tree that was not spared.
LEMMA InvOutdated == KInv => OutdatedOnlyIfExecuting
  BY DEF KInv, OutdatedInv, OutdatedOnlyIfExecuting, Elems

\* KInv is an invariant: whatever SQL an EXECUTE runs, every tree that is not closed
\* has one owner and every name one entry.
THEOREM KeptInductive == Spec => []KInv
<1>1. QED
  BY InitKept, StepKept, PTL DEF Spec

\* The types of the registry, the stack of EXECUTEs and the counters.
THEOREM KeptTypes == Spec => []TypeOK
<1>1. KInv => TypeOK
  BY DEF KInv
<1>2. QED
  BY <1>1, KeptInductive, PTL

\* No tree is leaked, closed twice, reachable after its close or closed under an
\* EXECUTE that has taken it, for every number of names, trees, plans and nested EXECUTEs.
THEOREM TreesOwnedOnce == Spec => []OwnedOnce
  BY InvOwnedOnce, KeptInductive, PTL

\* A name has one entry, however the nested EXECUTEs of the name return.
THEOREM NamesOnce == Spec => []OneEntryPerName
  BY InvOneEntry, KeptInductive, PTL

\* A tree compiled before a PREPARE of its name stays only if that PREPARE ran inside it.
THEOREM PrepareInvalidates == Spec => []OutdatedOnlyIfExecuting
  BY InvOutdated, KeptInductive, PTL

\* What an EXECUTE begins with: an open tree of this session and this text.
LEMMA StepServes ==
    ASSUME KInv, [Next]_vars, NEW t \in Trees,
           Len(stack') > Len(stack), stack'[1].kept = t
    PROVE  /\ reg.node[t].text = textOf[stack'[1].name]
           /\ reg.node[t].sid = sid
           /\ reg'.closes[t] = 0
<1>1. Sound(reg, Held, made) /\ stack \in Seq(Frames) /\ shape \in {0, 1} /\ Len(stack) \in Nat
  BY DEF KInv, TypeOK, Frames
<1>2. ASSUME NEW n \in Names, Execute(n)
      PROVE  /\ reg.node[t].text = textOf[stack'[1].name]
             /\ reg.node[t].sid = sid
             /\ reg'.closes[t] = 0
  <2> DEFINE y == textOf[n]
             x == unitseam_exec_checkout(reg, n, y)
             f == [name |-> n, kept |-> x.kept]
  <2>1. reg' = x.reg /\ stack' = <<f>> \o stack
    BY <1>2 DEF Execute
  <2>2. Served(x, reg, Held, made, y)
    <3> HIDE DEF y
    <3> QED  BY <1>1, CheckoutSound
  <2>3. f \in Frames
    <3>1. x.kept \in Trees \cup {None}
      <4> HIDE DEF x
      <4> QED  BY <2>2 DEF Served
    <3> HIDE DEF x
    <3>2. QED
      BY <3>1 DEF Frames
  <2> HIDE DEF x
  <2>4. f.kept = x.kept /\ f.name = n
    OBVIOUS
  <2> HIDE DEF f
  <2>5. stack'[1] = f
    BY <1>1, <2>1, <2>3, PushFrame
  <2>6. x.kept = t /\ t # None /\ stack'[1].name = n
    BY <2>4, <2>5, KeptTreesAssumption DEF Trees
  <2>7. QED
    BY <2>1, <2>2, <2>6 DEF Served
<1>3. Tail(stack) # stack' \/ stack = <<>>
  BY <1>1, PopFrame
<1>4. stack' # stack
  OBVIOUS
<1>5. ~ReturnOk /\ ~(\E miss \in BOOLEAN, sig \in Sigs : ReturnFresh(miss, sig))
  BY <1>3 DEF ReturnOk, ReturnFresh
<1>6. QED
  BY <1>2, <1>4, <1>5 DEF Next, vars, Prepare, Deallocate, ChangeSession

\* An EXECUTE that begins gets an open tree of its text and session, whatever came back
\* to the list since the PREPARE or the session change.
THEOREM ExecuteServesCurrent == Spec => ServesCurrent
<1>1. ASSUME KInv, [Next]_vars
      PROVE  [\A t \in Trees :
                (Len(stack') > Len(stack) /\ stack'[1].kept = t)
                  => /\ reg.node[t].text = textOf[stack'[1].name]
                     /\ reg.node[t].sid = sid
                     /\ reg'.closes[t] = 0]_vars
  BY <1>1, StepServes
<1>2. QED
  BY <1>1, KeptInductive, PTL DEF Spec, ServesCurrent

=============================================================================
