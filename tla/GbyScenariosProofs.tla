-------------------------- MODULE GbyScenariosProofs --------------------------
(***************************************************************************)
(* Proofs about GbyScenarios, as the suites' specification GroupBySuites     *)
(* runs it, for every size of the table (a power of two), every hash         *)
(* function and every number of keys, rows, groups and scenarios.            *)
(*                                                                         *)
(* A scenario is followed stage by stage.  The flush: what its set-up makes  *)
(* (FlushReady), the row path as a function of the rows (PathAt) and the     *)
(* flush compared with it (Replays).  The adds: which keys are in the cache  *)
(* after j of them (AddsDone).  The eviction: the cluster placed and noted   *)
(* (EvictPlaced) and what is left of it (EvictDone).  GInv has a conjunct    *)
(* for each stage and one for the result handed back, since the records of   *)
(* the fakes outlive a scenario.                                             *)
(***************************************************************************)
EXTENDS GroupBySuites, GbyCacheProofs

------------------------------------------------------------------------------
\* The set-up of a flush.

\* Groups of one flush have slots of their own: 37 is odd and the size a power
\* of two.
LEMMA FlushSlotsDiffer ==
    ASSUME NEW g \in Slots, NEW h \in Slots, FlushSlot(g) = FlushSlot(h)
    PROVE  g = h
<1> DEFINE D == g - h  a == 37 * g + 5  b == 37 * h + 5
           Q == (a \div Size) - (b \div Size)
<1>1. PICK x \in Nat, y \in Nat : 37 * x = 1 + Size * y BY InverseOf37
<1>2. Size \in Nat \ {0} /\ g \in 0 .. Size - 1 /\ h \in 0 .. Size - 1 BY SizeFacts DEF Slots
<1>3. a \in Int /\ b \in Int /\ D \in Int BY <1>2
<1>4. a % Size = b % Size BY DEF FlushSlot, Wrap
<1>5. Q \in Int /\ a - b = Q * Size
  <2>. HIDE DEF a, b
  <2>1. /\ a \div Size \in Int /\ a % Size \in 0 .. Size - 1
        /\ a = ((a \div Size) * Size) + (a % Size)
    BY <1>2, <1>3, Division
  <2>2. /\ b \div Size \in Int /\ b % Size \in 0 .. Size - 1
        /\ b = ((b \div Size) * Size) + (b % Size)
    BY <1>2, <1>3, Division
  <2> DEFINE m == a \div Size  n == b \div Size  r == a % Size
  <2>3. a = m * Size + r /\ b = n * Size + r /\ m \in Int /\ n \in Int /\ r \in Int /\ Q = m - n
    BY <1>4, <2>1, <2>2
  <2>. HIDE DEF m, n, r, Q
  <2>. QED BY <1>2, <2>3
<1>6. 37 * D = Q * Size
  <2>1. a - b = 37 * D BY <1>2
  <2>. QED BY <1>5, <2>1
<1>. HIDE DEF Q, D
<1>7. D = (x * Q - y * D) * Size
  <2>1. (37 * x) * D = (1 + Size * y) * D BY <1>1
  <2>2. (37 * x) * D = x * (37 * D) BY <1>3
  <2>3. x * (37 * D) = x * (Q * Size) BY <1>6
  <2>4. (1 + Size * y) * D = D + (y * D) * Size BY <1>2, <1>3
  <2>5. x * (Q * Size) = (x * Q) * Size BY <1>2, <1>5
  <2>6. (x * Q) * Size = D + (y * D) * Size BY <2>1, <2>2, <2>3, <2>4, <2>5
  <2>7. x * Q \in Int /\ y * D \in Int BY <1>3, <1>5
  <2> DEFINE m == x * Q  n == y * D
  <2>8. m \in Int /\ n \in Int /\ m * Size = D + n * Size BY <2>6, <2>7
  <2>. HIDE DEF m, n
  <2>9. D = (m - n) * Size BY <1>2, <1>3, <2>8
  <2>. QED BY <2>9 DEF m, n
<1> DEFINE e == x * Q - y * D
<1>8. e \in Int BY <1>3, <1>5
<1>9. D = e * Size BY <1>7
<1>. HIDE DEF e
<1>10. g + 0 * Size = h + e * Size BY <1>2, <1>8, <1>9 DEF D
<1>. QED BY <1>2, <1>8, <1>10, Remainder

\* Group g's entry.
FlushEntryFor(g) == [bytes |-> g, hash |-> FlushSlot(g), value |-> g]

\* World u is x with the entries of the first n groups.
Filled(x, n, u) ==
    /\ u \in Worlds /\ InOrder(u) /\ Frame(x, u) /\ u.fk = x.fk /\ u.st.n_cached = n
    /\ Contents(u) = {FlushEntryFor(g) : g \in 0 .. n - 1}
    /\ \A g \in 0 .. n - 1 : /\ u.st.cache[FlushSlot(g)] = FlushEntryFor(g)
                             /\ u.vals[g].batch_slot = FlushSlot(g) /\ u.vals[g].tuple_count = 0

\* A flush's groups are numbers of slots and of values.
LEMMA GroupNumbers ==
    /\ MaxGroups \in Nat /\ MaxGroups <= Half
    /\ \A g \in 0 .. MaxGroups - 1 : g \in Nat /\ g \in Slots /\ g \in Vals
    /\ \A g \in Nat : FlushSlot(g) \in Slots
<1>1. MaxGroups \in Nat /\ MaxGroups <= Half /\ MaxGroups \in 0 .. MaxVals BY GbyScenariosAssumption
<1>2. MaxVals \in Nat BY GbyCacheAssumption
<1>3. \A g \in 0 .. MaxGroups - 1 : g \in Nat /\ g \in Slots /\ g \in Vals
  BY <1>1, <1>2, SizeFacts DEF Slots, Vals
<1>4. ASSUME NEW g \in Nat PROVE FlushSlot(g) \in Slots
  <2>1. 37 * g + 5 \in Int OBVIOUS
  <2>. QED BY <2>1, WrapFacts DEF FlushSlot
<1>. QED BY <1>1, <1>3, <1>4

LEMMA FilledNext ==
    ASSUME NEW x \in Worlds, NEW n \in 1 .. MaxGroups, NEW u, Filled(x, n - 1, u)
    PROVE  Filled(x, n, FlushEntry(u, n - 1))
<1> DEFINE g == n - 1  s == FlushSlot(g)  e == FlushEntryFor(g)
           vals == [u.vals EXCEPT ![g] = ZeroVal]
           r == [u EXCEPT !.vals = vals]
           q == PlaceAt(r, s, e)
<1>1. /\ MaxGroups \in Nat /\ MaxGroups <= Half /\ g \in 0 .. MaxGroups - 1 /\ g \in Nat
      /\ g \in Slots /\ g \in Vals /\ s \in Slots /\ Half \in Nat
  <2>1. MaxGroups \in Nat /\ g \in 0 .. MaxGroups - 1 BY GroupNumbers
  <2>. HIDE DEF g
  <2>. QED BY <2>1, GroupNumbers, SizeFacts
<1>2. n \in Nat /\ n - 1 = g /\ 0 .. n - 1 = (0 .. g - 1) \cup {g} BY <1>1
<1>3. Filled(x, g, u) OBVIOUS
<1>4. FlushEntry(u, n - 1) = q BY DEF FlushEntry, FlushEntryFor
<1>5. \A y \in 0 .. g - 1 : y \in Slots /\ y \in Nat /\ y # g /\ y \in Vals
  BY <1>1, GroupNumbers
<1>. HIDE DEF g
<1>6. /\ u \in Worlds /\ u.vals \in Values /\ u.st.cache \in Tables BY <1>3 DEF Filled, Worlds, InOrder
<1>7. vals \in Values /\ vals[g] = ZeroVal /\ \A v \in Vals : v # g => vals[v] = u.vals[v]
  <2>1. ZeroVal \in [batch_slot : Slots \cup {NoSlot}, tuple_count : Nat]
    BY SizeFacts DEF ZeroVal, Slots
  <2>. QED BY <1>1, <1>6, <2>1 DEF Values
<1>. HIDE DEF vals
<1>8. r \in Worlds /\ r.st = u.st /\ r.vals = vals /\ r.fk = u.fk /\ Frame(x, r)
  <2>1. r \in Worlds /\ r.st = u.st /\ r.vals = vals /\ r.fk = u.fk /\ r.ctx = u.ctx /\ r.sel = u.sel
        /\ r.done = u.done
    BY <1>6, <1>7 DEF Worlds
  <2>. HIDE DEF r
  <2>. QED BY <1>3, <2>1 DEF Filled, Frame
<1>. HIDE DEF r
<1>9. \A c \in Contents(u) : \E y \in 0 .. g - 1 : c = FlushEntryFor(y) BY <1>3 DEF Filled
<1>10. \A c \in Contents(u) : c.value # g /\ c.bytes # g /\ c.value \in Vals
  BY <1>5, <1>9 DEF FlushEntryFor
<1>11. InOrder(r) /\ Contents(r) = Contents(u)
  <2>1. ASSUME NEW t \in Slots, u.st.cache[t] # Empty
        PROVE  vals[u.st.cache[t].value].batch_slot = t
    <3>1. u.st.cache[t] \in Contents(u)
      BY <1>6, <2>1, OccupiedFacts DEF Contents
    <3>2. u.st.cache[t].value # g /\ u.st.cache[t].value \in Vals BY <1>10, <3>1
    <3>3. Named(u.st.cache, u.vals) BY <1>3 DEF Filled, InOrder
    <3>. QED BY <1>7, <2>1, <3>2, <3>3 DEF Named
  <2>2. Named(r.st.cache, r.vals) BY <1>8, <2>1 DEF Named
  <2>3. InOrder(u) BY <1>3 DEF Filled
  <2>. QED BY <1>8, <2>2, <2>3 DEF InOrder, Contents
<1>12. e \in Entries /\ e.hash = s /\ e.bytes = g /\ e.value = g
  <2>1. s \in Nat BY <1>1, SizeFacts DEF Slots
  <2>. QED BY <1>1, <2>1 DEF Entries, FlushEntryFor
<1>13. u.st.cache[s] = Empty
  <2>1. ASSUME u.st.cache[s] # Empty PROVE FALSE
    <3>1. u.st.cache[s] \in Contents(u) BY <1>1, <1>6, <2>1, OccupiedFacts DEF Contents
    <3>2. PICK y \in 0 .. g - 1 : u.st.cache[s] = FlushEntryFor(y) BY <1>9, <3>1
    <3>3. u.st.cache[FlushSlot(y)] = FlushEntryFor(y) /\ u.vals[y].batch_slot = FlushSlot(y)
      BY <1>3 DEF Filled
    <3>4. u.vals[y].batch_slot = s
      <4>1. Named(u.st.cache, u.vals) BY <1>3 DEF Filled, InOrder
      <4>. QED BY <1>1, <2>1, <3>2, <4>1 DEF Named, FlushEntryFor
    <3>5. y = g BY <1>1, <1>5, <3>3, <3>4, FlushSlotsDiffer
    <3>. QED BY <1>5, <3>5
  <2>. QED BY <2>1
<1>14. \A y \in Slots : y # s => Dist(s, Wrap(e.hash)) < Dist(s, y)
  <2>1. Wrap(e.hash) = s BY <1>1, <1>12, WrapFacts
  <2>2. ASSUME NEW y \in Slots, y # s PROVE Dist(s, s) < Dist(s, y)
    <3>1. Size \in Nat /\ s \in 0 .. Size - 1 /\ y \in 0 .. Size - 1 BY <1>1, SizeFacts DEF Slots
    <3>. HIDE DEF s
    <3>. QED BY <2>2, <3>1 DEF Dist
  <2>. QED BY <2>1, <2>2
<1>. HIDE DEF e
<1>15. Placed(r, s, e, q)
  <2>1. r.st.n_cached < Half /\ r.st.cache[s] = Empty BY <1>1, <1>3, <1>8, <1>13 DEF Filled
  <2>2. \A c \in Contents(r) : c.bytes # e.bytes /\ c.value # e.value BY <1>10, <1>11, <1>12
  <2>. HIDE DEF s
  <2>. QED BY <1>1, <1>8, <1>11, <1>12, <1>14, <2>1, <2>2, PlaceInOrder
<1>. HIDE DEF q
<1>16. q \in Worlds /\ InOrder(q) /\ q.fk = x.fk /\ Frame(x, q)
  BY <1>3, <1>8, <1>15 DEF Placed, Frame, Filled
<1>17. q.st.n_cached = n BY <1>1, <1>2, <1>3, <1>8, <1>15 DEF Placed, Filled
<1>18. Contents(q) = {FlushEntryFor(y) : y \in 0 .. n - 1}
  <2>1. Contents(q) = {FlushEntryFor(y) : y \in 0 .. g - 1} \cup {e}
    BY <1>3, <1>11, <1>15 DEF Placed, Filled
  <2>. QED BY <1>2, <2>1 DEF e
<1>19. ASSUME NEW y \in 0 .. n - 1
       PROVE  /\ q.st.cache[FlushSlot(y)] = FlushEntryFor(y)
              /\ q.vals[y].batch_slot = FlushSlot(y) /\ q.vals[y].tuple_count = 0
  <2>1. CASE y = g
    <3>1. q.st.cache[s] = e /\ q.vals[g].batch_slot = s BY <1>12, <1>15 DEF Placed
    <3>2. q.vals[g].tuple_count = 0 BY <1>1, <1>7, <1>8, <1>15 DEF Placed, ZeroVal
    <3>. QED BY <2>1, <3>1, <3>2 DEF e
  <2>2. CASE y # g
    <3>1. y \in 0 .. g - 1 BY <1>2, <2>2
    <3>2. y \in Vals /\ y \in Slots /\ y \in Nat /\ FlushSlot(y) \in Slots BY <1>5, <3>1, GroupNumbers
    <3>3. FlushSlot(y) # s BY <1>1, <2>2, <3>2, FlushSlotsDiffer
    <3>4. q.st.cache[FlushSlot(y)] = u.st.cache[FlushSlot(y)] BY <1>8, <1>15, <3>2, <3>3 DEF Placed
    <3>5. q.vals[y] = u.vals[y] BY <1>7, <1>8, <1>12, <1>15, <2>2, <3>2 DEF Placed
    <3>. QED BY <1>3, <3>1, <3>4, <3>5 DEF Filled
  <2>. QED BY <2>1, <2>2
<1>. QED BY <1>4, <1>16, <1>17, <1>18, <1>19 DEF Filled

\* The entries of a flush are placed one group after the other.
LEMMA FlushEntriesFilled ==
    ASSUME NEW x \in Worlds, InOrder(x), Contents(x) = {}, x.st.n_cached = 0, NEW ng \in 0 .. MaxGroups
    PROVE  Filled(x, ng, FlushEntries(x, ng))
<1> DEFINE nx(u, n) == FlushEntry(u, n - 1)
           I == [d \in 0 .. ng |-> {u \in Worlds : Filled(x, d, u)}]
           nxt == [q \in Worlds \X (1 .. ng) |-> nx(q[1], q[2])]
           Is(f) == f = [g \in 0 .. ng |-> IF g = 0 THEN x ELSE FlushEntry(f[g - 1], g - 1)]
           put == CHOOSE f : Is(f)
<1>1. ng \in Nat /\ MaxGroups \in Nat BY GroupNumbers
<1>2. I \in [0 .. ng -> SUBSET Worlds] OBVIOUS
<1>3. FlushEntries(x, ng) = put[ng] BY DEF FlushEntries
<1>4. Filled(x, 0, x)
  <2>1. 0 .. 0 - 1 = {} OBVIOUS
  <2>2. Contents(x) = {FlushEntryFor(g) : g \in 0 .. 0 - 1} BY <2>1
  <2>. QED BY <2>1, <2>2 DEF Filled, Frame
<1>5. x \in I[0] BY <1>1, <1>4
<1>6. ASSUME NEW d \in 1 .. ng, NEW u \in I[d - 1] PROVE nx(u, d) \in I[d]
  <2>1. d - 1 \in 0 .. ng /\ d \in 0 .. ng /\ d \in 1 .. MaxGroups BY <1>1
  <2>2. Filled(x, d - 1, u) BY <2>1
  <2>3. Filled(x, d, nx(u, d)) BY <2>1, <2>2, FilledNext
  <2>4. nx(u, d) \in Worlds BY <2>3 DEF Filled
  <2>. HIDE DEF nx
  <2>. QED BY <2>1, <2>3, <2>4
<1>9a. \A f : Is(f) <=> f = [g \in 0 .. ng |-> IF g = 0 THEN x ELSE nx(f[g - 1], g)] OBVIOUS
<1>. HIDE DEF nx
<1>7. ASSUME NEW d \in 1 .. ng, NEW u \in I[d - 1] PROVE nxt[<<u, d>>] = nx(u, d)
  <2>1. u \in Worlds BY <1>1
  <2>. QED BY <2>1
<1>8. PICK f : Iterates(f, ng, Worlds, x, nxt) /\ \A d \in 0 .. ng : f[d] \in I[d]
  <2>1. \A d \in 1 .. ng : \A u \in I[d - 1] : nxt[<<u, d>>] \in I[d] BY <1>6, <1>7
  <2>. HIDE DEF I, nxt
  <2>. QED BY <1>1, <1>2, <1>5, <2>1, RecursionWithin
<1>9. Is(f)
  <2>1. f \in [0 .. ng -> Worlds] /\ f[0] = x BY <1>8 DEF Iterates
  <2>2. ASSUME NEW d \in 1 .. ng PROVE f[d] = nx(f[d - 1], d)
    <3>. HIDE DEF nxt, I
    <3>1. d - 1 \in 0 .. ng BY <1>1
    <3>2. f[d - 1] \in I[d - 1] BY <1>8, <3>1
    <3>3. f[d] = nxt[<<f[d - 1], d>>] BY <1>8 DEF Iterates
    <3>. QED BY <1>7, <3>2, <3>3
  <2>3. f = [g \in 0 .. ng |-> IF g = 0 THEN x ELSE nx(f[g - 1], g)] BY <1>1, <2>1, <2>2
  <2>. HIDE DEF Is
  <2>. QED BY <1>9a, <2>3
<1>10. Is(put)
  <2>. HIDE DEF Is
  <2>. QED BY <1>9
<1>. HIDE DEF put
<1> DEFINE S == {d \in 0 .. ng : put[d] \in I[d]}
<1>11. \A t \in 0 .. ng : put[t] = IF t = 0 THEN x ELSE nx(put[t - 1], t)
  <2>1. put = [g \in 0 .. ng |-> IF g = 0 THEN x ELSE nx(put[g - 1], g)]
    <3>. HIDE DEF Is
    <3>. QED BY <1>9a, <1>10
  <2> DEFINE y == put
  <2>2. \A h : h = [g \in 0 .. ng |-> IF g = 0 THEN x ELSE nx(y[g - 1], g)]
               => \A t \in 0 .. ng : h[t] = IF t = 0 THEN x ELSE nx(y[t - 1], t)
    OBVIOUS
  <2>. QED BY <2>1, <2>2
<1>. HIDE DEF I
<1>12. 0 \in S BY <1>1, <1>5, <1>11
<1>13. ASSUME NEW d \in 1 .. ng, d - 1 \in S PROVE d \in S
  <2>1. d \in 0 .. ng /\ d # 0 /\ put[d - 1] \in I[d - 1] BY <1>1, <1>13
  <2>2. put[d] = nx(put[d - 1], d) BY <1>11, <2>1
  <2>. QED BY <1>6, <2>1, <2>2
<1>14. ng \in S
  <2>1. ng \in 0 .. ng BY <1>1
  <2>. HIDE DEF S
  <2>. QED BY <1>1, <1>12, <1>13, <2>1, Induction
<1>15. put[ng] \in I[ng] BY <1>14
<1>16. Filled(x, ng, put[ng]) BY <1>1, <1>15 DEF I
<1>. QED BY <1>3, <1>16

\* The arguments of a flush scenario.
FlushArgs(a) ==
    /\ a.kind = "flush" /\ a.ng \in 1 .. MaxGroups /\ a.tuples \in Nat /\ a.groups \in Nat
    /\ \E n \in 1 .. MaxPend : a.grp \in [1 .. n -> 0 .. a.ng - 1]

\* The world a flush is called in.
FlushReady(a, u) ==
    /\ u \in Worlds /\ InOrder(u) /\ u.st.n_cached = a.ng /\ ~u.st.off
    /\ u.fk.eval = <<>> /\ u.fk.get = <<>> /\ u.fk.n_dump = 0 /\ u.fk.n_sync = 0
    /\ u.ctx = NewCtx(a.tuples, a.groups) /\ u.sel = CallerSel
    /\ u.st.pend = [t \in DOMAIN a.grp |-> [row |-> t, ent |-> FlushSlot(a.grp[t])]]
    /\ \A g \in 0 .. a.ng - 1 : /\ u.st.cache[FlushSlot(g)] = FlushEntryFor(g)
                                /\ u.vals[g].batch_slot = FlushSlot(g) /\ u.vals[g].tuple_count = 0

\* A zeroed batch state.
LEMMA ZeroStFacts ==
    /\ ZeroSt \in States /\ ZeroSt.cache = NullCache /\ ZeroSt.n_cached = 0 /\ ZeroSt.n_pool_free = 0
    /\ ZeroSt.off = FALSE
    /\ \A x : x.st = ZeroSt => Contents(x) = {}
<1>1. <<>> \in Pends BY DEF Pends
<1>2. Occupied(NullCache) = {} BY DEF Occupied, NullCache
<1>. QED BY <1>1, <1>2 DEF ZeroSt, States, Caches, Contents

\* The batch state of a world zeroed.
LEMMA ZeroStWorld ==
    ASSUME NEW x \in Worlds
    PROVE  LET u == [x EXCEPT !.st = ZeroSt]
           IN u \in Worlds /\ u.st = ZeroSt /\ u.vals = x.vals /\ u.fk = x.fk /\ u.ctx = x.ctx
BY ZeroStFacts DEF Worlds

\* The numbers of the rows and of the groups of a flush.
LEMMA FlushArgsFacts ==
    ASSUME NEW a, FlushArgs(a)
    PROVE  /\ Len(a.grp) \in 1 .. MaxPend /\ Len(a.grp) \in Nat /\ Len(a.grp) # 0
           /\ DOMAIN a.grp = 1 .. Len(a.grp)
           /\ \A t \in 1 .. Len(a.grp) : /\ a.grp[t] \in 0 .. a.ng - 1 /\ a.grp[t] \in Nat
                                         /\ a.grp[t] \in Vals /\ a.grp[t] \in Slots
           /\ a.ng \in Nat /\ a.ng \in 0 .. MaxGroups
           /\ \A g \in 0 .. a.ng - 1 : g \in 0 .. MaxGroups - 1 /\ g \in Nat /\ g \in Vals /\ g \in Slots
<1>1. PICK n \in 1 .. MaxPend : a.grp \in [1 .. n -> 0 .. a.ng - 1] BY DEF FlushArgs
<1>2. n \in Nat /\ n # 0 BY GbyScenariosAssumption
<1>3. Len(a.grp) = n BY <1>1, <1>2
<1>4. a.ng \in Nat /\ a.ng \in 0 .. MaxGroups BY GroupNumbers DEF FlushArgs
<1>5. \A g \in 0 .. a.ng - 1 : g \in 0 .. MaxGroups - 1 BY <1>4, GroupNumbers
<1>6. \A g \in 0 .. a.ng - 1 : g \in Nat /\ g \in Vals /\ g \in Slots BY <1>5, GroupNumbers
<1>. QED BY <1>1, <1>2, <1>3, <1>4, <1>5, <1>6

LEMMA FlushSetupReady ==
    ASSUME NEW x \in Worlds, NEW a, FlushArgs(a)
    PROVE  LET u == FlushEntries(qexec_gby_pool_reset(FlushReset([x EXCEPT !.st = ZeroSt])), a.ng)
           IN FlushReady(a, [u EXCEPT !.ctx = NewCtx(a.tuples, a.groups), !.sel = CallerSel, !.done = 0,
                                      !.st.pend = [t \in DOMAIN a.grp |->
                                                     [row |-> t, ent |-> FlushSlot(a.grp[t])]]])
<1> DEFINE z == [x EXCEPT !.st = ZeroSt]
           fk == [x.fk EXCEPT !.get = <<>>, !.eval = <<>>, !.n_dump = 0, !.n_sync = 0]
           y == [z EXCEPT !.fk = fk]
           r == qexec_gby_pool_reset(y)
           u == FlushEntries(r, a.ng)
           pend == [t \in DOMAIN a.grp |-> [row |-> t, ent |-> FlushSlot(a.grp[t])]]
           st == [u.st EXCEPT !.pend = pend]
           ctx == NewCtx(a.tuples, a.groups)
           q == [u EXCEPT !.ctx = ctx, !.sel = CallerSel, !.done = 0, !.st = st]
<1>1. z \in Worlds /\ z.st = ZeroSt /\ z.fk = x.fk BY ZeroStWorld
<1>. HIDE DEF z
<1>2. x.fk \in Fakes BY DEF Worlds
<1>3. FlushReset(z) = y BY <1>1, <1>2 DEF FlushReset, Worlds, Fakes
<1>4. /\ fk \in Fakes /\ fk.get = <<>> /\ fk.eval = <<>> /\ fk.n_dump = 0 /\ fk.n_sync = 0
  <2>1. <<>> \in Evals /\ <<>> \in Seq(Nat) BY DEF Evals
  <2>. QED BY <1>2, <2>1 DEF Fakes
<1>. HIDE DEF fk
<1>5. y \in Worlds /\ y.st = ZeroSt /\ y.fk = fk BY <1>1, <1>4 DEF Worlds
<1>. HIDE DEF y
<1>6. /\ r \in Worlds /\ InOrder(r) /\ Contents(r) = {} /\ r.st.n_cached = 0
      /\ Frame(y, r) /\ r.fk = y.fk
  BY <1>5, ResetInOrder
<1>. HIDE DEF r
<1>7. Filled(r, a.ng, u)
  <2>1. a.ng \in 0 .. MaxGroups BY FlushArgsFacts
  <2>. QED BY <1>6, <2>1, FlushEntriesFilled
<1>. HIDE DEF u
<1>8. u \in Worlds /\ u.fk = fk /\ u.st.off = FALSE
  BY <1>5, <1>6, <1>7, ZeroStFacts DEF Filled, Frame
<1>9. pend \in Pends
  <2> DEFINE R == [row : Nat, ent : Slots]  n == Len(a.grp)
  <2>1. n \in Nat /\ DOMAIN a.grp = 1 .. n BY FlushArgsFacts
  <2>2. \A t \in 1 .. n : [row |-> t, ent |-> FlushSlot(a.grp[t])] \in R
    BY <2>1, FlushArgsFacts, GroupNumbers
  <2>3. pend \in [1 .. n -> R] BY <2>1, <2>2
  <2>. HIDE DEF pend, R, n
  <2>4. pend \in Seq(R) BY <2>1, <2>3
  <2>. QED BY <2>4 DEF Pends, R
<1>10. ctx \in Contexts BY DEF NewCtx, Contexts, FlushArgs
<1>11. CallerSel \in Seq(Int) BY DEF CallerSel
<1>. HIDE DEF pend, ctx
<1>12. st \in States /\ st.pend = pend /\ st.cache = u.st.cache /\ st.n_cached = u.st.n_cached
       /\ st.n_pool_free = u.st.n_pool_free /\ st.off = u.st.off
  <2>1. u.st \in States BY <1>8 DEF Worlds
  <2>. QED BY <1>9, <2>1 DEF States
<1>13. [u EXCEPT !.ctx = ctx, !.sel = CallerSel, !.done = 0, !.st.pend = pend] = q
  BY <1>8 DEF Worlds
<1>. HIDE DEF st
<1>14. q \in Worlds /\ q.ctx = ctx /\ q.sel = CallerSel /\ q.st = st /\ q.vals = u.vals /\ q.fk = u.fk
  BY <1>8, <1>10, <1>11, <1>12 DEF Worlds
<1>. HIDE DEF q
<1>15. InOrder(q) BY <1>7, <1>12, <1>14 DEF InOrder, Filled
<1>16. FlushReady(a, q)
  BY <1>4, <1>7, <1>8, <1>12, <1>14, <1>15 DEF FlushReady, Filled, ctx, pend
<1>17. FlushEntries(qexec_gby_pool_reset(FlushReset([x EXCEPT !.st = ZeroSt])), a.ng) = u
  BY <1>3 DEF u, r, z
<1>. QED BY <1>13, <1>16, <1>17 DEF ctx, pend

------------------------------------------------------------------------------
\* The row path, and what a flush hands back.

\* The rows a flush does end at the first one whose check gives the table up.
DoneBy(a, d) ==
    /\ d \in 1 .. Len(a.grp)
    /\ \A t \in 1 .. Len(a.grp) : t < d => ~GivesUp(a.tuples + t, a.groups)
    /\ d < Len(a.grp) => GivesUp(a.tuples + d, a.groups)

\* The pending rows p of a flush: row t is of the entry of group grp[t].
RowsGiven(a, u, p) ==
    /\ PendsCached(u, p) /\ Len(p) \in 1 .. Len(a.grp)
    /\ \A t \in 1 .. Len(p) : /\ p[t].row = t /\ p[t].ent = FlushSlot(a.grp[t])
                              /\ GroupAt(u, p, t) = a.grp[t]
                              /\ u.st.cache[p[t].ent].bytes = a.grp[t]
    /\ \A t \in 1 .. Len(p) : \A g \in 0 .. a.ng - 1 : p[t].ent = FlushSlot(g) <=> a.grp[t] = g

LEMMA FlushRows ==
    ASSUME NEW a, FlushArgs(a), NEW u, FlushReady(a, u)
    PROVE  LET n == Len(a.grp)
               d == Done(u, n)
               p == SubSeq(u.st.pend, 1, d)
           IN /\ n = Len(u.st.pend) /\ DoneBy(a, d) /\ RowsGiven(a, u, p) /\ Len(p) = d
              /\ PendsCached(u, u.st.pend)
<1> DEFINE n == Len(a.grp)  d == Done(u, n)  q == u.st.pend  p == SubSeq(q, 1, d)
<1>1. n \in Nat /\ n # 0 /\ DOMAIN a.grp = 1 .. n BY FlushArgsFacts
<1>2. q = [t \in 1 .. n |-> [row |-> t, ent |-> FlushSlot(a.grp[t])]] BY <1>1 DEF FlushReady
<1>3. u \in Worlds /\ q \in Pends BY DEF FlushReady, Worlds, States
<1>. HIDE DEF n
<1>4. Len(q) = n
  <2>1. DOMAIN q = 1 .. n BY <1>2
  <2>2. q \in Seq([row : Nat, ent : Slots]) BY <1>3 DEF Pends
  <2>. QED BY <1>1, <2>1, <2>2
<1>5. d \in 1 .. n /\ p \in Pends /\ Len(p) = d /\ \A t \in 1 .. d : p[t] = q[t]
  BY <1>1, <1>3, <1>4, DoneFacts
<1>6. DoneBy(a, d)
  <2> DEFINE r == CheckAt - a.tuples
             y == r \in 1 .. n /\ GivesUp(CheckAt, a.groups)
  <2>1. u.ctx.tuple_count = a.tuples /\ u.ctx.group_count = a.groups
    BY DEF FlushReady, NewCtx
  <2>2. d = IF y THEN r ELSE n BY <2>1 DEF Done
  <2>3. a.tuples \in Nat /\ CheckAt \in Nat BY GbyCacheAssumption DEF FlushArgs
  <2>4. ASSUME NEW t \in 1 .. n, t < d PROVE ~GivesUp(a.tuples + t, a.groups)
    <3>1. CASE y
      <4>1. a.tuples + t # CheckAt BY <2>2, <2>3, <2>4, <3>1, <1>1
      <4>. QED BY <4>1 DEF GivesUp
    <3>2. CASE ~y
      <4>1. ASSUME GivesUp(a.tuples + t, a.groups) PROVE FALSE
        <5>1. a.tuples + t = CheckAt /\ GivesUp(CheckAt, a.groups) BY <4>1 DEF GivesUp
        <5>2. r = t BY <1>1, <2>3, <5>1
        <5>. QED BY <3>2, <5>1, <5>2
      <4>. QED BY <4>1
    <3>. QED BY <3>1, <3>2
  <2>5. ASSUME d < n PROVE GivesUp(a.tuples + d, a.groups)
    <3>1. y BY <1>1, <2>2, <2>5
    <3>2. a.tuples + d = CheckAt BY <2>2, <2>3, <3>1
    <3>. QED BY <3>1, <3>2
  <2>. HIDE DEF d
  <2>. QED BY <1>5, <2>4, <2>5 DEF DoneBy, n
<1>. HIDE DEF d, p
<1>7. \A t \in 1 .. n : q[t].row = t /\ q[t].ent = FlushSlot(a.grp[t]) BY <1>2
<1>8. ASSUME NEW t \in 1 .. n
      PROVE  /\ a.grp[t] \in 0 .. a.ng - 1
             /\ u.st.cache[q[t].ent] = FlushEntryFor(a.grp[t]) /\ u.st.cache[q[t].ent] # Empty
  <2>1. a.grp[t] \in 0 .. a.ng - 1 /\ a.grp[t] \in Nat BY FlushArgsFacts DEF n
  <2>2. u.st.cache[q[t].ent] = FlushEntryFor(a.grp[t]) BY <1>7, <2>1 DEF FlushReady
  <2>3. FlushEntryFor(a.grp[t]) # Empty BY <2>1 DEF FlushEntryFor, Empty
  <2>. QED BY <2>1, <2>2, <2>3
<1>9. PendsCached(u, q) BY <1>3, <1>4, <1>8 DEF PendsCached
<1>10. \A t \in 1 .. d : t \in 1 .. n BY <1>1, <1>5
<1>11. PendsCached(u, p) BY <1>5, <1>8, <1>10 DEF PendsCached
<1>12. ASSUME NEW t \in 1 .. d
       PROVE  /\ p[t].row = t /\ p[t].ent = FlushSlot(a.grp[t])
              /\ GroupAt(u, p, t) = a.grp[t] /\ u.st.cache[p[t].ent].bytes = a.grp[t]
  <2>1. t \in 1 .. n /\ p[t] = q[t] BY <1>5, <1>10
  <2>2. p[t].row = t /\ p[t].ent = FlushSlot(a.grp[t]) /\ u.st.cache[p[t].ent] = FlushEntryFor(a.grp[t])
    <3>. HIDE DEF q
    <3>. QED BY <1>7, <1>8, <2>1
  <2>3. FlushEntryFor(a.grp[t]).value = a.grp[t] /\ FlushEntryFor(a.grp[t]).bytes = a.grp[t]
    BY DEF FlushEntryFor
  <2>. QED BY <2>2, <2>3 DEF GroupAt
<1>13. ASSUME NEW t \in 1 .. d, NEW g \in 0 .. a.ng - 1
       PROVE  p[t].ent = FlushSlot(g) <=> a.grp[t] = g
  <2>1. a.grp[t] \in Slots /\ g \in Slots BY <1>10, FlushArgsFacts DEF n
  <2>. QED BY <1>12, <2>1, FlushSlotsDiffer
<1>14. RowsGiven(a, u, p) BY <1>5, <1>11, <1>12, <1>13 DEF RowsGiven, n
<1>. QED BY <1>4, <1>5, <1>6, <1>9, <1>14 DEF n, d, p

\* A state of the row path.
Paths == [acc : [Vals -> Seq(Nat)], touched : [Vals -> Nat], n : Nat, off : BOOLEAN]

\* The rows of slot s among the first ones of p.
Upto(p, s) == CHOOSE f : RowsUpto(p, s, f) /\ RowsOf(p, s) = f[Len(p)]

LEMMA UptoFacts ==
    ASSUME NEW p \in Pends, NEW s
    PROVE  RowsUpto(p, s, Upto(p, s)) /\ RowsOf(p, s) = Upto(p, s)[Len(p)]
BY RowsOfAt DEF Upto

\* Row y is the last one of group g among the first m, or there is none.
LastRow(grp, g, m, y) ==
    \/ y = 0 /\ \A z \in 1 .. m : grp[z] # g
    \/ y \in 1 .. m /\ grp[y] = g /\ \A z \in y + 1 .. m : grp[z] # g

\* The state x of the row path after m rows, none of them after the last one of p.
PathAt(a, p, m, x) ==
    /\ x \in Paths /\ x.n = a.tuples + m
    /\ x.off <=> m = Len(p) /\ GivesUp(a.tuples + m, a.groups)
    /\ \A g \in 0 .. a.ng - 1 : /\ x.acc[g] = Upto(p, FlushSlot(g))[m]
                                /\ LastRow(a.grp, g, m, x.touched[g])

\* A step of the row path.
PathStep(a, x, t) ==
    IF x.off THEN x
    ELSE [acc |-> [x.acc EXCEPT ![a.grp[t]] = Append(@, t)],
          touched |-> [x.touched EXCEPT ![a.grp[t]] = t],
          n |-> x.n + 1, off |-> GivesUp(x.n + 1, a.groups)]

LEMMA LastRowNext ==
    ASSUME NEW grp, NEW g, NEW m \in Nat \ {0}, NEW y, LastRow(grp, g, m - 1, y)
    PROVE  LastRow(grp, g, m, IF grp[m] = g THEN m ELSE y)
<1>1. CASE grp[m] = g
  <2>1. m \in 1 .. m /\ m + 1 .. m = {} OBVIOUS
  <2>. QED BY <1>1, <2>1 DEF LastRow
<1>2. CASE grp[m] # g
  <2>1. \A z \in 1 .. m : z \in 1 .. m - 1 \/ z = m OBVIOUS
  <2>2. CASE y = 0 /\ \A z \in 1 .. m - 1 : grp[z] # g BY <1>2, <2>1, <2>2 DEF LastRow
  <2>3. CASE y \in 1 .. m - 1 /\ grp[y] = g /\ \A z \in y + 1 .. m - 1 : grp[z] # g
    <3>1. y \in 1 .. m BY <2>3
    <3>2. \A z \in y + 1 .. m : z \in y + 1 .. m - 1 \/ z = m BY <2>3
    <3>. QED BY <1>2, <2>3, <3>1, <3>2 DEF LastRow
  <2>. QED BY <2>2, <2>3 DEF LastRow
<1>. QED BY <1>1, <1>2

LEMMA PathNext ==
    ASSUME NEW a, FlushArgs(a), NEW u, NEW p, RowsGiven(a, u, p), DoneBy(a, Len(p)),
           NEW t \in 1 .. Len(p), NEW x, PathAt(a, p, t - 1, x)
    PROVE  PathAt(a, p, t, PathStep(a, x, t))
<1> DEFINE h == a.grp[t]
           acc == [x.acc EXCEPT ![h] = Append(@, t)]
           touched == [x.touched EXCEPT ![h] = t]
           q == [acc |-> acc, touched |-> touched, n |-> x.n + 1, off |-> GivesUp(x.n + 1, a.groups)]
<1>1. Len(a.grp) \in Nat /\ Len(p) \in Nat /\ t \in Nat \ {0} /\ t \in 1 .. Len(a.grp)
      /\ t - 1 # Len(p)
  <2>1. Len(a.grp) \in Nat BY FlushArgsFacts
  <2>2. Len(p) \in Nat /\ Len(p) <= Len(a.grp) BY <2>1 DEF RowsGiven
  <2>. QED BY <2>1, <2>2
<1>2. h \in Vals /\ h \in 0 .. a.ng - 1 BY <1>1, FlushArgsFacts
<1>3. p \in Pends BY DEF RowsGiven, PendsCached
<1>4. x \in Paths /\ ~x.off /\ x.n = a.tuples + (t - 1) BY <1>1 DEF PathAt
<1>5. a.tuples \in Nat BY DEF FlushArgs
<1>6. x.n + 1 = a.tuples + t /\ x.n + 1 \in Nat BY <1>1, <1>4, <1>5
<1>7. PathStep(a, x, t) = q BY <1>4 DEF PathStep
<1>8. x.acc \in [Vals -> Seq(Nat)] /\ x.touched \in [Vals -> Nat] BY <1>4 DEF Paths
<1>. HIDE DEF h
<1>9. acc \in [Vals -> Seq(Nat)] /\ touched \in [Vals -> Nat] BY <1>1, <1>2, <1>8
<1>10. acc[h] = Append(x.acc[h], t) /\ \A g \in Vals : g # h => acc[g] = x.acc[g] BY <1>2, <1>8
<1>11. touched[h] = t /\ \A g \in Vals : g # h => touched[g] = x.touched[g] BY <1>2, <1>8
<1>. HIDE DEF acc, touched
<1>12. q \in Paths /\ q.n = a.tuples + t /\ q.acc = acc /\ q.touched = touched
       /\ q.off = GivesUp(a.tuples + t, a.groups)
  <2>1. GivesUp(x.n + 1, a.groups) \in BOOLEAN BY DEF GivesUp
  <2>. QED BY <1>6, <1>9, <2>1 DEF Paths
<1>. HIDE DEF q
<1>13. q.off <=> t = Len(p) /\ GivesUp(a.tuples + t, a.groups)
  <2>1. t # Len(p) => ~GivesUp(a.tuples + t, a.groups) BY <1>1 DEF DoneBy
  <2>. QED BY <1>12, <2>1
<1>14. ASSUME NEW g \in 0 .. a.ng - 1
       PROVE  acc[g] = Upto(p, FlushSlot(g))[t] /\ LastRow(a.grp, g, t, touched[g])
  <2> DEFINE f == Upto(p, FlushSlot(g))
  <2>1. g \in Vals BY FlushArgsFacts
  <2>2. f[t] = IF p[t].ent = FlushSlot(g) THEN Append(f[t - 1], p[t].row) ELSE f[t - 1]
    BY <1>3, UptoFacts DEF RowsUpto
  <2>. HIDE DEF f
  <2>3. x.acc[g] = f[t - 1] /\ LastRow(a.grp, g, t - 1, x.touched[g]) BY DEF PathAt, f
  <2>4. p[t].row = t /\ (p[t].ent = FlushSlot(g) <=> h = g) BY DEF RowsGiven, h
  <2>5. acc[g] = f[t] BY <1>10, <2>1, <2>2, <2>3, <2>4
  <2>6. touched[g] = IF a.grp[t] = g THEN t ELSE x.touched[g] BY <1>11, <2>1 DEF h
  <2>7. LastRow(a.grp, g, t, touched[g]) BY <1>1, <2>3, <2>6, LastRowNext
  <2>. QED BY <2>5, <2>7 DEF f
<1>. QED BY <1>7, <1>12, <1>13, <1>14 DEF PathAt

\* The row path does the rows of p and no more.
LEMMA RowPathFacts ==
    ASSUME NEW a, FlushArgs(a), NEW u, NEW p, RowsGiven(a, u, p), DoneBy(a, Len(p))
    PROVE  PathAt(a, p, Len(p), RowPath(a.grp, a.tuples, a.groups))
<1> DEFINE N == Len(a.grp)  D == Len(p)
           m(t) == IF t <= D THEN t ELSE D
           x0 == [acc |-> [g \in Vals |-> <<>>], touched |-> [g \in Vals |-> 0],
                  n |-> a.tuples, off |-> FALSE]
           I == [d \in 0 .. N |-> {x \in Paths : PathAt(a, p, m(d), x)}]
           nxt == [q \in Paths \X (1 .. N) |-> PathStep(a, q[1], q[2])]
           Is(f) == f = [t \in 0 .. N |-> IF t = 0 THEN x0 ELSE PathStep(a, f[t - 1], t)]
           step == CHOOSE f : Is(f)
<1>1. N \in Nat /\ D \in 1 .. N /\ D \in Nat
  <2>1. N \in Nat BY FlushArgsFacts
  <2>2. D \in 1 .. N BY DEF RowsGiven
  <2>. QED BY <2>1, <2>2
<1>2. I \in [0 .. N -> SUBSET Paths] OBVIOUS
<1>3. RowPath(a.grp, a.tuples, a.groups) = step[N] BY DEF RowPath, PathStep
<1>4. PathAt(a, p, 0, x0)
  <2>1. <<>> \in Seq(Nat) OBVIOUS
  <2>2. a.tuples \in Nat BY DEF FlushArgs
  <2>3. x0 \in Paths /\ x0.n = a.tuples + 0 /\ ~x0.off BY <2>1, <2>2 DEF Paths
  <2>4. 0 # Len(p) BY <1>1
  <2>5. ASSUME NEW g \in 0 .. a.ng - 1
        PROVE  x0.acc[g] = Upto(p, FlushSlot(g))[0] /\ LastRow(a.grp, g, 0, x0.touched[g])
    <3>1. g \in Vals /\ p \in Pends BY FlushArgsFacts DEF RowsGiven, PendsCached
    <3>2. Upto(p, FlushSlot(g))[0] = <<>> BY <3>1, UptoFacts DEF RowsUpto
    <3>3. x0.acc[g] = <<>> /\ x0.touched[g] = 0 BY <3>1
    <3>4. 1 .. 0 = {} OBVIOUS
    <3>. HIDE DEF x0
    <3>. QED BY <3>2, <3>3, <3>4 DEF LastRow
  <2>. HIDE DEF x0
  <2>. QED BY <2>3, <2>4, <2>5 DEF PathAt
<1>. HIDE DEF N, D, x0
<1>5. x0 \in I[0]
  <2>1. m(0) = 0 /\ 0 \in 0 .. N BY <1>1
  <2>2. x0 \in Paths BY <1>4 DEF PathAt
  <2>. QED BY <1>4, <2>1, <2>2
<1>6. ASSUME NEW d \in 1 .. N, NEW x \in I[d - 1] PROVE PathStep(a, x, d) \in I[d]
  <2>1. d - 1 \in 0 .. N /\ d \in 0 .. N BY <1>1
  <2>2. PathAt(a, p, m(d - 1), x) BY <2>1
  <2>3. PathAt(a, p, m(d), PathStep(a, x, d))
    <3>1. CASE d <= D
      <4>1. d \in 1 .. D /\ m(d - 1) = d - 1 /\ m(d) = d BY <1>1, <3>1
      <4>. HIDE DEF m
      <4>. QED BY <2>2, <4>1, PathNext DEF D
    <3>2. CASE ~(d <= D)
      <4>1. m(d - 1) = D /\ m(d) = D /\ D < N BY <1>1, <3>2
      <4>2. GivesUp(a.tuples + D, a.groups) BY <4>1 DEF DoneBy, D, N
      <4>. HIDE DEF m
      <4>3. x.off BY <2>2, <4>1, <4>2 DEF PathAt, D
      <4>4. PathStep(a, x, d) = x BY <4>3 DEF PathStep
      <4>. QED BY <2>2, <4>1, <4>4
    <3>. QED BY <3>1, <3>2
  <2>4. PathStep(a, x, d) \in Paths BY <2>3 DEF PathAt
  <2>. HIDE DEF m
  <2>. QED BY <2>1, <2>3, <2>4
<1>. HIDE DEF m
<1>7. ASSUME NEW d \in 1 .. N, NEW x \in I[d - 1] PROVE nxt[<<x, d>>] = PathStep(a, x, d)
  <2>1. x \in Paths BY <1>1
  <2>. QED BY <2>1
<1>8. PICK f : Iterates(f, N, Paths, x0, nxt) /\ \A d \in 0 .. N : f[d] \in I[d]
  <2>1. \A d \in 1 .. N : \A x \in I[d - 1] : nxt[<<x, d>>] \in I[d] BY <1>6, <1>7
  <2>. HIDE DEF I, nxt
  <2>. QED BY <1>1, <1>2, <1>5, <2>1, RecursionWithin
<1>9. Is(f)
  <2>1. f \in [0 .. N -> Paths] /\ f[0] = x0 BY <1>8 DEF Iterates
  <2>2. ASSUME NEW d \in 1 .. N PROVE f[d] = PathStep(a, f[d - 1], d)
    <3>. HIDE DEF nxt, I
    <3>1. d - 1 \in 0 .. N BY <1>1
    <3>2. f[d - 1] \in I[d - 1] BY <1>8, <3>1
    <3>3. f[d] = nxt[<<f[d - 1], d>>] BY <1>8 DEF Iterates
    <3>. QED BY <1>7, <3>2, <3>3
  <2>. QED BY <1>1, <2>1, <2>2
<1>10. Is(step)
  <2>. HIDE DEF Is
  <2>. QED BY <1>9
<1>. HIDE DEF step
<1> DEFINE S == {d \in 0 .. N : step[d] \in I[d]}
<1>11. \A t \in 0 .. N : step[t] = IF t = 0 THEN x0 ELSE PathStep(a, step[t - 1], t) BY <1>10
<1>. HIDE DEF I
<1>12. 0 \in S BY <1>1, <1>5, <1>11
<1>13. ASSUME NEW d \in 1 .. N, d - 1 \in S PROVE d \in S
  <2>1. d \in 0 .. N /\ d # 0 /\ step[d - 1] \in I[d - 1] BY <1>1, <1>13
  <2>2. step[d] = PathStep(a, step[d - 1], d) BY <1>11, <2>1
  <2>. QED BY <1>6, <2>1, <2>2
<1>14. N \in S
  <2>1. N \in 0 .. N BY <1>1
  <2>. HIDE DEF S
  <2>. QED BY <1>1, <1>12, <1>13, <2>1, Induction
<1>15. step[N] \in I[N] BY <1>14
<1>16. PathAt(a, p, m(N), step[N]) BY <1>1, <1>15 DEF I
<1>17. m(N) = D BY <1>1 DEF m
<1>. QED BY <1>3, <1>16, <1>17 DEF D, N

\* A slot without rows.
LEMMA RowsOfNone ==
    ASSUME NEW p \in Pends, NEW s, \A t \in 1 .. Len(p) : p[t].ent # s
    PROVE  RowsOf(p, s) = <<>>
<1> DEFINE N == Len(p)  f == Upto(p, s)  S == {t \in 0 .. N : f[t] = <<>>}
<1>1. N \in Nat BY DEF Pends
<1>2. RowsUpto(p, s, f) /\ RowsOf(p, s) = f[N] BY UptoFacts
<1>. HIDE DEF f
<1>3. f[0] = <<>> /\ \A t \in 1 .. N : f[t] = f[t - 1] BY <1>2 DEF RowsUpto
<1>. HIDE DEF N
<1>4. 0 \in S BY <1>1, <1>3
<1>5. \A t \in 1 .. N : t - 1 \in S => t \in S BY <1>1, <1>3
<1>6. N \in S
  <2>1. N \in 0 .. N BY <1>1
  <2>. HIDE DEF S
  <2>. QED BY <1>1, <1>4, <1>5, <2>1, Induction
<1>. QED BY <1>2, <1>6

\* The row path has rows of the groups that have some, in the flush's order.
RefFor(a, p, ref) ==
    /\ \A g \in 0 .. a.ng - 1 :
         /\ ref.acc[g] = RowsOf(p, FlushSlot(g)) /\ LastRow(a.grp, g, Len(p), ref.touched[g])
         /\ ref.acc[g] # <<>> <=> \E t \in 1 .. Len(p) : a.grp[t] = g
    /\ \A t \in 1 .. Len(p) :
         FirstOfGroup(p, t) => ref.acc[a.grp[t]] # <<>> /\ ref.acc[a.grp[t]][1] = t

LEMMA RefFacts ==
    ASSUME NEW a, FlushArgs(a), NEW u, NEW p, RowsGiven(a, u, p), NEW ref, PathAt(a, p, Len(p), ref)
    PROVE  RefFor(a, p, ref)
<1>1. p \in Pends /\ Len(p) \in Nat BY DEF RowsGiven, PendsCached, Pends
<1>2. \A g \in 0 .. a.ng - 1 : ref.acc[g] = RowsOf(p, FlushSlot(g))
  BY <1>1, UptoFacts DEF PathAt
<1>3. ASSUME NEW t \in 1 .. Len(p), FirstOfGroup(p, t)
      PROVE  ref.acc[a.grp[t]] # <<>> /\ ref.acc[a.grp[t]][1] = t
  <2>1. p[t].row = t /\ p[t].ent = FlushSlot(a.grp[t]) BY DEF RowsGiven
  <2>2. RowsOf(p, p[t].ent) # <<>> /\ RowsOf(p, p[t].ent)[1] = p[t].row BY <1>1, <1>3, RowsOfFirst
  <2>3. a.grp[t] \in 0 .. a.ng - 1
    <3>1. Len(a.grp) \in Nat BY FlushArgsFacts
    <3>2. t \in 1 .. Len(a.grp) BY <1>1, <3>1 DEF RowsGiven
    <3>. QED BY <3>2, FlushArgsFacts
  <2>. QED BY <1>2, <2>1, <2>2, <2>3
<1>4. ASSUME NEW g \in 0 .. a.ng - 1, NEW y \in 1 .. Len(p), a.grp[y] = g
      PROVE  ref.acc[g] # <<>>
  <2> DEFINE T == {t \in 1 .. Len(p) : a.grp[t] = g}
  <2>1. T \subseteq Nat /\ T # {} BY <1>1, <1>4
  <2>2. PICK t \in T : \A z \in T : t <= z
    <3>. HIDE DEF T
    <3>. QED BY <2>1, LeastNat
  <2>3. t \in 1 .. Len(p) /\ a.grp[t] = g /\ t \in Nat BY <1>1, <2>2
  <2>4. FirstOfGroup(p, t)
    <3>1. ASSUME NEW z \in 1 .. t - 1, p[z].ent = p[t].ent PROVE FALSE
      <4>1. z \in 1 .. Len(p) /\ z < t BY <1>1, <2>3
      <4>2. p[z].ent = FlushSlot(g) BY <2>3, <3>1 DEF RowsGiven
      <4>3. a.grp[z] = g BY <4>1, <4>2 DEF RowsGiven
      <4>. QED BY <2>2, <2>3, <4>1, <4>3
    <3>. QED BY <3>1 DEF FirstOfGroup
  <2>. QED BY <1>3, <2>3, <2>4
<1>5. ASSUME NEW g \in 0 .. a.ng - 1, \A t \in 1 .. Len(p) : a.grp[t] # g
      PROVE  ref.acc[g] = <<>>
  <2>1. \A t \in 1 .. Len(p) : p[t].ent # FlushSlot(g) BY <1>5 DEF RowsGiven
  <2>. QED BY <1>1, <1>2, <2>1, RowsOfNone
<1>6. \A g \in 0 .. a.ng - 1 : LastRow(a.grp, g, Len(p), ref.touched[g]) BY DEF PathAt
<1>. QED BY <1>2, <1>3, <1>4, <1>5, <1>6 DEF RefFor

\* Two sets that a function pairs have as many elements.
LEMMA SameCount ==
    ASSUME NEW A, NEW B, IsFiniteSet(A), NEW F \in [A -> B],
           \A x, y \in A : F[x] = F[y] => x = y, \A b \in B : \E x \in A : F[x] = b
    PROVE  IsFiniteSet(B) /\ Cardinality(B) = Cardinality(A)
<1>1. F \in Bijection(A, B) BY DEF Bijection, Injection, Surjection, IsInjective
<1>2. ExistsBijection(A, B) BY <1>1 DEF ExistsBijection
<1>. QED BY <1>2, FS_Bijection

\* The groups the row path has rows of.
Hit(a, ref) == {g \in 0 .. a.ng - 1 : ref.acc[g] # <<>>}

\* The calls of a flush are the ones the row path asks for.
CallsReplay(a, ref, calls) ==
    /\ \A j \in DOMAIN calls : calls[j].sel = ref.acc[calls[j].group]
    /\ {calls[j].group : j \in DOMAIN calls} = Hit(a, ref)
    /\ Len(calls) = Cardinality(Hit(a, ref))
    /\ \A j, l \in DOMAIN calls : j < l => calls[j].sel[1] < calls[l].sel[1]

LEMMA CallsAgree ==
    ASSUME NEW a, FlushArgs(a), NEW u, NEW p, RowsGiven(a, u, p), NEW ref, RefFor(a, p, ref),
           NEW calls \in Evals, CallsFor(u, p, calls)
    PROVE  CallsReplay(a, ref, calls)
<1> DEFINE L == Len(calls)  hit == Hit(a, ref)
<1>1. p \in Pends /\ Len(p) \in Nat /\ Len(a.grp) \in Nat /\ Len(p) <= Len(a.grp)
  <2>1. Len(a.grp) \in Nat BY FlushArgsFacts
  <2>. QED BY <2>1 DEF RowsGiven, PendsCached, Pends
<1>2. PICK pos : /\ Listed(pos, Firsts(p, Len(p))) /\ L = Len(pos)
                 /\ \A j \in 1 .. Len(pos) : calls[j] = CallFor(u, p, pos[j])
  BY DEF CallsFor
<1>3. L \in Nat /\ DOMAIN calls = 1 .. L BY DEF Evals
<1>4. ASSUME NEW j \in 1 .. L
      PROVE  /\ pos[j] \in 1 .. Len(p) /\ FirstOfGroup(p, pos[j])
             /\ calls[j].group = a.grp[pos[j]] /\ a.grp[pos[j]] \in 0 .. a.ng - 1
             /\ calls[j].sel = ref.acc[a.grp[pos[j]]] /\ a.grp[pos[j]] \in hit
             /\ calls[j].sel[1] = pos[j]
  <2>1. pos[j] \in Firsts(p, Len(p)) BY <1>2 DEF Listed
  <2>2. pos[j] \in 1 .. Len(p) /\ FirstOfGroup(p, pos[j]) BY <2>1 DEF Firsts
  <2>3. pos[j] \in 1 .. Len(a.grp) BY <1>1, <2>2
  <2>4. a.grp[pos[j]] \in 0 .. a.ng - 1 BY <2>3, FlushArgsFacts
  <2>5. calls[j] = CallFor(u, p, pos[j]) BY <1>2
  <2>6. calls[j].group = a.grp[pos[j]] /\ calls[j].sel = RowsOf(p, FlushSlot(a.grp[pos[j]]))
    BY <2>2, <2>5 DEF CallFor, RowsGiven
  <2>7. ref.acc[a.grp[pos[j]]] = RowsOf(p, FlushSlot(a.grp[pos[j]])) BY <2>4 DEF RefFor
  <2>8. ref.acc[a.grp[pos[j]]] # <<>> /\ ref.acc[a.grp[pos[j]]][1] = pos[j] BY <2>2 DEF RefFor
  <2>. QED BY <2>2, <2>4, <2>6, <2>7, <2>8 DEF Hit
<1>5. ASSUME NEW g \in hit PROVE \E j \in 1 .. L : calls[j].group = g
  <2>1. g \in 0 .. a.ng - 1 /\ ref.acc[g] # <<>> BY DEF Hit
  <2> DEFINE T == {t \in 1 .. Len(p) : a.grp[t] = g}
  <2>2. T \subseteq Nat /\ T # {} BY <1>1, <2>1 DEF RefFor
  <2>3. PICK t \in T : \A z \in T : t <= z
    <3>. HIDE DEF T
    <3>. QED BY <2>2, LeastNat
  <2>4. t \in 1 .. Len(p) /\ a.grp[t] = g /\ t \in Nat BY <1>1, <2>3
  <2>5. FirstOfGroup(p, t)
    <3>1. ASSUME NEW z \in 1 .. t - 1, p[z].ent = p[t].ent PROVE FALSE
      <4>1. z \in 1 .. Len(p) /\ z < t BY <1>1, <2>4
      <4>2. p[z].ent = FlushSlot(g) BY <2>4, <3>1 DEF RowsGiven
      <4>3. a.grp[z] = g BY <2>1, <4>1, <4>2 DEF RowsGiven
      <4>. QED BY <2>3, <2>4, <4>1, <4>3
    <3>. QED BY <3>1 DEF FirstOfGroup
  <2>6. t \in Firsts(p, Len(p)) BY <2>4, <2>5 DEF Firsts
  <2>7. PICK j \in 1 .. L : pos[j] = t BY <1>2, <2>6 DEF Listed
  <2>. QED BY <1>4, <2>4, <2>7
<1>6. \A j, l \in 1 .. L : j < l => pos[j] < pos[l] BY <1>2 DEF Listed
<1>7. ASSUME NEW j \in 1 .. L, NEW l \in 1 .. L, j < l PROVE calls[j].group # calls[l].group
  <2>1. pos[j] < pos[l] BY <1>6, <1>7
  <2>2. pos[j] \in 1 .. pos[l] - 1 BY <1>1, <1>4, <2>1
  <2>3. p[pos[j]].ent # p[pos[l]].ent BY <1>4, <2>2 DEF FirstOfGroup
  <2>4. p[pos[j]].ent = FlushSlot(a.grp[pos[j]]) /\ p[pos[l]].ent = FlushSlot(a.grp[pos[l]])
    BY <1>4 DEF RowsGiven
  <2>. QED BY <1>4, <2>3, <2>4
<1>8. {calls[j].group : j \in 1 .. L} = hit BY <1>4, <1>5
<1>. HIDE DEF L, hit
<1>9. L = Cardinality(hit)
  <2> DEFINE F == [j \in 1 .. L |-> calls[j].group]
  <2>1. F \in [1 .. L -> hit] BY <1>8
  <2>2. \A j, l \in 1 .. L : F[j] = F[l] => j = l
    <3>1. \A j, l \in 1 .. L : j # l => j < l \/ l < j BY <1>3
    <3>. QED BY <1>7, <3>1
  <2>3. \A g \in hit : \E j \in 1 .. L : F[j] = g BY <1>5
  <2>. HIDE DEF F
  <2>4. IsFiniteSet(1 .. L) /\ Cardinality(1 .. L) = L
    <3> DEFINE one == 1
    <3>1. one \in Int /\ L \in Int BY <1>3
    <3>. HIDE DEF one
    <3>2. IsFiniteSet(one .. L) /\ Cardinality(one .. L) = IF one > L THEN 0 ELSE L - one + 1
      BY <3>1, FS_Interval
    <3>. QED BY <1>3, <3>2 DEF one
  <2> DEFINE J == 1 .. L
  <2>. HIDE DEF J
  <2>5. Cardinality(hit) = Cardinality(J) BY <2>1, <2>2, <2>3, <2>4, SameCount DEF J
  <2>. QED BY <2>4, <2>5 DEF J
<1>10. \A j, l \in 1 .. L : j < l => calls[j].sel[1] < calls[l].sel[1] BY <1>4, <1>6
<1>. QED BY <1>3, <1>4, <1>8, <1>9, <1>10 DEF CallsReplay, L, hit

\* The touches of a flush order the groups as the row path does.
TouchesReplay(a, ref, touch) ==
    /\ {touch[j] : j \in DOMAIN touch} = Hit(a, ref)
    /\ \A j, l \in DOMAIN touch : j < l => ref.touched[touch[j]] < ref.touched[touch[l]]

LEMMA TouchesAgree ==
    ASSUME NEW a, FlushArgs(a), NEW u, NEW p, RowsGiven(a, u, p), NEW ref, RefFor(a, p, ref),
           NEW touch \in Seq(Nat), TouchesFor(u, p, touch)
    PROVE  TouchesReplay(a, ref, touch)
<1> DEFINE L == Len(touch)  hit == Hit(a, ref)  D == Len(p)
<1>1. p \in Pends /\ D \in Nat /\ Len(a.grp) \in Nat /\ D <= Len(a.grp)
  <2>1. Len(a.grp) \in Nat BY FlushArgsFacts
  <2>. QED BY <2>1 DEF RowsGiven, PendsCached, Pends
<1>2. PICK pos : /\ Listed(pos, Lasts(p, D)) /\ L = Len(pos)
                 /\ \A j \in 1 .. Len(pos) : touch[j] = u.st.cache[p[pos[j]].ent].bytes
  BY DEF TouchesFor
<1>3. L \in Nat /\ DOMAIN touch = 1 .. L OBVIOUS
<1>4. ASSUME NEW x \in 1 .. D
      PROVE  a.grp[x] \in 0 .. a.ng - 1 /\ a.grp[x] \in hit /\ LastRow(a.grp, a.grp[x], D, ref.touched[a.grp[x]])
  <2>1. x \in 1 .. Len(a.grp) BY <1>1
  <2>2. a.grp[x] \in 0 .. a.ng - 1 BY <2>1, FlushArgsFacts
  <2>. QED BY <2>2 DEF RefFor, Hit
<1>5. ASSUME NEW j \in 1 .. L
      PROVE  /\ pos[j] \in 1 .. D /\ touch[j] = a.grp[pos[j]] /\ ref.touched[touch[j]] = pos[j]
  <2> DEFINE x == pos[j]  g == a.grp[x]  y == ref.touched[g]
  <2>1. x \in Lasts(p, D) BY <1>2 DEF Listed
  <2>2. x \in 1 .. D /\ LastOfGroup(p, x) BY <2>1 DEF Lasts
  <2>3. touch[j] = g BY <1>2, <2>2 DEF RowsGiven
  <2>. HIDE DEF x
  <2>4. LastRow(a.grp, g, D, y) BY <1>4, <2>2
  <2>5. p[x].ent = FlushSlot(g) BY <2>2 DEF RowsGiven
  <2>. HIDE DEF g
  <2>6. a.grp[x] = g BY DEF g
  <2>. HIDE DEF y
  <2>7. y \in 1 .. D /\ a.grp[y] = g /\ \A z \in y + 1 .. D : a.grp[z] # g
    BY <2>2, <2>4, <2>6 DEF LastRow
  <2>8. ~(y < x)
    <3>1. ASSUME y < x PROVE x \in y + 1 .. D BY <1>1, <2>2, <2>7, <3>1
    <3>. QED BY <2>6, <2>7, <3>1
  <2>9. ~(x < y)
    <3>1. ASSUME x < y PROVE FALSE
      <4>1. y \in x + 1 .. D BY <1>1, <2>2, <2>7, <3>1
      <4>2. p[y].ent # p[x].ent BY <2>2, <4>1 DEF LastOfGroup, D
      <4>3. p[y].ent = FlushSlot(g) BY <2>7 DEF RowsGiven
      <4>. QED BY <2>5, <4>2, <4>3
    <3>. QED BY <3>1
  <2>10. y = x BY <1>1, <2>2, <2>7, <2>8, <2>9
  <2>. QED BY <2>2, <2>3, <2>10 DEF x, y, g
<1>6. ASSUME NEW g \in hit PROVE \E j \in 1 .. L : touch[j] = g
  <2> DEFINE y == ref.touched[g]
  <2>1. g \in 0 .. a.ng - 1 /\ ref.acc[g] # <<>> BY DEF Hit
  <2>2. LastRow(a.grp, g, D, y) /\ \E t \in 1 .. D : a.grp[t] = g BY <2>1 DEF RefFor
  <2>. HIDE DEF y
  <2>3. y \in 1 .. D /\ a.grp[y] = g /\ \A z \in y + 1 .. D : a.grp[z] # g BY <2>2 DEF LastRow
  <2>4. LastOfGroup(p, y)
    <3>1. ASSUME NEW z \in y + 1 .. D, p[z].ent = p[y].ent PROVE FALSE
      <4>1. z \in 1 .. D BY <1>1, <2>3
      <4>2. p[z].ent = FlushSlot(g) BY <2>3, <3>1 DEF RowsGiven
      <4>3. a.grp[z] = g BY <2>1, <4>1, <4>2 DEF RowsGiven
      <4>. QED BY <2>3, <4>3
    <3>. QED BY <3>1 DEF LastOfGroup
  <2>5. y \in Lasts(p, D) BY <2>3, <2>4 DEF Lasts
  <2>6. PICK j \in 1 .. L : pos[j] = y BY <1>2, <2>5 DEF Listed
  <2>. QED BY <1>5, <2>3, <2>6
<1>7. {touch[j] : j \in 1 .. L} = hit
  <2>1. ASSUME NEW j \in 1 .. L PROVE touch[j] \in hit
    <3>1. pos[j] \in 1 .. D /\ touch[j] = a.grp[pos[j]] BY <1>5
    <3>. HIDE DEF hit, D
    <3>. QED BY <1>4, <3>1
  <2>. HIDE DEF hit, L
  <2>. QED BY <1>6, <2>1
<1>8. \A j, l \in 1 .. L : j < l => pos[j] < pos[l] BY <1>2 DEF Listed
<1>9. ASSUME NEW j \in 1 .. L, NEW l \in 1 .. L, j < l
      PROVE  ref.touched[touch[j]] < ref.touched[touch[l]]
  <2>1. ref.touched[touch[j]] = pos[j] /\ ref.touched[touch[l]] = pos[l] BY <1>5
  <2>2. pos[j] < pos[l] BY <1>8, <1>9
  <2>. QED BY <2>1, <2>2
<1>. HIDE DEF L
<1>10. {touch[j] : j \in DOMAIN touch} = Hit(a, ref) BY <1>3, <1>7
<1>11. \A j, l \in DOMAIN touch : j < l => ref.touched[touch[j]] < ref.touched[touch[l]]
  BY <1>3, <1>9
<1>. QED BY <1>10, <1>11 DEF TouchesReplay

\* What a flush scenario hands back of world u.
FlushResult(a, u) ==
    [kind |-> "flush", done |-> u.done,
     calls |-> u.fk.eval, touch |-> u.fk.get,
     off |-> u.st.off, dumps |-> u.fk.n_dump, syncs |-> u.fk.n_sync,
     tuple_count |-> u.ctx.tuple_count, state |-> u.ctx.state,
     evictions |-> u.ctx.evictions, n_cached |-> u.st.n_cached,
     value_tuple_count |-> [g \in 0 .. a.ng - 1 |-> u.vals[g].tuple_count],
     sel_restored |-> u.sel = CallerSel]

\* It agrees with the row path.
Replays(a, r) ==
    LET ref  == RowPath(a.grp, a.tuples, a.groups)
        once == IF ref.off THEN 1 ELSE 0
    IN /\ CallsReplay(a, ref, r.calls) /\ TouchesReplay(a, ref, r.touch)
       /\ r.tuple_count = ref.n /\ r.done = ref.n - a.tuples
       /\ \A g \in 0 .. a.ng - 1 : r.value_tuple_count[g] = Len(ref.acc[g])
       /\ r.off = ref.off /\ (r.state = "HS_REJECT_ALL") = ref.off
       /\ r.dumps = once /\ r.syncs = once /\ r.evictions = once
       /\ r.n_cached = (IF ref.off THEN 0 ELSE a.ng)
       /\ r.sel_restored

LEMMA FlushReplays ==
    ASSUME NEW a, FlushArgs(a), NEW u, FlushReady(a, u)
    PROVE  LET x == qexec_batch_gby_flush(u, Len(a.grp))
           IN x \in Worlds /\ InOrder(x) /\ Replays(a, FlushResult(a, x))
<1> DEFINE n == Len(a.grp)  d == Done(u, n)  p == SubSeq(u.st.pend, 1, d)
           x == qexec_batch_gby_flush(u, n)  r == FlushResult(a, x)
           ref == RowPath(a.grp, a.tuples, a.groups)
           off == GivesUp(a.tuples + d, a.groups)
<1>1. /\ n = Len(u.st.pend) /\ DoneBy(a, d) /\ RowsGiven(a, u, p) /\ Len(p) = d
      /\ PendsCached(u, u.st.pend)
  BY FlushRows
<1>2. n \in Nat /\ n # 0 BY FlushArgsFacts
<1>3. /\ u \in Worlds /\ InOrder(u) /\ u.fk.eval = <<>> /\ u.fk.get = <<>> /\ u.fk.n_dump = 0
      /\ u.fk.n_sync = 0 /\ u.ctx = NewCtx(a.tuples, a.groups) /\ u.st.n_cached = a.ng /\ ~u.st.off
      /\ u.sel = CallerSel
  BY DEF FlushReady
<1>4. u.ctx.tuple_count = a.tuples /\ u.ctx.group_count = a.groups /\ u.ctx.evictions = 0
      /\ u.ctx.state = "HS_ACCEPT_ALL"
  BY <1>3 DEF NewCtx
<1>5. Flushed(u, p, off, x)
  <2>1. Flushed(u, SubSeq(u.st.pend, 1, Done(u, Len(u.st.pend))),
                GivesUp(u.ctx.tuple_count + Done(u, Len(u.st.pend)), u.ctx.group_count),
                qexec_batch_gby_flush(u, Len(u.st.pend)))
    BY <1>1, <1>2, <1>3, FlushFacts
  <2>. QED BY <1>1, <1>4, <2>1
<1>. HIDE DEF p, x, d
<1>6. PathAt(a, p, d, ref) BY <1>1, RowPathFacts
<1>. HIDE DEF ref
<1>7. RefFor(a, p, ref) BY <1>1, <1>6, RefFacts
<1>8. x \in Worlds /\ x.fk.eval \in Evals /\ x.fk.get \in Seq(Nat) BY <1>5 DEF Flushed, Worlds, Fakes
<1>9. CallsReplay(a, ref, x.fk.eval) BY <1>1, <1>5, <1>7, <1>8, CallsAgree DEF Flushed
<1>10. TouchesReplay(a, ref, x.fk.get) BY <1>1, <1>5, <1>7, <1>8, TouchesAgree DEF Flushed
<1>11. ref.off = off /\ off \in BOOLEAN /\ ref.n = a.tuples + d
  <2>1. ref.off \in BOOLEAN BY <1>6 DEF PathAt, Paths
  <2>2. off \in BOOLEAN BY DEF GivesUp
  <2>3. ref.off <=> off BY <1>1, <1>6 DEF PathAt
  <2>4. ref.n = a.tuples + d BY <1>6 DEF PathAt
  <2>. HIDE DEF off
  <2>. QED BY <2>1, <2>2, <2>3, <2>4
<1>. HIDE DEF off
<1>12. x.ctx.tuple_count = ref.n /\ x.done = ref.n - a.tuples
  <2>1. d \in Nat /\ a.tuples \in Nat BY <1>1, <1>2 DEF DoneBy, FlushArgs
  <2>. QED BY <1>1, <1>4, <1>5, <1>11, <2>1 DEF Flushed
<1>13. ASSUME NEW g \in 0 .. a.ng - 1 PROVE x.vals[g].tuple_count = Len(ref.acc[g])
  <2>1. g \in Vals BY FlushArgsFacts
  <2>2. u.vals[g].batch_slot = FlushSlot(g) /\ u.vals[g].tuple_count = 0 BY DEF FlushReady
  <2>3. x.vals[g].tuple_count = 0 + RowsFor(u, p, g) BY <1>5, <2>1, <2>2 DEF Flushed
  <2>4. ref.acc[g] = RowsOf(p, FlushSlot(g)) BY <1>7 DEF RefFor
  <2>5. CASE \E t \in 1 .. Len(p) : a.grp[t] = g
    <3>1. \E t \in 1 .. Len(p) : GroupAt(u, p, t) = g BY <1>1, <2>5 DEF RowsGiven
    <3>2. RowsFor(u, p, g) = Len(ref.acc[g]) BY <2>2, <2>4, <3>1 DEF RowsFor
    <3>3. Len(ref.acc[g]) \in Nat
      <4>1. ref.acc \in [Vals -> Seq(Nat)] BY <1>6 DEF PathAt, Paths
      <4>. QED BY <2>1, <4>1
    <3>. QED BY <2>3, <3>2, <3>3
  <2>6. CASE ~\E t \in 1 .. Len(p) : a.grp[t] = g
    <3>1. ~\E t \in 1 .. Len(p) : GroupAt(u, p, t) = g BY <1>1, <2>6 DEF RowsGiven
    <3>2. RowsFor(u, p, g) = 0 BY <3>1 DEF RowsFor
    <3>3. ref.acc[g] = <<>> BY <1>7, <2>6 DEF RefFor
    <3>. QED BY <2>3, <3>2, <3>3
  <2>. QED BY <2>5, <2>6
<1>14. /\ x.st.off = ref.off /\ (x.ctx.state = "HS_REJECT_ALL") = ref.off
       /\ x.st.n_cached = (IF ref.off THEN 0 ELSE a.ng) /\ x.sel = CallerSel
  <2>1. x.st.off = (off \/ u.st.off) /\ u.st.off = FALSE
    BY <1>3, <1>5 DEF Flushed, Worlds, States
  <2>. QED BY <1>3, <1>4, <1>5, <1>11, <2>1 DEF Flushed
<1>15. LET once == IF ref.off THEN 1 ELSE 0
       IN x.fk.n_dump = once /\ x.fk.n_sync = once /\ x.ctx.evictions = once
  BY <1>3, <1>4, <1>5, <1>11 DEF Flushed
<1>16. /\ r.calls = x.fk.eval /\ r.touch = x.fk.get /\ r.tuple_count = x.ctx.tuple_count
       /\ r.done = x.done /\ r.off = x.st.off /\ r.state = x.ctx.state /\ r.dumps = x.fk.n_dump
       /\ r.syncs = x.fk.n_sync /\ r.evictions = x.ctx.evictions /\ r.n_cached = x.st.n_cached
       /\ r.sel_restored = (x.sel = CallerSel)
       /\ \A g \in 0 .. a.ng - 1 : r.value_tuple_count[g] = x.vals[g].tuple_count
  BY DEF FlushResult
<1>. HIDE DEF r
<1>17. Replays(a, r)
  BY <1>9, <1>10, <1>12, <1>13, <1>14, <1>15, <1>16 DEF Replays, ref
<1>. QED BY <1>5, <1>17 DEF Flushed, r, x, n

------------------------------------------------------------------------------
\* The add scenarios.

\* The entry of key b in an add scenario.
KeyEntry(b) == [bytes |-> b, hash |-> HashOf[b], value |-> b]

\* The world after j adds: the keys since the last start over are cached, those
\* before it freed.
AddsDone(j, x) ==
    /\ x \in Worlds /\ NoneNamed(x)
    /\ Contents(x) = {KeyEntry(b) : b \in j - x.st.n_cached .. j - 1}
    /\ x.fk.n_copy = j /\ x.fk.n_free_key = j - x.st.n_cached
    /\ \E m \in Nat : j - x.st.n_cached = m * Half
    /\ IF j = 0 THEN x.st = ZeroSt ELSE InOrder(x) /\ x.st.n_cached \in 1 .. Half

\* Keys are bytes, and values of the scenario.
LEMMA KeyNumbers ==
    /\ MaxAdds \in Nat /\ MaxAdds <= MaxVals /\ 0 \in Vals
    /\ \A b \in 0 .. MaxAdds - 1 : b \in Nat /\ b \in Vals /\ HashOf[b] \in Nat
    /\ HashOf[LowerA] \in Nat /\ HashOf[UpperA] \in Nat
<1>1. MaxAdds \in Nat /\ MaxAdds \in 0 .. MaxVals /\ MaxVals \in Nat \ {0}
  BY GbyScenariosAssumption, GbyCacheAssumption
<1>2. \A b \in (0 .. MaxAdds - 1) \cup {LowerA, UpperA} : HashOf[b] \in Nat BY GbyScenariosAssumption
<1>3. \A b \in 0 .. MaxAdds - 1 : b \in Nat /\ b \in Vals BY <1>1 DEF Vals
<1>4. 0 \in Vals BY <1>1 DEF Vals
<1>5. MaxAdds <= MaxVals BY <1>1
<1>6. \A b \in 0 .. MaxAdds - 1 : HashOf[b] \in Nat BY <1>2
<1>7. HashOf[LowerA] \in Nat /\ HashOf[UpperA] \in Nat BY <1>2
<1>. QED BY <1>1, <1>3, <1>4, <1>5, <1>6, <1>7

\* The world with another answer of the fake mht_get.
LEMMA AnswerFields ==
    ASSUME NEW x \in Worlds, NEW g \in Vals
    PROVE  LET u == [x EXCEPT !.fk.get_result = g]
           IN /\ u \in Worlds /\ u.st = x.st /\ u.vals = x.vals /\ u.fk.get_result = g
              /\ u.fk.n_copy = x.fk.n_copy /\ u.fk.n_free_key = x.fk.n_free_key
<1> DEFINE fk == [x.fk EXCEPT !.get_result = g]  u == [x EXCEPT !.fk = fk]
<1>1. x.fk \in Fakes BY DEF Worlds
<1>2. fk \in Fakes /\ fk.get_result = g /\ fk.n_copy = x.fk.n_copy /\ fk.n_free_key = x.fk.n_free_key
  BY <1>1 DEF Fakes
<1>3. [x EXCEPT !.fk.get_result = g] = u BY DEF Worlds
<1>. HIDE DEF fk
<1>4. u \in Worlds /\ u.st = x.st /\ u.vals = x.vals /\ u.fk = fk BY <1>2 DEF Worlds
<1>. HIDE DEF u
<1>. QED BY <1>2, <1>3, <1>4

LEMMA AddsNext ==
    ASSUME NEW j \in 0 .. MaxAdds - 1, NEW x, AddsDone(j, x)
    PROVE  AddsDone(j + 1, qexec_gby_cache_add([x EXCEPT !.fk.get_result = j], j, HashOf[j]))
<1> DEFINE y == [x EXCEPT !.fk.get_result = j]  c == x.st.n_cached  h == HashOf[j]
           u == qexec_gby_cache_add(y, j, h)  full == c >= Half
<1>1. j \in Nat /\ j \in Vals /\ h \in Nat /\ Half \in Nat /\ 1 <= Half BY KeyNumbers, SizeFacts
<1>2. /\ y \in Worlds /\ y.st = x.st /\ y.vals = x.vals /\ y.fk.get_result = j
      /\ y.fk.n_copy = x.fk.n_copy /\ y.fk.n_free_key = x.fk.n_free_key
  BY <1>1, AnswerFields DEF AddsDone
<1>. HIDE DEF y
<1>3. Contents(y) = Contents(x) /\ NoneNamed(y) /\ (InOrder(y) <=> InOrder(x))
  BY <1>2, SameTable DEF AddsDone
<1>4. c \in Nat BY DEF AddsDone, Worlds, States
<1>5. \A e \in Contents(y) : \E b \in j - c .. j - 1 : e = KeyEntry(b) BY <1>3 DEF AddsDone
<1>6. \A e \in Contents(y) : e.bytes # j /\ e.value # j
  <2>1. \A b \in j - c .. j - 1 : b # j BY <1>1, <1>4
  <2>. QED BY <1>5, <2>1 DEF KeyEntry
<1>7. y.st.cache = NullCache \/ InOrder(y)
  <2>1. CASE j = 0 BY <1>2, <2>1, ZeroStFacts DEF AddsDone
  <2>2. CASE j # 0 BY <1>3, <2>2 DEF AddsDone
  <2>. QED BY <2>1, <2>2
<1>8. y.st.cache = NullCache => y.st.n_cached = 0
  <2>1. CASE j = 0 BY <1>2, <2>1, ZeroStFacts DEF AddsDone
  <2>2. CASE j # 0
    <3>1. y.st.cache # NullCache BY <1>3, <2>2, TableFacts DEF AddsDone, InOrder
    <3>. QED BY <3>1
  <2>. QED BY <2>1, <2>2
<1>9. Added(y, j, h, j, u)
  <2>1. \A e \in Contents(y) : e.bytes # j /\ e.value # y.fk.get_result BY <1>2, <1>6
  <2>2. Added(y, j, h, y.fk.get_result, u)
    <3>. HIDE DEF h
    <3>. QED BY <1>1, <1>2, <1>3, <1>7, <1>8, <2>1, AddNew
  <2>. QED BY <1>2, <2>2
<1>. HIDE DEF u
<1>10. y.st.n_cached = c BY <1>2
<1>11. /\ u \in Worlds /\ InOrder(u) /\ NoneNamed(u) /\ u.fk.n_copy = j + 1
       /\ u.st.n_cached = (IF full THEN 1 ELSE c + 1)
       /\ u.fk.n_free_key = x.fk.n_free_key + (IF full THEN c ELSE 0)
       /\ Contents(u) = (IF full THEN {} ELSE Contents(x)) \cup {KeyEntry(j)}
  BY <1>2, <1>3, <1>9, <1>10 DEF Added, AddsDone, KeyEntry
<1>12. x.fk.n_free_key = j - c /\ Contents(x) = {KeyEntry(b) : b \in j - c .. j - 1}
  BY DEF AddsDone
<1>13. PICK m \in Nat : j - c = m * Half BY DEF AddsDone
<1>14. j # 0 => c \in 1 .. Half BY DEF AddsDone
<1>15. j = 0 => c = 0 BY ZeroStFacts DEF AddsDone
<1>16. j + 1 # 0 /\ (j + 1) - 1 = j /\ j + 1 \in Nat BY <1>1
<1>. HIDE DEF c
<1>17. CASE full
  <2>1. c = Half BY <1>1, <1>4, <1>14, <1>15, <1>17
  <2>2. u.st.n_cached = 1 /\ u.fk.n_free_key = (j - c) + c /\ Contents(u) = {KeyEntry(j)}
    BY <1>11, <1>12, <1>17
  <2>3. (j + 1) - 1 .. (j + 1) - 1 = {j} BY <1>1
  <2>4. Contents(u) = {KeyEntry(b) : b \in (j + 1) - u.st.n_cached .. (j + 1) - 1} BY <2>2, <2>3
  <2>5. u.fk.n_free_key = (j + 1) - u.st.n_cached BY <1>1, <1>4, <2>2
  <2>6. (j + 1) - u.st.n_cached = (m + 1) * Half
    <3>1. j = m * Half + Half BY <1>1, <1>13, <2>1
    <3>2. m * Half + Half = (m + 1) * Half BY <1>1
    <3>. QED BY <1>16, <2>2, <3>1, <3>2
  <2>7. \E o \in Nat : (j + 1) - u.st.n_cached = o * Half
    <3>1. m + 1 \in Nat OBVIOUS
    <3>. QED BY <2>6, <3>1
  <2>8. u.st.n_cached \in 1 .. Half BY <1>1, <2>2
  <2>. QED BY <1>11, <1>16, <2>4, <2>5, <2>7, <2>8 DEF AddsDone, u, y, h
<1>18. CASE ~full
  <2>1. u.st.n_cached = c + 1 /\ u.fk.n_free_key = (j - c) + 0
        /\ Contents(u) = {KeyEntry(b) : b \in j - c .. j - 1} \cup {KeyEntry(j)}
    BY <1>11, <1>12, <1>18
  <2>2. (j + 1) - u.st.n_cached = j - c BY <1>1, <1>4, <2>1
  <2>3. j - c .. j = (j - c .. j - 1) \cup {j}
    <3>1. j - c \in Int /\ j - c <= j BY <1>1, <1>4
    <3>. QED BY <1>1, <3>1
  <2>4. Contents(u) = {KeyEntry(b) : b \in (j + 1) - u.st.n_cached .. (j + 1) - 1}
    BY <1>16, <2>1, <2>2, <2>3
  <2>5. u.fk.n_free_key = (j + 1) - u.st.n_cached BY <1>1, <1>4, <2>1, <2>2
  <2>6. \E o \in Nat : (j + 1) - u.st.n_cached = o * Half BY <1>13, <2>2
  <2>7. u.st.n_cached \in 1 .. Half BY <1>1, <1>4, <1>18, <2>1
  <2>. QED BY <1>11, <1>16, <2>4, <2>5, <2>6, <2>7 DEF AddsDone, u, y, h
<1>. QED BY <1>17, <1>18

\* What an add scenario hands back after n adds.
AddResult(n, x) ==
    LET f(b) == qexec_gby_cache_find(x.st.cache, b, HashOf[b])
    IN [kind |-> "add", n_cached |-> x.st.n_cached,
        found_first |-> f(0) # NoSlot,
        found_last |-> /\ f(n - 1) # NoSlot /\ x.st.cache[f(n - 1)].value = n - 1
                       /\ f(n - 1) # NoSlot /\ x.vals[n - 1].batch_slot = f(n - 1),
        copies |-> x.fk.n_copy, frees |-> x.fk.n_free_key]

\* It is what the test cases say.
AddDocumented(n, r) ==
    LET clears == (n - 1) \div Half
    IN /\ r.n_cached = n - clears * Half
       /\ r.copies = n /\ r.frees = clears * Half
       /\ r.found_last /\ (r.found_first <=> clears = 0)

LEMMA AddsRead ==
    ASSUME NEW n \in 1 .. MaxAdds, NEW x, AddsDone(n, x)
    PROVE  AddDocumented(n, AddResult(n, x))
<1> DEFINE c == x.st.n_cached  r == AddResult(n, x)  clears == (n - 1) \div Half
           f(b) == qexec_gby_cache_find(x.st.cache, b, HashOf[b])
<1>1. n \in Nat /\ n # 0 /\ Half \in Nat \ {0} /\ MaxAdds \in Nat BY KeyNumbers, SizeFacts
<1>2. n - 1 \in 0 .. MaxAdds - 1 /\ 0 \in 0 .. MaxAdds - 1 BY <1>1
<1>3. x \in Worlds /\ InOrder(x) /\ c \in 1 .. Half /\ Contents(x) = {KeyEntry(b) : b \in n - c .. n - 1}
  BY <1>1 DEF AddsDone
<1>4. PICK m \in Nat : n - c = m * Half BY DEF AddsDone
<1>5. c \in Nat /\ c - 1 \in 0 .. Half - 1 BY <1>1, <1>3
<1>6. clears = m
  <2> DEFINE q == n - 1
  <2>1. q \in Int BY <1>1
  <2>2. q = m * Half + (c - 1)
    <3> DEFINE mh == m * Half
    <3>1. mh \in Int /\ n - c = mh BY <1>1, <1>4
    <3>. HIDE DEF mh
    <3>2. n - 1 = mh + (c - 1) BY <1>1, <1>5, <3>1
    <3>. QED BY <3>2 DEF mh
  <2>. HIDE DEF q
  <2>3. q \div Half \in Int /\ q % Half \in 0 .. Half - 1 /\ q = ((q \div Half) * Half) + (q % Half)
    BY <1>1, <2>1, Division
  <2> DEFINE d == q \div Half  e == q % Half  b == c - 1
  <2>4. d \in Int /\ e \in 0 .. Half - 1 /\ b \in 0 .. Half - 1 /\ q = d * Half + e /\ q = m * Half + b
    BY <1>5, <2>2, <2>3
  <2>. HIDE DEF d, e, b
  <2>5. e + d * Half = b + m * Half
    <3>1. d * Half \in Int /\ m * Half \in Int BY <1>1, <2>4
    <3>. QED BY <1>1, <2>4, <3>1
  <2>6. d = m BY <1>1, <2>4, <2>5, Remainder
  <2>. QED BY <2>6 DEF d, q
<1>7. r.n_cached = n - clears * Half /\ r.copies = n /\ r.frees = clears * Half
  <2> DEFINE mh == m * Half
  <2>1. mh \in Int /\ n - c = mh BY <1>1, <1>4
  <2>2. r.n_cached = c /\ r.copies = x.fk.n_copy /\ r.frees = x.fk.n_free_key BY DEF AddResult
  <2>3. x.fk.n_copy = n /\ x.fk.n_free_key = n - c BY DEF AddsDone
  <2>. HIDE DEF mh, r, c, clears
  <2>4. c = n - mh BY <1>1, <1>5, <2>1
  <2>5. clears * Half = mh BY <1>6 DEF mh
  <2>. QED BY <2>1, <2>2, <2>3, <2>4, <2>5
<1>8. \A b \in n - c .. n - 1 : b \in Nat /\ b \in 0 .. MaxAdds - 1
  <2>1. n - c \in Nat BY <1>1, <1>4
  <2>. HIDE DEF c
  <2>. QED BY <1>1, <2>1
<1>9. ASSUME NEW b \in n - c .. n - 1
      PROVE  f(b) # NoSlot /\ x.st.cache[f(b)] = KeyEntry(b) /\ x.vals[b].batch_slot = f(b)
  <2>1. KeyEntry(b) \in Contents(x) BY <1>3
  <2>2. b \in Nat /\ HashOf[b] \in Nat BY <1>8, KeyNumbers
  <2>3. KeyEntry(b).bytes = b /\ KeyEntry(b).hash = HashOf[b] /\ KeyEntry(b).value = b BY DEF KeyEntry
  <2>. QED BY <1>3, <2>1, <2>2, <2>3, FindInOrder
<1>10. r.found_last
  <2>1. n - 1 \in n - c .. n - 1 BY <1>1, <1>5
  <2>2. KeyEntry(n - 1).value = n - 1 BY DEF KeyEntry
  <2>. QED BY <1>9, <2>1, <2>2 DEF AddResult
<1>11. r.found_first <=> f(0) # NoSlot BY DEF AddResult
<1>12. CASE m = 0
  <2>1. 0 \in n - c .. n - 1 BY <1>1, <1>4, <1>12
  <2>2. f(0) # NoSlot BY <1>9, <2>1
  <2>. HIDE DEF r, clears, f
  <2>. QED BY <1>6, <1>7, <1>10, <1>11, <1>12, <2>2 DEF AddDocumented, r, clears
<1>13. CASE m # 0
  <2>1. n - c >= 1
    <3>1. m * Half >= Half BY <1>1, <1>13
    <3>. QED BY <1>1, <1>4, <3>1
  <2>2. ASSUME f(0) # NoSlot PROVE FALSE
    <3>0. HashOf[0] \in Nat BY <1>2, KeyNumbers
    <3>1. x.st.cache[f(0)] \in Contents(x) /\ x.st.cache[f(0)].bytes = 0
      BY <1>3, <2>2, <3>0, FindInOrder
    <3>2. PICK b \in n - c .. n - 1 : x.st.cache[f(0)] = KeyEntry(b) BY <1>3, <3>1
    <3>3. b = 0 BY <3>1, <3>2 DEF KeyEntry
    <3>. HIDE DEF c
    <3>. QED BY <1>1, <1>5, <2>1, <3>2, <3>3
  <2>. HIDE DEF r, clears, f
  <2>. QED BY <1>6, <1>7, <1>10, <1>11, <1>13, <2>2 DEF AddDocumented, r, clears
<1>. QED BY <1>12, <1>13

\* An add scenario starts with no entry and nothing counted.
LEMMA AddsBegin ==
    ASSUME w \in Worlds
    PROVE  AddsDone(0, AddReset)
<1> DEFINE fk == [w.fk EXCEPT !.n_copy = 0, !.n_free_key = 0]
           vals == [v \in Vals |-> NewVal]
           u == [w EXCEPT !.st = ZeroSt, !.vals = vals, !.fk = fk]
<1>1. w.fk \in Fakes BY DEF Worlds
<1>2. fk \in Fakes /\ fk.n_copy = 0 /\ fk.n_free_key = 0 BY <1>1 DEF Fakes
<1>3. vals \in Values /\ \A v \in Vals : vals[v].batch_slot = NoSlot
  <2>1. NewVal \in [batch_slot : Slots \cup {NoSlot}, tuple_count : Nat] /\ NewVal.batch_slot = NoSlot
    BY DEF NewVal, ZeroVal
  <2>. QED BY <2>1 DEF Values
<1>4. AddReset = u BY <1>1 DEF AddReset, Worlds
<1>. HIDE DEF fk, vals
<1>5. u \in Worlds /\ u.st = ZeroSt /\ u.vals = vals /\ u.fk = fk BY <1>2, <1>3, ZeroStFacts DEF Worlds
<1>. HIDE DEF u
<1>6. NoneNamed(u) BY <1>3, <1>5 DEF NoneNamed
<1>7. Contents(u) = {} /\ u.st.n_cached = 0 BY <1>5, ZeroStFacts
<1>8. 0 - 0 .. 0 - 1 = {} /\ 0 - 0 = 0 /\ 0 * Half = 0 BY SizeFacts
<1>9. Contents(u) = {KeyEntry(b) : b \in 0 - u.st.n_cached .. 0 - 1} BY <1>7, <1>8
<1>10. \E m \in Nat : 0 - u.st.n_cached = m * Half BY <1>7, <1>8
<1>. QED BY <1>2, <1>4, <1>5, <1>6, <1>7, <1>8, <1>9, <1>10 DEF AddsDone

\* The world after both byte strings of one group.
SameDone(x) ==
    /\ x \in Worlds /\ InOrder(x) /\ x.st.n_cached = 1 /\ x.fk.n_copy = 2 /\ x.fk.n_free_key = 1
    /\ Contents(x) = {[bytes |-> UpperA, hash |-> HashOf[UpperA], value |-> 0]}

LEMMA SameAdds ==
    ASSUME w \in Worlds
    PROVE  LET u == [AddReset EXCEPT !.fk.get_result = 0]
           IN SameDone(qexec_gby_cache_add(qexec_gby_cache_add(u, LowerA, HashOf[LowerA]),
                                           UpperA, HashOf[UpperA]))
<1> DEFINE z == AddReset  u == [z EXCEPT !.fk.get_result = 0]
           hl == HashOf[LowerA]  hu == HashOf[UpperA]
           x == qexec_gby_cache_add(u, LowerA, hl)  y == qexec_gby_cache_add(x, UpperA, hu)
           e == [bytes |-> LowerA, hash |-> hl, value |-> 0]
<1>1. hl \in Nat /\ hu \in Nat /\ 0 \in Vals /\ LowerA \in Nat /\ UpperA \in Nat /\ LowerA # UpperA
  BY KeyNumbers DEF LowerA, UpperA
<1>2. z \in Worlds /\ z.st = ZeroSt /\ NoneNamed(z) /\ z.fk.n_copy = 0 /\ z.fk.n_free_key = 0
  BY AddsBegin, ZeroStFacts DEF AddsDone
<1>. HIDE DEF z, hl, hu
<1>3. /\ u \in Worlds /\ u.st = z.st /\ u.vals = z.vals /\ u.fk.get_result = 0
      /\ u.fk.n_copy = z.fk.n_copy /\ u.fk.n_free_key = z.fk.n_free_key
  <2> DEFINE g == 0
  <2>1. g \in Vals BY <1>1
  <2>. HIDE DEF g
  <2>2. LET q == [z EXCEPT !.fk.get_result = g]
        IN /\ q \in Worlds /\ q.st = z.st /\ q.vals = z.vals /\ q.fk.get_result = g
           /\ q.fk.n_copy = z.fk.n_copy /\ q.fk.n_free_key = z.fk.n_free_key
    BY <1>2, <2>1, AnswerFields
  <2>. QED BY <2>2 DEF g
<1>. HIDE DEF u
<1>4. NoneNamed(u) /\ Contents(u) = {} /\ u.st.cache = NullCache /\ u.st.n_cached = 0
  BY <1>2, <1>3, SameTable, ZeroStFacts
<1>5. Added(u, LowerA, hl, 0, x)
  <2>1. Added(u, LowerA, hl, u.fk.get_result, x) BY <1>1, <1>3, <1>4, AddNew
  <2>. QED BY <1>3, <2>1
<1>. HIDE DEF x
<1>6. ~(u.st.n_cached >= Half) BY <1>4, SizeFacts
<1>7. /\ x \in Worlds /\ InOrder(x) /\ NoneNamed(x) /\ Contents(x) = {e} /\ x.st.n_cached = 1
      /\ x.fk.n_copy = 1 /\ x.fk.n_free_key = 0 /\ x.fk.get_result = 0
  <2>1. Contents(x) = {} \cup {e} BY <1>4, <1>5, <1>6 DEF Added
  <2>2. x.st.n_cached = 0 + 1 /\ x.fk.n_copy = 0 + 1 /\ x.fk.n_free_key = 0 + 0
    BY <1>2, <1>3, <1>4, <1>5, <1>6 DEF Added
  <2>3. x.fk.get_result = 0 BY <1>3, <1>5 DEF Added, Frame
  <2>4. x \in Worlds /\ InOrder(x) /\ NoneNamed(x) BY <1>5 DEF Added
  <2>. HIDE DEF e
  <2>. QED BY <2>1, <2>2, <2>3, <2>4
<1>8. e.value = 0 /\ e.bytes = LowerA OBVIOUS
<1>. HIDE DEF e
<1>9. /\ y \in Worlds /\ InOrder(y) /\ y.st.n_cached = x.st.n_cached
      /\ Contents(y) = (Contents(x) \ {e}) \cup {[bytes |-> UpperA, hash |-> hu, value |-> x.fk.get_result]}
      /\ y.fk.n_copy = x.fk.n_copy + 1 /\ y.fk.n_free_key = x.fk.n_free_key + 1
  <2>1. e \in Contents(x) /\ e.value = x.fk.get_result /\ \A q \in Contents(x) : q.bytes # UpperA
    BY <1>1, <1>7, <1>8
  <2>. QED BY <1>1, <1>7, <2>1, AddAgain
<1>. HIDE DEF y
<1>10. Contents(y) = {[bytes |-> UpperA, hash |-> hu, value |-> 0]} BY <1>7, <1>9
<1>11. y.fk.n_copy = 2 /\ y.fk.n_free_key = 1 /\ y.st.n_cached = 1 BY <1>7, <1>9
<1>. QED BY <1>9, <1>10, <1>11 DEF SameDone, y, x, u, z, hl, hu

\* What that scenario hands back.
SameResult(x) ==
    LET f(b) == qexec_gby_cache_find(x.st.cache, b, HashOf[b])
    IN [kind |-> "same", n_cached |-> x.st.n_cached,
        found_a |-> f(LowerA) # NoSlot /\ x.st.cache[f(LowerA)].value = 0,
        found_b |-> f(UpperA) # NoSlot /\ x.st.cache[f(UpperA)].value = 0,
        slot_is_b |-> f(UpperA) # NoSlot /\ x.vals[0].batch_slot = f(UpperA),
        copies |-> x.fk.n_copy, frees |-> x.fk.n_free_key]

SameDocumented(r) ==
    /\ r.n_cached = 1 /\ ~r.found_a /\ r.found_b /\ r.slot_is_b
    /\ r.copies = 2 /\ r.frees = 1

LEMMA SameRead ==
    ASSUME NEW x, SameDone(x)
    PROVE  SameDocumented(SameResult(x))
<1> DEFINE f(b) == qexec_gby_cache_find(x.st.cache, b, HashOf[b])
           e == [bytes |-> UpperA, hash |-> HashOf[UpperA], value |-> 0]
<1>1. HashOf[LowerA] \in Nat /\ HashOf[UpperA] \in Nat /\ LowerA \in Nat /\ UpperA \in Nat /\ LowerA # UpperA
  BY KeyNumbers DEF LowerA, UpperA
<1>2. x \in Worlds /\ InOrder(x) /\ Contents(x) = {e} BY DEF SameDone
<1>3. e.bytes = UpperA /\ e.hash = HashOf[UpperA] /\ e.value = 0 OBVIOUS
<1>. HIDE DEF e
<1>4. f(UpperA) # NoSlot /\ x.st.cache[f(UpperA)] = e /\ x.vals[0].batch_slot = f(UpperA)
  BY <1>1, <1>2, <1>3, FindInOrder
<1>5. f(LowerA) = NoSlot
  <2>1. ASSUME f(LowerA) # NoSlot PROVE FALSE
    <3>1. x.st.cache[f(LowerA)] \in Contents(x) /\ x.st.cache[f(LowerA)].bytes = LowerA
      BY <1>1, <1>2, <2>1, FindInOrder
    <3>. QED BY <1>1, <1>2, <1>3, <3>1
  <2>. QED BY <2>1
<1>. QED BY <1>3, <1>4, <1>5 DEF SameResult, SameDocumented, SameDone

------------------------------------------------------------------------------
\* The eviction scenario.

EvictArgs(a) ==
    /\ a.kind = "evict" /\ a.n \in 1 .. EvictNote /\ a.home \in Slots
    /\ a.keep \in SUBSET (0 .. a.n - 1)

\* The entry of group v, one of the cluster at the home slot.
EvictEntry(a, v) == [bytes |-> v, hash |-> a.home, value |-> v]

\* The first j groups are placed, and those that are not kept noted.
EvictPlaced(a, j, x, nt) ==
    /\ x \in Worlds /\ InOrder(x) /\ x.st.n_cached = j
    /\ Contents(x) = {EvictEntry(a, v) : v \in 0 .. j - 1}
    /\ nt \in Notes /\ AllTold(x, nt)
    /\ \A o \in 1 .. Len(nt) : nt[o].value \in 0 .. j - 1 /\ nt[o].value \notin a.keep
    /\ \A v \in (0 .. j - 1) \ a.keep : \E o \in 1 .. Len(nt) : nt[o].value = v

LEMMA EvictNumbers ==
    ASSUME NEW a, EvictArgs(a)
    PROVE  /\ a.n \in Nat /\ a.n # 0 /\ a.n <= Half /\ a.home \in Nat /\ Wrap(a.home) = a.home
           /\ \A v \in 0 .. a.n - 1 : v \in Nat /\ v \in Vals
<1>1. EvictNote \in Nat /\ EvictNote <= Half /\ EvictNote \in 0 .. MaxVals /\ MaxVals \in Nat
  BY GbyScenariosAssumption, GbyCacheAssumption
<1>2. a.n \in Nat /\ a.n # 0 /\ a.n <= Half /\ a.n <= MaxVals BY <1>1, SizeFacts DEF EvictArgs
<1>3. a.home \in Nat /\ Wrap(a.home) = a.home
  <2>1. a.home \in Slots BY DEF EvictArgs
  <2>2. Wrap(a.home) = a.home BY <2>1, WrapFacts
  <2>3. a.home \in Nat BY <2>1, SizeFacts DEF Slots
  <2>. QED BY <2>2, <2>3
<1>4. \A v \in 0 .. a.n - 1 : v \in Nat /\ v \in Vals BY <1>1, <1>2 DEF Vals
<1>. QED BY <1>2, <1>3, <1>4

LEMMA EvictPlacedNext ==
    ASSUME NEW a, EvictArgs(a), NEW j \in 0 .. a.n - 1, NEW x, NEW nt, EvictPlaced(a, j, x, nt)
    PROVE  LET s == FirstFree(x.st.cache, Wrap(a.home))
           IN EvictPlaced(a, j + 1, PlaceAt(x, s, [bytes |-> j, hash |-> a.home, value |-> j]),
                          IF j \in a.keep THEN nt ELSE Append(nt, [value |-> j, slot |-> s]))
<1> DEFINE c == x.st.cache  h == Wrap(a.home)  s == FirstFree(c, h)  e == EvictEntry(a, j)
           u == PlaceAt(x, s, e)  r == [value |-> j, slot |-> s]
           nu == IF j \in a.keep THEN nt ELSE Append(nt, r)
<1>1. a.n \in Nat /\ a.n <= Half /\ h \in Nat /\ h = a.home /\ h \in Slots /\ j \in Nat /\ j \in Vals
      /\ j < a.n /\ Half \in Nat
  <2>1. a.n \in Nat /\ a.n <= Half /\ h \in Nat /\ h = a.home /\ Half \in Nat BY EvictNumbers, SizeFacts
  <2>2. j \in Nat /\ j \in Vals BY EvictNumbers
  <2>. QED BY <2>1, <2>2 DEF EvictArgs
<1>2. x \in Worlds /\ InOrder(x) /\ c \in Tables /\ x.st.n_cached = j BY DEF EvictPlaced, InOrder
<1>3. PICK z \in Slots : c[z] = Empty BY <1>2, FreeSlot
<1>4. /\ s \in Slots /\ c[s] = Empty
      /\ \A y \in Slots : c[y] = Empty /\ y # s => Dist(s, Wrap(h)) < Dist(s, y)
  <2>. HIDE DEF h, c
  <2>. QED BY <1>1, <1>2, <1>3, FirstFreeFacts
<1>5. e \in Entries /\ e.bytes = j /\ e.value = j /\ e.hash = h BY <1>1 DEF Entries, EvictEntry
<1>6. \A y \in Contents(x) : y.bytes # e.bytes /\ y.value # e.value
  <2>1. \A v \in 0 .. j - 1 : v # j BY <1>1
  <2>. QED BY <1>5, <2>1 DEF EvictPlaced, EvictEntry
<1>. HIDE DEF s, h
<1>7. Placed(x, s, e, u)
  <2>1. x.st.n_cached < Half BY <1>1, <1>2
  <2>2. \A y \in Slots : x.st.cache[y] = Empty /\ y # s => Dist(s, Wrap(e.hash)) < Dist(s, y)
    BY <1>4, <1>5
  <2>. HIDE DEF e
  <2>. QED BY <1>2, <1>4, <1>5, <1>6, <2>1, <2>2, PlaceInOrder
<1>. HIDE DEF u
<1>8. 0 .. (j + 1) - 1 = (0 .. j - 1) \cup {j} BY <1>1
<1>9. u \in Worlds /\ InOrder(u) /\ u.st.n_cached = j + 1 BY <1>2, <1>7 DEF Placed
<1>10. Contents(u) = {EvictEntry(a, v) : v \in 0 .. (j + 1) - 1}
  <2>1. Contents(u) = {EvictEntry(a, v) : v \in 0 .. j - 1} \cup {EvictEntry(a, j)}
    BY <1>7 DEF Placed, EvictPlaced
  <2>. QED BY <1>8, <2>1
<1>11. u.st.cache[s] = e /\ \A y \in Slots : y # s => u.st.cache[y] = c[y] BY <1>7 DEF Placed
<1>12. nt \in Notes /\ Len(nt) \in Nat BY DEF EvictPlaced, Notes
<1>13. ASSUME NEW o \in 1 .. Len(nt)
       PROVE  /\ EntryOf(u.st.cache, nt[o].slot, nt[o].value)
              /\ nt[o].value \in 0 .. j - 1 /\ nt[o].value \notin a.keep
  <2>1. EntryOf(c, nt[o].slot, nt[o].value) BY DEF EvictPlaced, AllTold
  <2>2. nt[o].slot \in Slots
    <3> DEFINE R == [value : Vals, slot : Slots]
    <3>1. nt \in Seq(R) BY <1>12 DEF Notes
    <3>2. nt[o] \in R
      <4>. HIDE DEF R
      <4>. QED BY ONLY <3>1, o \in 1 .. Len(nt)
    <3>. QED BY <3>2
  <2>3. nt[o].slot # s BY <1>4, <2>1 DEF EntryOf
  <2>4. nt[o].value \in 0 .. j - 1 /\ nt[o].value \notin a.keep BY DEF EvictPlaced
  <2>. QED BY <1>11, <2>1, <2>2, <2>3, <2>4 DEF EntryOf
<1>14. \A o, l \in 1 .. Len(nt) : nt[o].value = nt[l].value => o = l BY DEF EvictPlaced, AllTold
<1>15. \A v \in (0 .. j - 1) \ a.keep : \E o \in 1 .. Len(nt) : nt[o].value = v BY DEF EvictPlaced
<1>16. CASE j \in a.keep
  <2>1. nu = nt BY <1>16
  <2>2. AllTold(u, nt) BY <1>13, <1>14 DEF AllTold
  <2>3. \A o \in 1 .. Len(nt) : nt[o].value \in 0 .. (j + 1) - 1 /\ nt[o].value \notin a.keep
    BY <1>8, <1>13
  <2>4. \A v \in (0 .. (j + 1) - 1) \ a.keep : \E o \in 1 .. Len(nt) : nt[o].value = v
    BY <1>8, <1>15, <1>16
  <2>5. EvictPlaced(a, j + 1, u, nt) BY <1>9, <1>10, <1>12, <2>2, <2>3, <2>4 DEF EvictPlaced
  <2>. QED BY <2>1, <2>5 DEF u, e, EvictEntry, s, h
<1>17. CASE j \notin a.keep
  <2> DEFINE N == Len(nt)  q == Append(nt, r)
  <2>1. nu = q BY <1>17
  <2>2. r \in [value : Vals, slot : Slots] BY <1>1, <1>4
  <2>3. q \in Notes /\ Len(q) = N + 1 /\ q[N + 1] = r /\ \A o \in 1 .. N : q[o] = nt[o]
    <3> DEFINE R == [value : Vals, slot : Slots]
    <3>1. nt \in Seq(R) /\ r \in R BY <1>12, <2>2 DEF Notes
    <3>. HIDE DEF R, r
    <3>2. q \in Seq(R) /\ Len(q) = N + 1 /\ q[N + 1] = r /\ \A o \in 1 .. N : q[o] = nt[o] BY <3>1
    <3>. QED BY <3>2 DEF Notes, R
  <2>4. r.value = j /\ r.slot = s OBVIOUS
  <2>. HIDE DEF q, r
  <2>5. \A o \in 1 .. N + 1 : o \in 1 .. N \/ o = N + 1 BY <1>12
  <2>6. N + 1 \in 1 .. N + 1 /\ \A o \in 1 .. N : o \in 1 .. N + 1 BY <1>12
  <2>7. EntryOf(u.st.cache, s, j)
    <3>1. e # Empty BY <1>5, EntryFacts
    <3>. QED BY <1>5, <1>11, <3>1 DEF EntryOf
  <2>8. \A o \in 1 .. N : q[o].value # j
    <3>1. \A v \in 0 .. j - 1 : v # j BY <1>1
    <3>. QED BY <1>13, <2>3, <3>1
  <2>. HIDE DEF N
  <2>9. ASSUME NEW o \in 1 .. N + 1
        PROVE  EntryOf(u.st.cache, q[o].slot, q[o].value)
               /\ q[o].value \in 0 .. (j + 1) - 1 /\ q[o].value \notin a.keep
    <3>1. CASE o \in 1 .. N
      <4>1. q[o] = nt[o] BY <2>3, <3>1
      <4>. QED BY <1>8, <1>13, <3>1, <4>1 DEF N
    <3>2. CASE o = N + 1 BY <1>8, <1>17, <2>3, <2>4, <2>7, <3>2
    <3>. QED BY <2>5, <3>1, <3>2
  <2>10. ASSUME NEW o \in 1 .. N + 1, NEW l \in 1 .. N + 1, q[o].value = q[l].value PROVE o = l
    <3>1. CASE o \in 1 .. N /\ l \in 1 .. N
      <4>1. q[o] = nt[o] /\ q[l] = nt[l] BY <2>3, <3>1
      <4>. QED BY <1>14, <2>10, <3>1, <4>1 DEF N
    <3>2. CASE o = N + 1 /\ l \in 1 .. N BY <2>3, <2>4, <2>8, <2>10, <3>2
    <3>3. CASE o \in 1 .. N /\ l = N + 1 BY <2>3, <2>4, <2>8, <2>10, <3>3
    <3>4. CASE o = N + 1 /\ l = N + 1 BY <3>4
    <3>. QED BY <2>5, <3>1, <3>2, <3>3, <3>4
  <2>11. ASSUME NEW v \in (0 .. (j + 1) - 1) \ a.keep PROVE \E o \in 1 .. N + 1 : q[o].value = v
    <3>1. CASE v = j BY <2>3, <2>4, <2>6, <3>1
    <3>2. CASE v # j
      <4>1. v \in (0 .. j - 1) \ a.keep BY <1>8, <3>2
      <4>2. PICK o \in 1 .. N : nt[o].value = v BY <1>15, <4>1 DEF N
      <4>. QED BY <2>3, <2>6, <4>2
    <3>. QED BY <3>1, <3>2
  <2>12. AllTold(u, q) BY <2>3, <2>9, <2>10 DEF AllTold
  <2>13. EvictPlaced(a, j + 1, u, q) BY <1>9, <1>10, <2>3, <2>9, <2>11, <2>12 DEF EvictPlaced
  <2>. QED BY <2>1, <2>13 DEF u, e, EvictEntry, s, h, q, r
<1>. QED BY <1>16, <1>17

\* After the eviction the kept groups are left.
EvictDone(a, x) ==
    x \in Worlds /\ InOrder(x) /\ Contents(x) = {EvictEntry(a, v) : v \in a.keep}

LEMMA EvictBegins ==
    ASSUME NEW a, EvictArgs(a), NEW x \in Worlds
    PROVE  EvictPlaced(a, 0, qexec_gby_pool_reset([x EXCEPT !.st = ZeroSt]), <<>>)
<1> DEFINE z == [x EXCEPT !.st = ZeroSt]  u == qexec_gby_pool_reset(z)  none == <<>>
<1>1. z \in Worlds BY ZeroStWorld
<1>. HIDE DEF z
<1>2. u \in Worlds /\ InOrder(u) /\ Contents(u) = {} /\ u.st.n_cached = 0 BY <1>1, ResetInOrder
<1>. HIDE DEF u
<1>3. 0 .. 0 - 1 = {} OBVIOUS
<1>4. none \in Notes /\ Len(none) = 0 BY DEF Notes
<1>. HIDE DEF none
<1>5. 1 .. Len(none) = {} BY <1>4
<1>6. AllTold(u, none) BY <1>5 DEF AllTold
<1>7. EvictPlaced(a, 0, u, none) BY <1>2, <1>3, <1>4, <1>5, <1>6 DEF EvictPlaced
<1>. QED BY <1>7 DEF u, z, none

LEMMA EvictCalled ==
    ASSUME NEW a, EvictArgs(a), NEW x, NEW nt, EvictPlaced(a, a.n, x, nt)
    PROVE  EvictDone(a, qexec_gby_cache_evicted(x, nt))
<1> DEFINE u == qexec_gby_cache_evicted(x, nt)  N == Len(nt)
<1>1. x \in Worlds /\ InOrder(x) /\ nt \in Notes /\ AllTold(x, nt) BY DEF EvictPlaced
<1>2. Dropped(x, nt, N, u) BY <1>1, EvictedInOrder
<1>. HIDE DEF u
<1>3. Contents(u) = NotNoted(x, nt, N) BY <1>2 DEF Dropped
<1>4. \A v : EvictEntry(a, v).value = v BY DEF EvictEntry
<1>5. a.keep \subseteq 0 .. a.n - 1 BY DEF EvictArgs
<1>6. Contents(x) = {EvictEntry(a, v) : v \in 0 .. a.n - 1} BY DEF EvictPlaced
<1>7. \A o \in 1 .. N : nt[o].value \notin a.keep BY DEF EvictPlaced
<1>8. \A v \in (0 .. a.n - 1) \ a.keep : \E o \in 1 .. N : nt[o].value = v BY DEF EvictPlaced
<1>9. ASSUME NEW y \in NotNoted(x, nt, N) PROVE y \in {EvictEntry(a, v) : v \in a.keep}
  <2>1. y \in Contents(x) /\ \A o \in 1 .. N : nt[o].value # y.value BY DEF NotNoted
  <2>2. PICK v \in 0 .. a.n - 1 : y = EvictEntry(a, v) BY <1>6, <2>1
  <2>3. v \in a.keep BY <1>4, <1>8, <2>1, <2>2
  <2>. QED BY <2>2, <2>3
<1>10. ASSUME NEW v \in a.keep PROVE EvictEntry(a, v) \in NotNoted(x, nt, N)
  <2>1. EvictEntry(a, v) \in Contents(x) BY <1>5, <1>6
  <2>. QED BY <1>4, <1>7, <2>1 DEF NotNoted
<1>11. Contents(u) = {EvictEntry(a, v) : v \in a.keep} BY <1>3, <1>9, <1>10
<1>. QED BY <1>2, <1>11 DEF EvictDone, Dropped, u

\* What the scenario hands back.
EvictResult(a, x) ==
    LET f(v)  == qexec_gby_cache_find(x.st.cache, v, a.home)
        all   == 0 .. a.n - 1
        stale == {v \in all \ a.keep : f(v) # NoSlot}
    IN [kind |-> "evict", n_left |-> x.st.n_cached,
        balanced |-> x.st.n_pool_free + x.st.n_cached = Half,
        stale_found |-> Cardinality(stale),
        stale_slot |-> IF stale = {} THEN NoSlot
                       ELSE f(CHOOSE v \in stale : \A u \in stale : u <= v),
        kept_found |-> Cardinality(
          {v \in all \cap a.keep : f(v) # NoSlot /\ x.st.cache[f(v)].value = v})]

EvictDocumented(a, r) ==
    /\ r.n_left = Cardinality(a.keep) /\ r.kept_found = Cardinality(a.keep)
    /\ r.stale_found = 0 /\ r.stale_slot = NoSlot /\ r.balanced

LEMMA EvictRead ==
    ASSUME NEW a, EvictArgs(a), NEW x, EvictDone(a, x)
    PROVE  EvictDocumented(a, EvictResult(a, x))
<1> DEFINE f(v)  == qexec_gby_cache_find(x.st.cache, v, a.home)
           all   == 0 .. a.n - 1
           stale == {v \in all \ a.keep : f(v) # NoSlot}
           kept == {v \in all \cap a.keep : f(v) # NoSlot /\ x.st.cache[f(v)].value = v}
           c == x.st.cache  r == EvictResult(a, x)
<1>1. x \in Worlds /\ InOrder(x) /\ Contents(x) = {EvictEntry(a, v) : v \in a.keep} BY DEF EvictDone
<1>2. a.home \in Nat /\ a.keep \subseteq all /\ \A v \in all : v \in Nat BY EvictNumbers DEF EvictArgs
<1>3. \A v : EvictEntry(a, v).bytes = v /\ EvictEntry(a, v).hash = a.home /\ EvictEntry(a, v).value = v
  BY DEF EvictEntry
<1>. HIDE DEF all
<1>4. ASSUME NEW v \in a.keep PROVE f(v) # NoSlot /\ c[f(v)].value = v
  <2>1. EvictEntry(a, v) \in Contents(x) /\ v \in Nat BY <1>1, <1>2
  <2>2. f(v) # NoSlot /\ c[f(v)] = EvictEntry(a, v) BY <1>1, <1>2, <1>3, <2>1, FindInOrder
  <2>. QED BY <1>3, <2>2
<1>5. ASSUME NEW v \in all \ a.keep PROVE f(v) = NoSlot
  <2>1. ASSUME f(v) # NoSlot PROVE FALSE
    <3>1. v \in Nat BY <1>2
    <3>2. c[f(v)] \in Contents(x) /\ c[f(v)].bytes = v BY <1>1, <1>2, <2>1, <3>1, FindInOrder
    <3>3. PICK y \in a.keep : c[f(v)] = EvictEntry(a, y) BY <1>1, <3>2
    <3>4. y = v BY <1>3, <3>2, <3>3
    <3>. QED BY <3>4
  <2>. QED BY <2>1
<1>6. stale = {} BY <1>5
<1>7. kept = a.keep BY <1>2, <1>4
<1>8. c \in Tables /\ Named(c, x.vals) /\ x.st.n_cached = Cardinality(Occupied(c))
      /\ x.st.n_cached + x.st.n_pool_free = Half
  BY <1>1 DEF InOrder
<1>9. Occupied(c) = {t \in Slots : c[t] # Empty} /\ IsFiniteSet(Occupied(c)) BY <1>8, OccupiedFacts
<1>10. Cardinality(a.keep) = Cardinality(Occupied(c))
  <2> DEFINE O == Occupied(c)  F == [t \in O |-> c[t].value]  K == a.keep
  <2>1. ASSUME NEW t \in O PROVE c[t].value \in K /\ x.vals[c[t].value].batch_slot = t
    <3>1. c[t] \in Contents(x) BY DEF Contents
    <3>2. c[t].value \in a.keep BY <1>1, <1>3, <3>1
    <3>. QED BY <1>8, <1>9, <3>2 DEF Named
  <2>2. F \in [O -> K] BY <2>1
  <2>3. \A t, y \in O : F[t] = F[y] => t = y BY <2>1
  <2>4. ASSUME NEW v \in K PROVE \E t \in O : F[t] = v
    <3>1. EvictEntry(a, v) \in Contents(x) BY <1>1
    <3>2. PICK t \in O : c[t] = EvictEntry(a, v) BY <3>1 DEF Contents
    <3>. QED BY <1>3, <3>2
  <2>5. IsFiniteSet(O) BY <1>9
  <2>. HIDE DEF F, O, K
  <2>6. Cardinality(K) = Cardinality(O) BY <2>2, <2>3, <2>4, <2>5, SameCount
  <2>. QED BY <2>6 DEF K, O
<1>11. x.st.n_pool_free + x.st.n_cached = Half
  <2>1. x.st.n_pool_free \in Nat /\ x.st.n_cached \in Nat BY <1>1 DEF Worlds, States
  <2>. QED BY <1>8, <2>1
<1>12. Cardinality(stale) = 0 BY <1>6, FS_EmptySet
<1>13. /\ r.n_left = x.st.n_cached /\ r.balanced = (x.st.n_pool_free + x.st.n_cached = Half)
       /\ r.stale_found = Cardinality(stale) /\ r.kept_found = Cardinality(kept)
       /\ stale = {} => r.stale_slot = NoSlot
  BY DEF EvictResult, all
<1>. HIDE DEF r, kept, stale
<1>14. EvictDocumented(a, r) BY <1>6, <1>7, <1>8, <1>10, <1>11, <1>12, <1>13 DEF EvictDocumented
<1>. QED BY <1>14 DEF r

------------------------------------------------------------------------------
\* The invariant: one conjunct per stage of a scenario, and what the last
\* scenario has handed back.

Stages == {"idle", "flush", "flushed", "add", "same", "evict", "evicted"}

Counters ==
    /\ w \in Worlds /\ at \in Stages /\ i \in 0 .. MaxVals
    /\ ran \in 0 .. MaxScenarios /\ (at # "idle" => ran < MaxScenarios)

IdleStage == at = "idle" => w.st = ZeroSt
FlushStage == at = "flush" => FlushArgs(arg) /\ FlushReady(arg, w)
FlushedStage == at = "flushed" => /\ FlushArgs(arg) /\ InOrder(w)
                                  /\ Replays(arg, FlushResult(arg, w))
AddStage == at = "add" => arg.n \in 1 .. MaxAdds /\ i \in 0 .. arg.n /\ AddsDone(i, w)
SameStage == at = "same" => SameDone(w)
EvictStage == at = "evict" => EvictArgs(arg) /\ i \in 0 .. arg.n /\ EvictPlaced(arg, i, w, note)
EvictedStage == at = "evicted" => EvictArgs(arg) /\ EvictDone(arg, w)

\* What is handed back stays right until the next scenario begins.
HandedBack ==
    at = "idle" => /\ res.kind = "flush" => Replays(arg, res)
                   /\ res.kind = "add" => AddDocumented(arg.n, res)
                   /\ res.kind = "same" => SameDocumented(res)
                   /\ res.kind = "evict" => EvictDocumented(arg, res)

GInv ==
    /\ Counters /\ IdleStage /\ FlushStage /\ FlushedStage /\ AddStage /\ SameStage
    /\ EvictStage /\ EvictedStage /\ HandedBack

\* The values are numbered from 0.
LEMMA ScenarioNumbers ==
    /\ MaxVals \in Nat \ {0} /\ 0 \in 0 .. MaxVals /\ MaxScenarios \in Nat
    /\ EvictNote \in 0 .. MaxVals /\ MaxAdds \in 0 .. MaxVals
    /\ TupleCounts \subseteq Nat /\ GroupCounts \subseteq Nat
BY GbyScenariosAssumption, GbyCacheAssumption

LEMMA InitGInv == Init => GInv
<1>. SUFFICES ASSUME GInit PROVE GInv BY DEF Init
<1> DEFINE vals == [v \in Vals |-> ZeroVal]  ctx == NewCtx(0, 0)
<1>1. vals \in Values
  <2>1. ZeroVal \in [batch_slot : Slots \cup {NoSlot}, tuple_count : Nat]
    BY SizeFacts DEF ZeroVal, Slots
  <2>. QED BY <2>1 DEF Values
<1>2. ctx \in Contexts BY DEF NewCtx, Contexts
<1>3. NoFakes \in Fakes
  <2>1. <<>> \in Evals /\ <<>> \in Seq(Nat) /\ 0 \in Vals BY KeyNumbers DEF Evals
  <2>. QED BY <2>1 DEF NoFakes, Fakes
<1>4. CallerSel \in Seq(Int) BY DEF CallerSel
<1>5. w = [st |-> ZeroSt, vals |-> vals, fk |-> NoFakes, ctx |-> ctx, sel |-> CallerSel, done |-> 0]
  BY DEF GInit
<1>. HIDE DEF vals, ctx
<1>6. w \in Worlds /\ w.st = ZeroSt BY <1>1, <1>2, <1>3, <1>4, <1>5, ZeroStFacts DEF Worlds
<1>7. at = "idle" /\ i = 0 /\ ran = 0 /\ res.kind = "none" BY DEF GInit, NoRes
<1>8. Counters BY <1>6, <1>7, ScenarioNumbers DEF Counters, Stages
<1>9. IdleStage /\ HandedBack BY <1>6, <1>7 DEF IdleStage, HandedBack
<1>. QED BY <1>7, <1>8, <1>9 DEF GInv, IdleStage, HandedBack, FlushStage, FlushedStage,
       AddStage, SameStage, EvictStage, EvictedStage

\* A scenario begins.
LEMMA BeginCounters ==
    ASSUME GInv, NEW s, NEW stage \in Stages, stage # "idle", Begin(s, stage),
           w' \in Worlds, i' \in 0 .. MaxVals, UNCHANGED ran
    PROVE  Counters' /\ at' = stage
BY DEF GInv, Counters, Begin

\* A scenario ends.
LEMMA ReturnCounters ==
    ASSUME GInv, at # "idle", NEW r, Return(r), w' \in Worlds, w'.st = ZeroSt
    PROVE  Counters' /\ IdleStage' /\ at' = "idle" /\ arg' = arg /\ res' = r
<1>1. ran \in 0 .. MaxScenarios /\ ran < MaxScenarios BY DEF GInv, Counters
<1>2. ran + 1 \in 0 .. MaxScenarios BY <1>1, ScenarioNumbers
<1>. QED BY <1>2, ScenarioNumbers DEF Return, Counters, IdleStage, Stages

LEMMA FlushSetupKeeps ==
    ASSUME GInv, NEW ng \in 1 .. MaxGroups, NEW n \in 1 .. MaxPend, NEW t \in TupleCounts,
           NEW c \in GroupCounts, NEW grp \in [1 .. n -> 0 .. ng - 1], FlushSetup(grp, ng, t, c)
    PROVE  GInv'
<1> DEFINE a == [kind |-> "flush", grp |-> grp, ng |-> ng, tuples |-> t, groups |-> c]
<1>1. arg' = a BY DEF FlushSetup
<1>2. a.grp = grp /\ a.ng = ng /\ a.tuples = t /\ a.groups = c /\ a.kind = "flush" OBVIOUS
<1>. HIDE DEF a
<1>3. FlushArgs(a) BY <1>2, ScenarioNumbers DEF FlushArgs
<1>4. w \in Worlds BY DEF GInv, Counters
<1>5. FlushReady(a, w')
  <2>1. w' = LET u == FlushEntries(qexec_gby_pool_reset(FlushReset([w EXCEPT !.st = ZeroSt])), a.ng)
             IN [u EXCEPT !.ctx = NewCtx(a.tuples, a.groups), !.sel = CallerSel, !.done = 0,
                          !.st.pend = [y \in DOMAIN a.grp |-> [row |-> y, ent |-> FlushSlot(a.grp[y])]]]
    BY <1>2 DEF FlushSetup
  <2>. QED BY <1>3, <1>4, <2>1, FlushSetupReady
<1>6. Begin("flush", "flush") /\ UNCHANGED <<i, ran>> BY DEF FlushSetup
<1>7. Counters' /\ at' = "flush"
  <2>1. w' \in Worlds BY <1>5 DEF FlushReady
  <2>2. i' \in 0 .. MaxVals BY <1>6 DEF GInv, Counters
  <2>3. "flush" \in Stages BY DEF Stages
  <2>. QED BY <1>6, <2>1, <2>2, <2>3, BeginCounters
<1>8. FlushStage' BY <1>1, <1>3, <1>5 DEF FlushStage
<1>. QED BY <1>7, <1>8 DEF GInv, IdleStage, HandedBack, FlushStage, FlushedStage,
       AddStage, SameStage, EvictStage, EvictedStage

LEMMA FlushCallKeeps ==
    ASSUME GInv, FlushCall
    PROVE  GInv'
<1>1. at = "flush" /\ at' = "flushed" /\ arg' = arg /\ UNCHANGED <<i, ran>> BY DEF FlushCall
<1>2. FlushArgs(arg) /\ FlushReady(arg, w) BY <1>1 DEF GInv, FlushStage
<1>3. w' \in Worlds /\ InOrder(w') /\ Replays(arg, FlushResult(arg, w'))
  BY <1>2, FlushReplays DEF FlushCall
<1>4. Counters' BY <1>1, <1>3 DEF GInv, Counters, Stages
<1>5. FlushedStage' BY <1>1, <1>2, <1>3 DEF FlushedStage
<1>. QED BY <1>1, <1>4, <1>5 DEF GInv, IdleStage, HandedBack, FlushStage, FlushedStage,
       AddStage, SameStage, EvictStage, EvictedStage

LEMMA FlushReadBackKeeps ==
    ASSUME GInv, FlushReadBack
    PROVE  GInv'
<1>1. at = "flushed" /\ Return(FlushResult(arg, w)) /\ w' = [w EXCEPT !.st = ZeroSt]
  BY DEF FlushReadBack, FlushResult
<1>2. Replays(arg, FlushResult(arg, w)) BY <1>1 DEF GInv, FlushedStage
<1>3. w' \in Worlds /\ w'.st = ZeroSt BY <1>1, ZeroStWorld DEF GInv, Counters
<1>4. /\ Counters' /\ IdleStage' /\ at' = "idle" /\ arg' = arg /\ res' = FlushResult(arg, w)
  BY <1>1, <1>3, ReturnCounters
<1>5. FlushResult(arg, w).kind = "flush" BY DEF FlushResult
<1>6. HandedBack' BY <1>2, <1>4, <1>5 DEF HandedBack
<1>. QED BY <1>4, <1>6 DEF GInv, IdleStage, HandedBack, FlushStage, FlushedStage,
       AddStage, SameStage, EvictStage, EvictedStage

LEMMA AddSetupKeeps ==
    ASSUME GInv, NEW n \in 1 .. MaxAdds, AddSetup(n)
    PROVE  GInv'
<1>1. Begin("flush", "add") /\ arg' = [kind |-> "add", n |-> n] /\ w' = AddReset /\ i' = 0
      /\ UNCHANGED ran
  BY DEF AddSetup
<1>2. w \in Worlds BY DEF GInv, Counters
<1>3. AddsDone(0, w') BY <1>1, <1>2, AddsBegin
<1>4. Counters' /\ at' = "add"
  <2>1. w' \in Worlds BY <1>3 DEF AddsDone
  <2>2. i' \in 0 .. MaxVals BY <1>1, ScenarioNumbers
  <2>3. "add" \in Stages BY DEF Stages
  <2>. QED BY <1>1, <2>1, <2>2, <2>3, BeginCounters
<1>5. AddStage'
  <2>1. arg'.n = n /\ n \in Nat BY <1>1, ScenarioNumbers
  <2>2. 0 \in 0 .. n BY <2>1
  <2>. QED BY <1>1, <1>3, <2>1, <2>2 DEF AddStage
<1>. QED BY <1>4, <1>5 DEF GInv, IdleStage, HandedBack, FlushStage, FlushedStage,
       AddStage, SameStage, EvictStage, EvictedStage

LEMMA AddKeyKeeps ==
    ASSUME GInv, AddKey
    PROVE  GInv'
<1>1. at = "add" /\ at' = "add" /\ i < arg.n /\ i' = i + 1 /\ arg' = arg /\ UNCHANGED ran
      /\ w' = qexec_gby_cache_add([w EXCEPT !.fk.get_result = i], i, HashOf[i])
  BY DEF AddKey
<1>2. arg.n \in 1 .. MaxAdds /\ i \in 0 .. arg.n /\ AddsDone(i, w) BY <1>1 DEF GInv, AddStage
<1>3. arg.n \in Nat /\ i \in 0 .. MaxAdds - 1 /\ i + 1 \in 0 .. arg.n /\ i + 1 \in 0 .. MaxVals
  BY <1>1, <1>2, ScenarioNumbers
<1>4. AddsDone(i', w') BY <1>1, <1>2, <1>3, AddsNext
<1>5. w' \in Worlds BY <1>4 DEF AddsDone
<1>6. Counters' BY <1>1, <1>3, <1>5 DEF GInv, Counters
<1>7. AddStage' BY <1>1, <1>2, <1>3, <1>4 DEF AddStage
<1>. QED BY <1>1, <1>6, <1>7 DEF GInv, IdleStage, HandedBack, FlushStage, FlushedStage,
       AddStage, SameStage, EvictStage, EvictedStage

\* The batch state is zeroed after a clear.
LEMMA ClearedAway ==
    ASSUME NEW x \in Worlds, InOrder(x)
    PROVE  LET u == [qexec_gby_cache_clear(x) EXCEPT !.st = ZeroSt]
           IN u \in Worlds /\ u.st = ZeroSt
<1> DEFINE y == qexec_gby_cache_clear(x)
<1>1. x.st.cache \in Tables BY DEF InOrder
<1>2. y \in Worlds BY <1>1, ClearInOrder DEF Cleared
<1>. HIDE DEF y
<1>. QED BY <1>2, ZeroStWorld DEF y

LEMMA AddReadBackKeeps ==
    ASSUME GInv, AddReadBack
    PROVE  GInv'
<1>1. at = "add" /\ i = arg.n /\ Return(AddResult(arg.n, w))
      /\ w' = [qexec_gby_cache_clear(w) EXCEPT !.st = ZeroSt]
  BY DEF AddReadBack, AddResult, Found, FoundFor, SlotIs
<1>2. arg.n \in 1 .. MaxAdds /\ AddsDone(arg.n, w) BY <1>1 DEF GInv, AddStage
<1>3. AddDocumented(arg.n, AddResult(arg.n, w)) BY <1>2, AddsRead
<1>4. w \in Worlds /\ InOrder(w)
  <2>1. arg.n # 0 BY <1>2, ScenarioNumbers
  <2>. QED BY <1>2, <2>1 DEF AddsDone
<1>5. w' \in Worlds /\ w'.st = ZeroSt BY <1>1, <1>4, ClearedAway
<1>6. /\ Counters' /\ IdleStage' /\ at' = "idle" /\ arg' = arg /\ res' = AddResult(arg.n, w)
  BY <1>1, <1>5, ReturnCounters
<1>7. AddResult(arg.n, w).kind = "add" BY DEF AddResult
<1>8. HandedBack' BY <1>3, <1>6, <1>7 DEF HandedBack
<1>. QED BY <1>6, <1>8 DEF GInv, IdleStage, HandedBack, FlushStage, FlushedStage,
       AddStage, SameStage, EvictStage, EvictedStage

LEMMA SameGroupKeeps ==
    ASSUME GInv, SameGroup
    PROVE  GInv'
<1>1. Begin("flush", "same") /\ UNCHANGED <<i, ran>> BY DEF SameGroup
<1>2. w \in Worlds BY DEF GInv, Counters
<1>3. SameDone(w') BY <1>2, SameAdds DEF SameGroup
<1>4. Counters' /\ at' = "same"
  <2>1. w' \in Worlds BY <1>3 DEF SameDone
  <2>2. i' \in 0 .. MaxVals BY <1>1 DEF GInv, Counters
  <2>3. "same" \in Stages BY DEF Stages
  <2>. QED BY <1>1, <2>1, <2>2, <2>3, BeginCounters
<1>5. SameStage' BY <1>3 DEF SameStage
<1>. QED BY <1>4, <1>5 DEF GInv, IdleStage, HandedBack, FlushStage, FlushedStage,
       AddStage, SameStage, EvictStage, EvictedStage

LEMMA SameReadBackKeeps ==
    ASSUME GInv, SameReadBack
    PROVE  GInv'
<1>1. at = "same" /\ Return(SameResult(w)) /\ w' = [qexec_gby_cache_clear(w) EXCEPT !.st = ZeroSt]
  BY DEF SameReadBack, SameResult, Found, FoundFor, SlotIs
<1>2. SameDone(w) BY <1>1 DEF GInv, SameStage
<1>3. SameDocumented(SameResult(w)) BY <1>2, SameRead
<1>4. w \in Worlds /\ InOrder(w) BY <1>2 DEF SameDone
<1>5. w' \in Worlds /\ w'.st = ZeroSt BY <1>1, <1>4, ClearedAway
<1>6. /\ Counters' /\ IdleStage' /\ at' = "idle" /\ arg' = arg /\ res' = SameResult(w)
  BY <1>1, <1>5, ReturnCounters
<1>7. SameResult(w).kind = "same" BY DEF SameResult
<1>8. HandedBack' BY <1>3, <1>6, <1>7 DEF HandedBack
<1>. QED BY <1>6, <1>8 DEF GInv, IdleStage, HandedBack, FlushStage, FlushedStage,
       AddStage, SameStage, EvictStage, EvictedStage

LEMMA EvictSetupKeeps ==
    ASSUME GInv, NEW n \in 1 .. EvictNote, NEW home \in Slots, NEW keep \in SUBSET (0 .. n - 1),
           EvictSetup(n, home, keep)
    PROVE  GInv'
<1> DEFINE a == [kind |-> "evict", n |-> n, home |-> home, keep |-> keep]
<1>1. Begin("evict", "evict") /\ arg' = a /\ w' = qexec_gby_pool_reset([w EXCEPT !.st = ZeroSt])
      /\ note' = <<>> /\ i' = 0 /\ UNCHANGED ran
  BY DEF EvictSetup
<1>2. EvictArgs(a) BY DEF EvictArgs
<1>. HIDE DEF a
<1>3. w \in Worlds BY DEF GInv, Counters
<1>4. EvictPlaced(a, 0, w', note') BY <1>1, <1>2, <1>3, EvictBegins
<1>5. Counters' /\ at' = "evict"
  <2>1. w' \in Worlds BY <1>4 DEF EvictPlaced
  <2>2. i' \in 0 .. MaxVals BY <1>1, ScenarioNumbers
  <2>3. "evict" \in Stages BY DEF Stages
  <2>. QED BY <1>1, <2>1, <2>2, <2>3, BeginCounters
<1>6. EvictStage'
  <2>1. a.n \in Nat BY <1>2, EvictNumbers
  <2>2. 0 \in 0 .. a.n BY <2>1
  <2>. QED BY <1>1, <1>2, <1>4, <2>2 DEF EvictStage
<1>. QED BY <1>5, <1>6 DEF GInv, IdleStage, HandedBack, FlushStage, FlushedStage,
       AddStage, SameStage, EvictStage, EvictedStage

LEMMA EvictPlaceKeeps ==
    ASSUME GInv, EvictPlace
    PROVE  GInv'
<1>1. at = "evict" /\ at' = "evict" /\ i < arg.n /\ i' = i + 1 /\ arg' = arg /\ UNCHANGED ran
  BY DEF EvictPlace
<1>2. EvictArgs(arg) /\ i \in 0 .. arg.n /\ EvictPlaced(arg, i, w, note) BY <1>1 DEF GInv, EvictStage
<1>3. arg.n \in Nat /\ i \in 0 .. arg.n - 1 /\ i + 1 \in 0 .. arg.n /\ i + 1 \in 0 .. MaxVals
  <2>1. arg.n \in Nat BY <1>2, EvictNumbers
  <2>2. arg.n <= EvictNote /\ EvictNote <= MaxVals /\ EvictNote \in Nat /\ MaxVals \in Nat
    BY <1>2, ScenarioNumbers DEF EvictArgs
  <2>3. i \in Nat /\ i < arg.n BY <1>1, <1>2
  <2>. QED BY <2>1, <2>2, <2>3
<1>4. EvictPlaced(arg, i', w', note')
  <2>1. LET s == FirstFree(w.st.cache, Wrap(arg.home))
        IN EvictPlaced(arg, i + 1, PlaceAt(w, s, [bytes |-> i, hash |-> arg.home, value |-> i]),
                       IF i \in arg.keep THEN note ELSE Append(note, [value |-> i, slot |-> s]))
    BY <1>2, <1>3, EvictPlacedNext
  <2>. QED BY <1>1, <2>1 DEF EvictPlace
<1>5. w' \in Worlds BY <1>4 DEF EvictPlaced
<1>6. Counters' BY <1>1, <1>3, <1>5 DEF GInv, Counters
<1>7. EvictStage' BY <1>1, <1>2, <1>3, <1>4 DEF EvictStage
<1>. QED BY <1>1, <1>6, <1>7 DEF GInv, IdleStage, HandedBack, FlushStage, FlushedStage,
       AddStage, SameStage, EvictStage, EvictedStage

LEMMA EvictCallKeeps ==
    ASSUME GInv, EvictCall
    PROVE  GInv'
<1>1. at = "evict" /\ at' = "evicted" /\ i = arg.n /\ arg' = arg /\ UNCHANGED <<i, ran>>
      /\ w' = qexec_gby_cache_evicted(w, note)
  BY DEF EvictCall
<1>2. EvictArgs(arg) /\ EvictPlaced(arg, arg.n, w, note) BY <1>1 DEF GInv, EvictStage
<1>3. EvictDone(arg, w') BY <1>1, <1>2, EvictCalled
<1>4. w' \in Worlds BY <1>3 DEF EvictDone
<1>5. Counters' BY <1>1, <1>4 DEF GInv, Counters, Stages
<1>6. EvictedStage' BY <1>1, <1>2, <1>3 DEF EvictedStage
<1>. QED BY <1>1, <1>5, <1>6 DEF GInv, IdleStage, HandedBack, FlushStage, FlushedStage,
       AddStage, SameStage, EvictStage, EvictedStage

LEMMA EvictReadBackKeeps ==
    ASSUME GInv, EvictReadBack
    PROVE  GInv'
<1>1. at = "evicted" /\ Return(EvictResult(arg, w)) /\ w' = [w EXCEPT !.st = ZeroSt]
  BY DEF EvictReadBack, EvictResult, EvictFound
<1>2. EvictArgs(arg) /\ EvictDone(arg, w) BY <1>1 DEF GInv, EvictedStage
<1>3. EvictDocumented(arg, EvictResult(arg, w)) BY <1>2, EvictRead
<1>4. w' \in Worlds /\ w'.st = ZeroSt BY <1>1, ZeroStWorld DEF GInv, Counters
<1>5. /\ Counters' /\ IdleStage' /\ at' = "idle" /\ arg' = arg /\ res' = EvictResult(arg, w)
  BY <1>1, <1>4, ReturnCounters
<1>6. EvictResult(arg, w).kind = "evict" BY DEF EvictResult
<1>7. HandedBack' BY <1>3, <1>5, <1>6 DEF HandedBack
<1>. QED BY <1>5, <1>7 DEF GInv, IdleStage, HandedBack, FlushStage, FlushedStage,
       AddStage, SameStage, EvictStage, EvictedStage

\* The invariant is inductive.
LEMMA NextGInv == GInv /\ [Next]_<<gvars, mvars>> => GInv'
<1>. SUFFICES ASSUME GInv, [Next]_<<gvars, mvars>> PROVE GInv' OBVIOUS
<1>1. CASE FlushNext
  <2>1. CASE \E ng \in 1 .. MaxGroups, n \in 1 .. MaxPend, t \in TupleCounts, c \in GroupCounts :
               \E grp \in [1 .. n -> 0 .. ng - 1] : FlushSetup(grp, ng, t, c)
    BY <2>1, FlushSetupKeeps
  <2>2. CASE \E n \in 1 .. MaxAdds : AddSetup(n) BY <2>2, AddSetupKeeps
  <2>. QED BY <1>1, <2>1, <2>2, FlushCallKeeps, FlushReadBackKeeps, AddKeyKeeps, AddReadBackKeeps,
         SameGroupKeeps, SameReadBackKeeps DEF FlushNext
<1>2. CASE EvictNext
  <2>1. CASE \E n \in 1 .. EvictNote, home \in Slots : \E keep \in SUBSET (0 .. n - 1) :
               EvictSetup(n, home, keep)
    BY <2>1, EvictSetupKeeps
  <2>. QED BY <1>2, <2>1, EvictPlaceKeeps, EvictCallKeeps, EvictReadBackKeeps DEF EvictNext
<1>3. CASE UNCHANGED gvars
  BY <1>3 DEF gvars, GInv, Counters, IdleStage, HandedBack, FlushStage, FlushedStage, AddStage,
       SameStage, EvictStage, EvictedStage
<1>4. FlushNext \/ EvictNext \/ UNCHANGED gvars BY DEF Next, GNext
<1>. QED BY <1>1, <1>2, <1>3, <1>4

LEMMA AlwaysGInv == Spec => []GInv
BY InitGInv, NextGInv, PTL DEF Spec

------------------------------------------------------------------------------
\* The theorems.

\* In every state the batch state is zeroed or its cache in order.
LEMMA ZeroOrInOrder ==
    ASSUME GInv
    PROVE  w \in Worlds /\ (w.st = ZeroSt \/ InOrder(w))
<1>1. w \in Worlds /\ at \in Stages BY DEF GInv, Counters
<1>2. CASE at = "idle" BY <1>1, <1>2 DEF GInv, IdleStage
<1>3. CASE at = "flush" BY <1>1, <1>3 DEF GInv, FlushStage, FlushReady
<1>4. CASE at = "flushed" BY <1>1, <1>4 DEF GInv, FlushedStage
<1>5. CASE at = "add" BY <1>1, <1>5 DEF GInv, AddStage, AddsDone
<1>6. CASE at = "same" BY <1>1, <1>6 DEF GInv, SameStage, SameDone
<1>7. CASE at = "evict" BY <1>1, <1>7 DEF GInv, EvictStage, EvictPlaced
<1>8. CASE at = "evicted" BY <1>1, <1>8 DEF GInv, EvictedStage, EvictDone
<1>. QED BY <1>1, <1>2, <1>3, <1>4, <1>5, <1>6, <1>7, <1>8 DEF Stages

\* The world keeps its types in every step of every scenario, and no scenario
\* has more entries in the cache than the pool has buffers (GTypeOK), for every
\* size of the table and every number of keys, groups and rows.
THEOREM GTypeCorrect == Spec => []GTypeOK
<1>1. GInv => GTypeOK
  <2>. SUFFICES ASSUME GInv PROVE GTypeOK OBVIOUS
  <2>1. w \in Worlds /\ (w.st = ZeroSt \/ InOrder(w)) BY ZeroOrInOrder
  <2>2. w.st \in States /\ w.vals \in Values /\ w.ctx \in Contexts BY <2>1 DEF Worlds
  <2>3. w.st.cache = NullCache
          \/ w.st.cache \in [Slots -> [bytes : Nat, hash : Nat, value : Vals] \cup {Empty}]
    BY <2>2 DEF States, Caches, Tables, Entries
  <2>4. w.st.n_cached \in 0 .. Half /\ w.st.n_pool_free \in 0 .. Half
    <3>1. CASE w.st = ZeroSt BY <3>1, ZeroStFacts, SizeFacts
    <3>2. CASE InOrder(w) BY <2>1, <3>2, FreeSlot
    <3>. QED BY <2>1, <3>1, <3>2
  <2>5. \A v \in Vals : w.vals[v].batch_slot \in Slots \cup {NoSlot} /\ w.vals[v].tuple_count \in Nat
    BY <2>2 DEF Values
  <2>6. w.ctx.state \in {"HS_ACCEPT_ALL", "HS_REJECT_ALL"} BY <2>2 DEF Contexts
  <2>7. i \in 0 .. MaxVals /\ ran \in 0 .. MaxScenarios BY DEF GInv, Counters
  <2>. QED BY <2>3, <2>4, <2>5, <2>6, <2>7 DEF GTypeOK
<1>. QED BY <1>1, AlwaysGInv, PTL

\* Whatever the scenario has added, removed, evicted or flushed, a probe finds
\* every entry in its own slot, the group of an entry names that slot, and the
\* counters count (CacheConsistent): no backward shift of a removal, across the
\* wrap or not, breaks the chain of another key, for every table size that is
\* a power of two and every hash function.
THEOREM CacheStaysConsistent == Spec => []CacheConsistent
<1>1. GInv => CacheConsistent
  <2>. SUFFICES ASSUME GInv, w.st.cache # NullCache
                PROVE  /\ \A s \in Occupied(w.st.cache) :
                            /\ qexec_gby_cache_find(w.st.cache, w.st.cache[s].bytes, w.st.cache[s].hash) = s
                            /\ w.vals[w.st.cache[s].value].batch_slot = s
                       /\ w.st.n_cached = Cardinality(Occupied(w.st.cache))
                       /\ w.st.n_cached + w.st.n_pool_free = Half
    BY DEF CacheConsistent
  <2>1. w \in Worlds /\ InOrder(w) BY ZeroOrInOrder, ZeroStFacts
  <2>2. /\ w.st.cache \in Tables /\ Reached(w.st.cache) /\ Named(w.st.cache, w.vals)
        /\ KeysDiffer(w.st.cache) /\ w.st.n_cached = Cardinality(Occupied(w.st.cache))
        /\ w.st.n_cached + w.st.n_pool_free = Half
    BY <2>1 DEF InOrder
  <2>3. ASSUME NEW s \in Occupied(w.st.cache)
        PROVE  /\ qexec_gby_cache_find(w.st.cache, w.st.cache[s].bytes, w.st.cache[s].hash) = s
               /\ w.vals[w.st.cache[s].value].batch_slot = s
    <3>1. s \in Slots /\ w.st.cache[s] # Empty BY <2>2, OccupiedFacts
    <3>2. w.st.cache[s].bytes \in Nat /\ w.st.cache[s].hash \in Nat BY <2>2, <3>1, EntryFacts
    <3>. QED BY <2>2, <3>1, <3>2, FindFacts DEF Named
  <2>. QED BY <2>2, <2>3
<1>. QED BY <1>1, AlwaysGInv, PTL

\* A flush hands the aggregates and the table what the row path would have, for
\* every assignment of rows to groups, every count the context starts from and
\* whatever the scenarios before it left behind (FlushReplaysRowPath).
THEOREM FlushAsRowPath == Spec => []FlushReplaysRowPath
<1>1. GInv => FlushReplaysRowPath
  <2>1. HandedBack => FlushReplaysRowPath
    BY DEF HandedBack, FlushReplaysRowPath, Replays, CallsReplay, TouchesReplay, Hit
  <2>. QED BY <2>1 DEF GInv
<1>. QED BY <1>1, AlwaysGInv, PTL

\* An add scenario reports one copy per add, a start over after every Half adds
\* with its releases, and finds the last key; two byte strings of one group
\* leave one entry (AddsAsDocumented), for every hash function.
THEOREM AddsDocumented == Spec => []AddsAsDocumented
<1>1. GInv => AddsAsDocumented
  <2>1. HandedBack => AddsAsDocumented
    BY DEF HandedBack, AddsAsDocumented, AddDocumented, SameDocumented
  <2>. QED BY <2>1 DEF GInv
<1>. QED BY <1>1, AlwaysGInv, PTL

\* After any eviction of groups of one cluster, at any home slot, no evicted
\* group is found, every kept one is, and the pool has its buffers back
\* (EvictedGone).
THEOREM EvictionComplete == Spec => []EvictedGone
<1>1. GInv => EvictedGone
  <2>1. HandedBack => EvictedGone BY DEF HandedBack, EvictedGone, EvictDocumented
  <2>. QED BY <2>1 DEF GInv
<1>. QED BY <1>1, AlwaysGInv, PTL

==============================================================================
