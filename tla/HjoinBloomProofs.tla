--------------------------- MODULE HjoinBloomProofs ---------------------------
(***************************************************************************)
(* Theorems about the Bloom filter of a hash join's second input: for every  *)
(* set of layouts, first inputs, second-input values, workers and limits,    *)
(* what HjoinBloom's runs check on a small instance.                        *)
(*                                                                         *)
(* The filter's state is shared by the owner, the workers and the thread of  *)
(* the first input, so no property is inductive as it stands: the invariant  *)
(* ties the struct to the history (Filter), the inputs' ends to the members  *)
(* they publish (Phase), every worker's stale copy to the filter (WorkersOK) *)
(* and the counts that are spread over them to the rows given (Counts).      *)
(***************************************************************************)
EXTENDS HjoinBloom, FiniteSetTheorems, WellFoundedInduction, TLAPS

------------------------------------------------------------------------------
\* What MapThenSumSet computes for a function on a finite set.  It recurses over
\* the subsets of the set; the lemmas argue by a least counterexample, which a
\* well-founded relation has (WFMin).

SumOver(v, S) == MapThenSumSet(LAMBDA w : v[w], S)

\* The element the recursion takes from a set, and the function it defines.
First(s) == CHOOSE x \in s : TRUE
Adds(v, S, it) ==
    it = [s \in SUBSET S |-> IF s = {} THEN 0 ELSE v[First(s)] + it[s \ {First(s)}]]

\* The recursion at every non-empty set.
AddsStep(v, S, it) ==
    \A s \in SUBSET S : s # {} => it[s] = v[First(s)] + it[s \ {First(s)}]

\* A non-empty set of subsets of a finite set has a least one.
LEMMA LeastSubset ==
    ASSUME NEW S, IsFiniteSet(S), NEW T, T \subseteq SUBSET S, T # {}
    PROVE  \E x \in T : \A y \in T : ~(y \subseteq x /\ y # x)
<1>1. IsWellFoundedOn(StrictSubsetOrdering(S), FiniteSubsetsOf(S))
  BY FS_StrictSubsetOrderingWellFounded
<1>2. T \subseteq FiniteSubsetsOf(S)
  BY FS_FiniteSubsetsOfFinite
<1>3. PICK x \in T : \A y \in T : ~(<<y, x>> \in StrictSubsetOrdering(S))
  BY <1>1, <1>2, WFMin
<1>4. ASSUME NEW y \in T PROVE ~(y \subseteq x /\ y # x)
  BY <1>3, <1>4 DEF StrictSubsetOrdering
<1>. QED BY <1>4

\* The element MapThenSumSet takes from a non-empty set is one of its elements.
LEMMA FirstIn == \A s : s # {} => First(s) \in s
BY DEF First

\* What the recursion says at a set.
LEMMA AddsAt ==
    ASSUME NEW v, NEW S, NEW it, Adds(v, S, it)
    PROVE  it[{}] = 0 /\ AddsStep(v, S, it)
<1>1. \A s \in SUBSET S : it[s] = IF s = {} THEN 0 ELSE v[First(s)] + it[s \ {First(s)}]
  BY DEF Adds
<1>. QED BY <1>1 DEF AddsStep

\* The sum of a set does not depend on the set it is taken in.
LEMMA AddsUnique ==
    ASSUME NEW v, NEW S, IsFiniteSet(S), NEW it, Adds(v, S, it),
           NEW A \in SUBSET S, NEW jt, Adds(v, A, jt)
    PROVE  it[A] = jt[A]
<1> DEFINE Bad == {s \in SUBSET A : it[s] # jt[s]}
<1>1. SUFFICES ASSUME Bad # {} PROVE FALSE
  <2>1. A \in SUBSET A OBVIOUS
  <2>. QED BY <2>1
<1>2. Bad \subseteq SUBSET S OBVIOUS
<1>3. PICK s \in Bad : \A y \in Bad : ~(y \subseteq s /\ y # s)
  <2>. HIDE DEF Bad
  <2>. QED BY <1>1, <1>2, LeastSubset
<1>4. s \in SUBSET A /\ s \in SUBSET S /\ it[s] # jt[s] OBVIOUS
<1>5. s # {} BY <1>4, AddsAt
<1>6. First(s) \in s BY <1>5, FirstIn
<1> DEFINE r == s \ {First(s)}
<1>7. r \subseteq s /\ r # s /\ r \in SUBSET A BY <1>6, <1>4
<1>8. it[r] = jt[r] BY <1>3, <1>7
<1>9. it[s] = v[First(s)] + it[r] /\ jt[s] = v[First(s)] + jt[r]
  <2>1. AddsStep(v, S, it) /\ AddsStep(v, A, jt) BY AddsAt
  <2>. QED BY <2>1, <1>4, <1>5 DEF AddsStep
<1>. QED BY <1>4, <1>8, <1>9

\* The recursion has a solution: a least set without one could be given one.
LEMMA AddsExists ==
    ASSUME NEW v, NEW S, IsFiniteSet(S)
    PROVE  \E it : Adds(v, S, it)
<1> DEFINE Bad == {A \in SUBSET S : ~\E it : Adds(v, A, it)}
<1>1. SUFFICES ASSUME Bad # {} PROVE FALSE
  <2>1. S \in SUBSET S OBVIOUS
  <2>. QED BY <2>1
<1>2. Bad \subseteq SUBSET S OBVIOUS
<1>3. PICK A \in Bad : \A y \in Bad : ~(y \subseteq A /\ y # A)
  <2>. HIDE DEF Bad
  <2>. QED BY <1>1, <1>2, LeastSubset
<1>4. A \in SUBSET S /\ ~\E it : Adds(v, A, it) OBVIOUS
<1> DEFINE Of(r) == (CHOOSE it : Adds(v, r, it))
           Val(s) == IF s = {} THEN 0 ELSE v[First(s)] + Of(s \ {First(s)})[s \ {First(s)}]
           jt == [s \in SUBSET A |-> Val(s)]
<1>5. ASSUME NEW s \in SUBSET A, s # {}
      PROVE  LET r == s \ {First(s)} IN r \in SUBSET A /\ r \in SUBSET S /\ Adds(v, r, Of(r))
  <2>1. First(s) \in s BY <1>5, FirstIn
  <2> DEFINE r == s \ {First(s)}
  <2>2. r \in SUBSET A /\ r \in SUBSET S /\ r # A BY <2>1, <1>4
  <2>3. \E it : Adds(v, r, it) BY <2>2, <1>3
  <2>. QED BY <2>2, <2>3
<1>6. ASSUME NEW s \in SUBSET A, s # {}, NEW r, r = s \ {First(s)}
      PROVE  Of(r)[r] = Val(r)
  <2>1. r \in SUBSET A /\ r \in SUBSET S /\ Adds(v, r, Of(r)) BY <1>5, <1>6
  <2>2. CASE r = {} BY <2>1, <2>2, AddsAt
  <2>3. CASE r # {}
    <3> DEFINE q == r \ {First(r)}
    <3>0. r \in SUBSET r BY <2>1
    <3>1. Of(r)[r] = v[First(r)] + Of(r)[q]
      <4>1. AddsStep(v, r, Of(r)) BY <2>1, AddsAt
      <4>. QED BY <4>1, <2>3, <3>0 DEF AddsStep
    <3>2. q \in SUBSET r /\ Adds(v, q, Of(q)) BY <2>1, <2>3, <1>5
    <3>3. IsFiniteSet(r) BY <2>1, FS_Subset
    <3>4. Of(r)[q] = Of(q)[q]
      <4>. HIDE DEF Of, q
      <4>. QED BY <2>1, <3>2, <3>3, AddsUnique
    <3>. QED BY <2>3, <3>1, <3>4
  <2>. QED BY <2>2, <2>3
<1>7. ASSUME NEW s \in SUBSET A
      PROVE  Val(s) = IF s = {} THEN 0 ELSE v[First(s)] + jt[s \ {First(s)}]
  <2>1. CASE s = {} BY <2>1
  <2>2. CASE s # {}
    <3>1. PICK r : r = s \ {First(s)} OBVIOUS
    <3>2. r \in SUBSET A BY <2>2, <3>1, <1>5
    <3>3. jt[r] = Val(r)
      <4>. HIDE DEF Val
      <4>. QED BY <3>2
    <3>4. Of(r)[r] = Val(r)
      <4>. HIDE DEF Val, Of
      <4>. QED BY <1>6, <2>2, <3>1
    <3>5. Val(s) = v[First(s)] + Of(r)[r]
      <4>. HIDE DEF Of
      <4>. QED BY <2>2, <3>1
    <3>6. Val(s) = v[First(s)] + jt[r]
      <4>. HIDE DEF Val, Of, jt
      <4>. QED BY <3>3, <3>4, <3>5
    <3>. HIDE DEF Val, jt
    <3>. QED BY <2>2, <3>1, <3>6
  <2>. HIDE DEF Val, jt
  <2>. QED BY <2>1, <2>2
<1>8. Adds(v, A, jt)
  <2>1. jt = [s \in SUBSET A |-> IF s = {} THEN 0 ELSE v[First(s)] + jt[s \ {First(s)}]]
    <3>1. \A s \in SUBSET A : jt[s] = IF s = {} THEN 0 ELSE v[First(s)] + jt[s \ {First(s)}]
      <4>1. \A s \in SUBSET A : jt[s] = Val(s)
        <5>. HIDE DEF Val
        <5>. QED OBVIOUS
      <4>. HIDE DEF Val, jt
      <4>. QED BY <1>7, <4>1
    <3>2. jt \in [SUBSET A -> {jt[s] : s \in SUBSET A}]
      <4>. HIDE DEF Val
      <4>. QED OBVIOUS
    <3>. HIDE DEF jt
    <3>. QED BY <3>1, <3>2
  <2>. HIDE DEF jt
  <2>. QED BY <2>1 DEF Adds
<1>. QED BY <1>4, <1>8

\* MapThenSumSet is a solution at the whole set.
LEMMA SumAdds ==
    ASSUME NEW W, IsFiniteSet(W), NEW v
    PROVE  \E it : Adds(v, W, it) /\ SumOver(v, W) = it[W]
<1>1. SumOver(v, W) = (CHOOSE it : Adds(v, W, it))[W]
  BY DEF SumOver, MapThenSumSet, MapThenFoldSet, Adds, First
<1>. QED BY <1>1, AddsExists

\* A sum of zeros is zero: no counts are held once every worker has ended.
LEMMA SumZero ==
    ASSUME NEW W, IsFiniteSet(W), NEW v, \A w \in W : v[w] = 0
    PROVE  SumOver(v, W) = 0
<1>1. PICK it : Adds(v, W, it) /\ SumOver(v, W) = it[W] BY SumAdds
<1> DEFINE Bad == {s \in SUBSET W : it[s] # 0}
<1>2. SUFFICES ASSUME Bad # {} PROVE FALSE
  <2>1. W \in SUBSET W OBVIOUS
  <2>. QED BY <1>1, <2>1
<1>3. Bad \subseteq SUBSET W OBVIOUS
<1>4. PICK s \in Bad : \A y \in Bad : ~(y \subseteq s /\ y # s)
  <2>. HIDE DEF Bad
  <2>. QED BY <1>2, <1>3, LeastSubset
<1>5. s \in SUBSET W /\ it[s] # 0 OBVIOUS
<1>6. s # {} BY <1>1, <1>5, AddsAt
<1>7. First(s) \in s BY <1>6, FirstIn
<1>8. PICK r : r = s \ {First(s)} OBVIOUS
<1>9. r \in SUBSET W /\ r \subseteq s /\ r # s BY <1>5, <1>7, <1>8
<1>10. it[r] = 0 BY <1>4, <1>9
<1>11. it[s] = v[First(s)] + it[r]
  <2>. HIDE DEF Bad
  <2>1. AddsStep(v, W, it) BY <1>1, AddsAt
  <2>. QED BY <2>1, <1>5, <1>6, <1>8 DEF AddsStep
<1>12. v[First(s)] = 0 BY <1>5, <1>7
<1>. QED BY <1>5, <1>10, <1>11, <1>12

\* A sum of natural numbers is one.
LEMMA SumType ==
    ASSUME NEW W, IsFiniteSet(W), NEW v, \A w \in W : v[w] \in Nat
    PROVE  SumOver(v, W) \in Nat
<1>1. PICK it : Adds(v, W, it) /\ SumOver(v, W) = it[W] BY SumAdds
<1> DEFINE Bad == {s \in SUBSET W : it[s] \notin Nat}
<1>2. SUFFICES ASSUME Bad # {} PROVE FALSE
  <2>1. W \in SUBSET W OBVIOUS
  <2>. QED BY <1>1, <2>1
<1>3. Bad \subseteq SUBSET W OBVIOUS
<1>4. PICK s \in Bad : \A y \in Bad : ~(y \subseteq s /\ y # s)
  <2>. HIDE DEF Bad
  <2>. QED BY <1>2, <1>3, LeastSubset
<1>5. s \in SUBSET W /\ it[s] \notin Nat OBVIOUS
<1>6. s # {}
  <2>1. it[{}] = 0 BY <1>1, AddsAt
  <2>. QED BY <1>5, <2>1
<1>7. First(s) \in s BY <1>6, FirstIn
<1>8. PICK r : r = s \ {First(s)} OBVIOUS
<1>9. r \in SUBSET W /\ r \subseteq s /\ r # s BY <1>5, <1>7, <1>8
<1>10. it[r] \in Nat BY <1>4, <1>9
<1>11. it[s] = v[First(s)] + it[r]
  <2>. HIDE DEF Bad
  <2>1. AddsStep(v, W, it) BY <1>1, AddsAt
  <2>. QED BY <2>1, <1>5, <1>6, <1>8 DEF AddsStep
<1>12. v[First(s)] \in Nat BY <1>5, <1>7
<1>. QED BY <1>5, <1>10, <1>11, <1>12

\* A change at one element changes the sum by as much: one worker's count moves.
LEMMA SumChange ==
    ASSUME NEW W, IsFiniteSet(W), NEW v, \A w \in W : v[w] \in Nat,
           NEW u, \A w \in W : u[w] \in Nat,
           NEW c \in W, \A w \in W \ {c} : u[w] = v[w]
    PROVE  SumOver(u, W) + v[c] = SumOver(v, W) + u[c]
<1>1. PICK it : Adds(v, W, it) /\ SumOver(v, W) = it[W] BY SumAdds
<1>2. PICK jt : Adds(u, W, jt) /\ SumOver(u, W) = jt[W] BY SumAdds
<1> DEFINE Good(s) == /\ it[s] \in Nat /\ jt[s] \in Nat
                      /\ c \in s => jt[s] + v[c] = it[s] + u[c]
                      /\ c \notin s => jt[s] = it[s]
           Bad == {s \in SUBSET W : ~Good(s)}
<1>3. SUFFICES ASSUME Bad # {} PROVE FALSE
  <2>1. W \in SUBSET W OBVIOUS
  <2>. QED BY <1>1, <1>2, <2>1
<1>4. Bad \subseteq SUBSET W OBVIOUS
<1>5. PICK s \in Bad : \A y \in Bad : ~(y \subseteq s /\ y # s)
  <2>. HIDE DEF Bad
  <2>. QED BY <1>3, <1>4, LeastSubset
<1>6. s \in SUBSET W /\ ~Good(s) OBVIOUS
<1>7. s # {}
  <2>1. it[{}] = 0 /\ jt[{}] = 0 BY <1>1, <1>2, AddsAt
  <2>. QED BY <1>6, <2>1
<1>8. First(s) \in s /\ First(s) \in W BY <1>6, <1>7, FirstIn
<1>9. PICK r : r = s \ {First(s)} OBVIOUS
<1>10. r \in SUBSET W /\ r \subseteq s /\ r # s BY <1>6, <1>8, <1>9
<1>11. Good(r)
  <2>. HIDE DEF Good
  <2>. QED BY <1>5, <1>10
<1>12. it[s] = v[First(s)] + it[r]
  <2>. HIDE DEF Good, Bad
  <2>1. AddsStep(v, W, it) BY <1>1, AddsAt
  <2>. QED BY <2>1, <1>6, <1>7, <1>9 DEF AddsStep
<1>13. jt[s] = u[First(s)] + jt[r]
  <2>. HIDE DEF Good, Bad
  <2>1. AddsStep(u, W, jt) BY <1>2, AddsAt
  <2>. QED BY <2>1, <1>6, <1>7, <1>9 DEF AddsStep
<1>14. v[First(s)] \in Nat /\ u[First(s)] \in Nat /\ v[c] \in Nat /\ u[c] \in Nat BY <1>8
<1>15. First(s) # c => u[First(s)] = v[First(s)] BY <1>8
<1>16. c \in s <=> c \in r \/ c = First(s) BY <1>8, <1>9
<1>17. c = First(s) => c \notin r BY <1>9
<1>18. Good(s) BY <1>11, <1>12, <1>13, <1>14, <1>15, <1>16, <1>17
<1>. QED BY <1>6, <1>18

------------------------------------------------------------------------------
\* The inductive invariant.

LayoutNames == {"earlier", "staged", "concurrent", "early"}
Stats == [attached : BOOLEAN, used : BOOLEAN, state : Ends, threshold : Nat,
          seen : Nat, keys : Nat, tested : Nat, skipped : Nat]
Env == [F : FirstInputs \cup {{}}, first : {"none", "running", "counted", "done"},
        second : BOOLEAN, shared : BOOLEAN]
History == [given : 0 .. MaxRows, tested : Nat, skipped : Nat, lost : BOOLEAN, fills : Nat,
            forced : BOOLEAN, partial : BOOLEAN, seenAt : Int, off : Reasons,
            reported : BOOLEAN]

Types ==
    /\ layout \in LayoutNames
    /\ b \in hjoin_bloom \cup {Null}
    /\ wk \in [Workers -> hjoin_bloom_worker \cup {Null}]
    /\ stats \in Stats /\ env \in Env /\ g \in History

\* The reason its view shows.
ReasonOf(x) ==
    IF StateOf(x) # "OFF" THEN "NONE" ELSE IF Staged THEN x.off_reason ELSE "EARLIER_OFF_FAILED"

\* A filter on its own: it has a reason when it is off and no bits while it is
\* waiting, it is set up before it is filled, and skips only what it tests.
FilterBase(x) ==
    /\ x \in hjoin_bloom
    /\ StateOf(x) = "OFF" => ReasonOf(x) # "NONE"
    /\ StateOf(x) = "WAITING" => x.bits = Null
    /\ StateOf(x) = "READY" /\ Staged /\ ~has_first_done => x.set_up
    /\ x.skipped <= x.tested

\* Before the concurrent layout a filter that was set up and waits has its key.
FilterOK(x) ==
    /\ FilterBase(x)
    /\ StateOf(x) = "WAITING" /\ Staged /\ ~has_first_done /\ x.set_up => x.key

\* The struct and the history of its execution.
Filter(x, h, second) ==
    /\ FilterOK(x)
    /\ h.off = ReasonOf(x)
    /\ StateOf(x) = "WAITING" => h.fills = 0
    /\ StateOf(x) = "READY" => h.fills = 1 /\ (~second => x.key)
    /\ ~second => (h.fills = 1 <=> x.bits # Null)
    /\ x.keys = 0 \/ h.fills = 1
    /\ x.bits # Null /\ ~h.partial => BitsOf(env.F) \subseteq x.bits

Phase ==
    /\ b # Null => env.first # "none" /\ ~g.reported /\ stats = ZeroStats
    /\ ~has_first_done => env.first \in {"none", "done"} /\ ~env.second
    /\ b # Null /\ has_first_done => (b.first_done = 1 <=> env.first = "done")
    /\ b # Null /\ Staged /\ env.first \in {"counted", "done"} =>
         b.threshold = ThresholdOf(Cardinality(env.F)) /\ b.first_rows = Cardinality(env.F)
    /\ env.second \/ b = Null => \A w \in Workers : wk[w] = Null
    /\ b # Null /\ ~Staged /\ env.shared => b.bits # Null

Worker(c) ==
    /\ c.seen_unflushed < SEEN_BATCH /\ c.skipped <= c.tested /\ c.late < SEEN_BATCH
    /\ c.ready \/ ~Staged => b.bits # Null
    /\ ~Staged \/ b.state # "OFF" => c.late = 0
    /\ c.ready => c.late <= c.seen_unflushed

WorkersOK == \A w \in Workers : wk[w] # Null => Worker(wk[w])

\* No row is lost between the filter and the workers' batches.
Counts ==
    b # Null => /\ b.tested + SumOver(TestedBy, Workers) = g.tested
                /\ b.skipped + SumOver(SkippedBy, Workers) = g.skipped
                /\ Staged => b.seen + SumOver(UnflushedBy, Workers) = g.given

\* A report is about the execution that has just ended.
Report ==
    g.reported =>
      /\ b = Null /\ stats.seen <= MaxRows
      /\ unitseam_bloom_stats_of(stats).shown =>
           /\ stats.tested = g.tested /\ stats.skipped = g.skipped /\ (Staged => stats.seen = g.given)
           /\ stats.keys = 0 \/ g.fills = 1

\* The filter, its phases and its workers.
Core ==
    /\ Types
    /\ b # Null => Filter(b, g, env.second)
    /\ g.fills <= 1 /\ (g.partial => ~Staged)
    /\ Phase /\ WorkersOK

Inv ==
    /\ Core /\ Counts /\ Report
    /\ JoiningRowKept /\ (g.lost => g.fills = 1)
    /\ FilledOnceAtThreshold /\ OutcomeTruthful

\* What a call of the server may make of the filter: off stays off with its
\* reason, ready does not go back, and only a waiting filter gets bits, those of
\* the rows that were read.
Passes(x, y, o) ==
    /\ FilterOK(y)
    /\ StateOf(x) = "OFF" => StateOf(y) = "OFF" /\ ReasonOf(y) = ReasonOf(x)
    /\ StateOf(x) = "READY" => StateOf(y) # "WAITING"
    /\ StateOf(y) = "READY" /\ (StateOf(x) = "READY" => x.key) => y.key
    /\ \/ y.bits = x.bits /\ y.keys = x.keys /\ (StateOf(y) = "READY" => StateOf(x) = "READY")
       \/ StateOf(x) = "WAITING" /\ StateOf(y) # "WAITING" /\ y.bits = BitsOf(o.read) /\ y.bits # Null

\* What the first input publishes is not touched.
Follows(x, y, o) ==
    /\ Passes(x, y, o)
    /\ y.first_rows = x.first_rows /\ y.threshold = x.threshold /\ y.first_done = x.first_done

SameCounts(x, y) == y.tested = x.tested /\ y.skipped = x.skipped /\ y.seen = x.seen
                    /\ y.owner_thread = x.owner_thread

\* The outcomes of a call's parts as the filter uses them.
GoodOutcome(o) ==
    /\ o.set \in BOOLEAN /\ o.ok \in BOOLEAN /\ o.fetched \in BOOLEAN
    /\ BitsOf(o.read) \in SUBSET Hashes /\ BitsOf(o.read) # Null
    /\ Cardinality(NonNull(o.read)) \in Nat
    /\ o.read \subseteq env.F /\ (Staged => o.read = env.F)

------------------------------------------------------------------------------
\* The server's functions.

LEMMA StateIn ==
    ASSUME layout \in LayoutNames, NEW x \in hjoin_bloom
    PROVE  StateOf(x) \in States
BY DEF StateOf, hjoin_bloom, States

LEMMA FollowsSelf ==
    ASSUME layout \in LayoutNames, NEW x, FilterOK(x), NEW o
    PROVE  Follows(x, x, o)
BY DEF Follows, Passes

LEMMA FollowsTrans ==
    ASSUME layout \in LayoutNames, NEW x, NEW y, NEW z, NEW o, FilterOK(x),
           Follows(x, y, o), Follows(y, z, o)
    PROVE  Follows(x, z, o)
<1>1. x \in hjoin_bloom /\ y \in hjoin_bloom /\ z \in hjoin_bloom BY DEF Follows, Passes, FilterOK, FilterBase
<1>2. StateOf(x) \in States /\ StateOf(y) \in States /\ StateOf(z) \in States BY <1>1, StateIn
<1>. QED BY <1>2 DEF Follows, Passes, States

LEMMA TurnOffFollows ==
    ASSUME layout \in LayoutNames, Staged, NEW x, FilterBase(x), NEW reason \in Reasons \ {"NONE"}, NEW o
    PROVE  /\ Follows(x, TurnOff(x, reason), o)
           /\ SameCounts(x, TurnOff(x, reason))
           /\ TurnOff(x, reason).state = "OFF" /\ TurnOff(x, reason).set_up = x.set_up
<1> DEFINE y == [x EXCEPT !.state = "OFF", !.off_reason = reason]
<1>1. CASE x.state = "OFF"
  <2>1. FilterOK(x) BY <1>1 DEF FilterOK, StateOf
  <2>. QED BY <1>1, <2>1, FollowsSelf DEF TurnOff, SameCounts
<1>2. CASE x.state # "OFF"
  <2>1. x \in hjoin_bloom /\ y \in hjoin_bloom BY DEF FilterOK, FilterBase, hjoin_bloom, States
  <2>2. y.state = "OFF" /\ y.off_reason = reason /\ y.bits = x.bits /\ y.keys = x.keys /\ SameCounts(x, y)
        /\ y.set_up = x.set_up
        /\ y.first_rows = x.first_rows /\ y.threshold = x.threshold /\ y.first_done = x.first_done
    BY <2>1 DEF hjoin_bloom, SameCounts
  <2>3. FilterOK(y) BY <2>1, <2>2 DEF FilterOK, FilterBase, StateOf, ReasonOf, SameCounts
  <2>4. Follows(x, y, o) BY <1>2, <2>2, <2>3 DEF Follows, Passes, StateOf
  <2>5. TurnOff(x, reason) = y BY <1>2 DEF TurnOff
  <2>. HIDE DEF y
  <2>. QED BY <2>2, <2>4, <2>5
<1>. QED BY <1>1, <1>2

LEMMA SetupFollows ==
    ASSUME layout \in LayoutNames, Staged, NEW x, FilterOK(x), x.state # "READY", NEW o, GoodOutcome(o)
    PROVE  /\ Follows(x, hjoin_bloom_setup(x, o), o)
           /\ SameCounts(x, hjoin_bloom_setup(x, o))
           /\ hjoin_bloom_setup(x, o).set_up
           /\ hjoin_bloom_setup(x, o).state \in {x.state, "OFF"}
           /\ hjoin_bloom_setup(x, o).state # "OFF" => hjoin_bloom_setup(x, o).key
<1> DEFINE s == [x EXCEPT !.set_up = TRUE, !.key = o.set]
<1>1. x \in hjoin_bloom /\ s \in hjoin_bloom BY DEF FilterOK, FilterBase, hjoin_bloom, GoodOutcome
<1>2. /\ s.set_up /\ s.key = o.set /\ s.state = x.state /\ s.off_reason = x.off_reason /\ s.bits = x.bits
      /\ s.keys = x.keys /\ SameCounts(x, s)
      /\ s.first_rows = x.first_rows /\ s.threshold = x.threshold /\ s.first_done = x.first_done
  BY <1>1 DEF hjoin_bloom, SameCounts
<1>3. hjoin_bloom_setup(x, o) = IF o.set THEN s ELSE TurnOff(s, "OFF_FAILED") BY DEF hjoin_bloom_setup
<1>. HIDE DEF s
<1>4. FilterBase(s) BY <1>1, <1>2 DEF FilterOK, FilterBase, StateOf, ReasonOf, SameCounts
<1>5. CASE o.set
  <2>1. FilterOK(s) BY <1>2, <1>4, <1>5 DEF FilterOK
  <2>2. Follows(x, s, o) BY <1>2, <2>1 DEF Follows, Passes, StateOf, ReasonOf
  <2>. QED BY <1>2, <1>3, <1>5, <2>2
<1>6. CASE ~o.set
  <2>1. PICK y : y = TurnOff(s, "OFF_FAILED") OBVIOUS
  <2>2. Follows(s, y, o) /\ SameCounts(s, y) /\ y.state = "OFF" /\ y.set_up = s.set_up
    BY <1>4, <2>1, TurnOffFollows DEF Reasons
  <2>3. Follows(x, y, o) BY <1>2, <2>2 DEF Follows, Passes, StateOf, ReasonOf
  <2>4. SameCounts(x, y) BY <1>2, <2>2 DEF SameCounts
  <2>. QED BY <1>2, <1>3, <1>6, <2>1, <2>2, <2>3, <2>4
<1>. QED BY <1>5, <1>6 DEF GoodOutcome

LEMMA SetupBits ==
    ASSUME NEW x \in hjoin_bloom, NEW o
    PROVE  hjoin_bloom_setup(x, o).bits = x.bits
BY DEF hjoin_bloom_setup, TurnOff, hjoin_bloom

LEMMA FillFollows ==
    ASSUME layout \in LayoutNames, Staged, NEW x, FilterOK(x), x.state = "WAITING",
           has_first_done \/ x.set_up, NEW o, GoodOutcome(o)
    PROVE  Follows(x, hjoin_bloom_fill(x, o), o) /\ SameCounts(x, hjoin_bloom_fill(x, o))
<1>1. PICK s : s = IF has_first_done THEN hjoin_bloom_setup(x, o) ELSE x OBVIOUS
<1>2. /\ Follows(x, s, o) /\ SameCounts(x, s) /\ s.set_up /\ s.state \in {"WAITING", "OFF"}
      /\ s.state # "OFF" => s.key
  <2>1. CASE has_first_done BY <1>1, <2>1, SetupFollows
  <2>2. CASE ~has_first_done BY <1>1, <2>2, FollowsSelf DEF SameCounts, FilterOK, StateOf
  <2>. QED BY <2>1, <2>2
<1>3. FilterOK(s) BY <1>2 DEF Follows, Passes
<1> DEFINE y == [s EXCEPT !.bits = BitsOf(o.read), !.keys = Cardinality(NonNull(o.read)), !.state = "READY"]
<1>4. hjoin_bloom_fill(x, o) = IF s.state = "OFF" THEN s ELSE IF o.ok THEN y ELSE TurnOff(s, "OFF_FAILED")
  BY <1>1 DEF hjoin_bloom_fill
<1>5. CASE s.state = "OFF" BY <1>2, <1>4, <1>5
<1>6. CASE s.state # "OFF" /\ ~o.ok
  <2>1. Follows(s, TurnOff(s, "OFF_FAILED"), o) /\ SameCounts(s, TurnOff(s, "OFF_FAILED"))
    BY <1>3, TurnOffFollows DEF Reasons, FilterOK
  <2>2. Follows(x, TurnOff(s, "OFF_FAILED"), o) BY <1>2, <2>1, FollowsTrans
  <2>. QED BY <1>2, <1>4, <1>6, <2>1, <2>2 DEF SameCounts
<1>7. CASE s.state # "OFF" /\ o.ok
  <2>1. s \in hjoin_bloom /\ y \in hjoin_bloom BY <1>3 DEF FilterOK, FilterBase, hjoin_bloom, GoodOutcome, States
  <2>2. y.state = "READY" /\ y.off_reason = s.off_reason /\ y.bits = BitsOf(o.read)
        /\ SameCounts(s, y) /\ y.set_up = s.set_up /\ y.key = s.key
        /\ y.first_rows = s.first_rows /\ y.threshold = s.threshold /\ y.first_done = s.first_done
    BY <2>1 DEF hjoin_bloom, SameCounts
  <2>. HIDE DEF y
  <2>3. FilterOK(y) BY <1>2, <1>3, <2>1, <2>2 DEF FilterOK, FilterBase, StateOf, ReasonOf, SameCounts
  <2>4. Follows(s, y, o) BY <1>2, <1>7, <2>2, <2>3 DEF Follows, Passes, StateOf, ReasonOf, GoodOutcome
  <2>5. Follows(x, y, o) BY <1>2, <2>4, FollowsTrans
  <2>. QED BY <1>2, <1>4, <1>7, <2>2, <2>5 DEF SameCounts
<1>. QED BY <1>5, <1>6, <1>7

LEMMA BuildFollows ==
    ASSUME layout \in LayoutNames, ~Staged, NEW x, FilterOK(x), ~x.built, NEW o, GoodOutcome(o)
    PROVE  Follows(x, hjoin_bloom_build(x, o), o) /\ SameCounts(x, hjoin_bloom_build(x, o))
<1> DEFINE y == [x EXCEPT !.built = TRUE, !.key = TRUE, !.bits = BitsOf(o.read),
                           !.keys = Cardinality(NonNull(o.read))]
           z == [x EXCEPT !.built = TRUE, !.disabled = TRUE]
<1>1. CASE o.ok
  <2>1. x \in hjoin_bloom /\ y \in hjoin_bloom BY DEF FilterOK, FilterBase, hjoin_bloom, GoodOutcome
  <2>2. y.built /\ y.disabled = x.disabled /\ y.key /\ y.bits = BitsOf(o.read) /\ SameCounts(x, y)
        /\ y.first_rows = x.first_rows /\ y.threshold = x.threshold /\ y.first_done = x.first_done
    BY <2>1 DEF hjoin_bloom, SameCounts
  <2>3. y = hjoin_bloom_build(x, o) BY <1>1 DEF hjoin_bloom_build
  <2>. HIDE DEF y
  <2>4. FilterOK(y) BY <2>1, <2>2 DEF FilterOK, FilterBase, StateOf, ReasonOf, SameCounts
  <2>5. Follows(x, y, o) BY <2>2, <2>4 DEF Follows, Passes, StateOf, ReasonOf, GoodOutcome
  <2>. QED BY <2>2, <2>3, <2>5
<1>2. CASE ~o.ok
  <2>1. x \in hjoin_bloom /\ z \in hjoin_bloom BY DEF FilterOK, FilterBase, hjoin_bloom
  <2>2. z.built /\ z.disabled /\ z.bits = x.bits /\ z.keys = x.keys /\ SameCounts(x, z)
        /\ z.first_rows = x.first_rows /\ z.threshold = x.threshold /\ z.first_done = x.first_done
    BY <2>1 DEF hjoin_bloom, SameCounts
  <2>3. z = hjoin_bloom_build(x, o) BY <1>2 DEF hjoin_bloom_build
  <2>. HIDE DEF z
  <2>4. FilterOK(z) BY <2>1, <2>2 DEF FilterOK, FilterBase, StateOf, ReasonOf, SameCounts
  <2>5. Follows(x, z, o) BY <2>2, <2>4 DEF Follows, Passes, StateOf, ReasonOf
  <2>. QED BY <2>2, <2>3, <2>5
<1>. QED BY <1>1, <1>2 DEF GoodOutcome

LEMMA FillNowFollows ==
    ASSUME layout \in LayoutNames, NEW x, FilterOK(x), NEW o, GoodOutcome(o)
    PROVE  Follows(x, unitseam_fill_now_impl(x, o), o) /\ SameCounts(x, unitseam_fill_now_impl(x, o))
<1>0. Follows(x, x, o) /\ SameCounts(x, x) BY FollowsSelf DEF SameCounts
<1>1. CASE ~Staged BY <1>0, <1>1, BuildFollows DEF unitseam_fill_now_impl
<1>2. CASE Staged
  <2>1. PICK s : s = IF has_first_done \/ x.set_up THEN x ELSE hjoin_bloom_setup(x, o) OBVIOUS
  <2>2. Follows(x, s, o) /\ SameCounts(x, s) /\ (has_first_done \/ s.set_up)
    <3>1. ~(has_first_done \/ x.set_up) => x.state # "READY" BY <1>2 DEF FilterOK, FilterBase, StateOf
    <3>. QED BY <1>0, <1>2, <2>1, <3>1, SetupFollows
  <2>3. FilterOK(s) BY <2>2 DEF Follows, Passes
  <2>4. unitseam_fill_now_impl(x, o) = IF s.state = "WAITING" THEN hjoin_bloom_fill(s, o) ELSE s
    BY <1>2, <2>1 DEF unitseam_fill_now_impl
  <2>5. CASE s.state # "WAITING" BY <2>2, <2>4, <2>5
  <2>6. CASE s.state = "WAITING"
    <3>1. Follows(s, hjoin_bloom_fill(s, o), o) /\ SameCounts(s, hjoin_bloom_fill(s, o))
      BY <1>2, <2>2, <2>3, <2>6, FillFollows
    <3>2. Follows(x, hjoin_bloom_fill(s, o), o) BY <2>2, <3>1, FollowsTrans
    <3>. QED BY <2>2, <2>4, <2>6, <3>1, <3>2 DEF SameCounts
  <2>. QED BY <2>5, <2>6
<1>. QED BY <1>1, <1>2

LEMMA BindFollows ==
    ASSUME layout \in LayoutNames, NEW x, FilterOK(x), NEW t \in Threads, NEW o
    PROVE  LET y == Bind(x, t)
           IN /\ Follows(x, y, o)
              /\ y.tested = x.tested /\ y.skipped = x.skipped /\ y.seen = x.seen
              /\ y.bits = x.bits /\ y.set_up = x.set_up /\ y.state = x.state /\ y.built = x.built
<1> DEFINE y == [x EXCEPT !.owner_thread = t]
<1>1. x \in hjoin_bloom /\ y \in hjoin_bloom BY DEF FilterOK, FilterBase, hjoin_bloom
<1>2. /\ y.tested = x.tested /\ y.skipped = x.skipped /\ y.seen = x.seen
      /\ y.bits = x.bits /\ y.set_up = x.set_up /\ y.state = x.state /\ y.built = x.built
      /\ y.disabled = x.disabled /\ y.off_reason = x.off_reason /\ y.key = x.key /\ y.keys = x.keys
      /\ y.first_rows = x.first_rows /\ y.threshold = x.threshold /\ y.first_done = x.first_done
  BY <1>1 DEF hjoin_bloom
<1>3. Bind(x, t) = IF x.owner_thread = Null THEN y ELSE x BY DEF Bind
<1>. HIDE DEF y
<1>4. FilterOK(y) BY <1>1, <1>2 DEF FilterOK, FilterBase, StateOf, ReasonOf
<1>5. Follows(x, y, o) BY <1>2, <1>4 DEF Follows, Passes, StateOf, ReasonOf
<1>6. Follows(x, x, o) BY FollowsSelf
<1>. QED BY <1>2, <1>3, <1>5, <1>6

\* The owner's row: counted once, and a fill only at the threshold and after
\* the first input's end was published.
OwnerRowDoes(x, y, t, o) ==
    /\ Follows(x, y, o)
    /\ y.tested = x.tested /\ y.skipped = x.skipped
    /\ y.seen = IF y.owner_thread = t THEN x.seen + 1 ELSE x.seen
    /\ y.bits # x.bits => /\ y.seen >= x.threshold
                          /\ has_first_done => x.first_done = 1

LEMMA OwnerRowFollows ==
    ASSUME layout \in LayoutNames, Staged, NEW x, FilterOK(x), NEW t \in Threads, NEW o, GoodOutcome(o)
    PROVE  OwnerRowDoes(x, hjoin_bloom_owner_row(x, t, o), t, o)
<1>1. PICK y : y = Bind(x, t) OBVIOUS
<1>2. /\ Follows(x, y, o) /\ FilterOK(y)
      /\ y.tested = x.tested /\ y.skipped = x.skipped /\ y.seen = x.seen
      /\ y.bits = x.bits /\ y.set_up = x.set_up /\ y.state = x.state
  BY <1>1, BindFollows DEF Follows, Passes
<1> DEFINE c == [y EXCEPT !.seen = @ + 1]
<1>3. y \in hjoin_bloom /\ c \in hjoin_bloom BY <1>2 DEF FilterOK, FilterBase, hjoin_bloom
<1>4. /\ c.tested = y.tested /\ c.skipped = y.skipped /\ c.seen = y.seen + 1 /\ c.owner_thread = y.owner_thread
      /\ c.bits = y.bits /\ c.set_up = y.set_up /\ c.state = y.state /\ c.built = y.built
      /\ c.disabled = y.disabled /\ c.off_reason = y.off_reason /\ c.key = y.key /\ c.keys = y.keys
      /\ c.first_rows = y.first_rows /\ c.threshold = y.threshold /\ c.first_done = y.first_done
  BY <1>3 DEF hjoin_bloom
<1>5. PICK s : s = IF has_first_done \/ c.set_up THEN c ELSE hjoin_bloom_setup(c, o) OBVIOUS
<1>6. hjoin_bloom_owner_row(x, t, o) =
        IF y.owner_thread # t THEN y ELSE IF Due(s) THEN hjoin_bloom_fill(s, o) ELSE s
  BY <1>1, <1>5 DEF hjoin_bloom_owner_row
<1>. HIDE DEF c
<1>7. FilterOK(c) BY <1>2, <1>3, <1>4 DEF FilterOK, FilterBase, StateOf, ReasonOf
<1>8. Follows(y, c, o) BY <1>4, <1>7 DEF Follows, Passes, StateOf, ReasonOf
<1>9. Follows(x, c, o) BY <1>2, <1>8, FollowsTrans
<1>10. /\ Follows(c, s, o) /\ SameCounts(c, s) /\ (has_first_done \/ s.set_up)
  <2>1. ~(has_first_done \/ c.set_up) => c.state # "READY" BY <1>7 DEF FilterOK, FilterBase, StateOf
  <2>2. Follows(c, c, o) /\ SameCounts(c, c) BY <1>7, FollowsSelf DEF SameCounts
  <2>. QED BY <1>5, <1>7, <2>1, <2>2, SetupFollows
<1>11. Follows(x, s, o) /\ FilterOK(s) BY <1>7, <1>9, <1>10, FollowsTrans DEF Follows, Passes
<1>12. s.bits = c.bits
  <2>1. CASE has_first_done \/ c.set_up BY <1>5, <2>1
  <2>2. CASE ~(has_first_done \/ c.set_up) BY <1>3, <1>5, <2>2, SetupBits
  <2>. QED BY <2>1, <2>2
<1>13. CASE y.owner_thread # t BY <1>2, <1>6, <1>13 DEF OwnerRowDoes
<1>14. CASE y.owner_thread = t /\ ~Due(s)
  BY <1>2, <1>4, <1>6, <1>10, <1>11, <1>12, <1>14 DEF OwnerRowDoes, SameCounts
<1>15. CASE y.owner_thread = t /\ Due(s)
  <2>1. PICK z : z = hjoin_bloom_fill(s, o) OBVIOUS
  <2>2. Follows(s, z, o) /\ SameCounts(s, z) BY <1>10, <1>11, <1>15, <2>1, FillFollows DEF Due
  <2>3. Follows(x, z, o) BY <1>11, <2>2, FollowsTrans
  <2>4. z.seen >= x.threshold /\ (has_first_done => x.first_done = 1)
    BY <1>11, <1>15, <2>2 DEF Due, SameCounts, Follows, Passes
  <2>. QED BY <1>2, <1>4, <1>6, <1>10, <1>15, <2>1, <2>2, <2>3, <2>4 DEF OwnerRowDoes, SameCounts
<1>. QED BY <1>13, <1>14, <1>15

LEMMA ReadyFollows ==
    ASSUME layout \in LayoutNames, ~Staged, NEW x, FilterOK(x), NEW t, NEW o, GoodOutcome(o)
    PROVE  Follows(x, hjoin_bloom_ready(x, t, o), o) /\ SameCounts(x, hjoin_bloom_ready(x, t, o))
<1>1. Follows(x, x, o) /\ SameCounts(x, x) BY FollowsSelf DEF SameCounts
<1>. QED BY <1>1, BuildFollows DEF hjoin_bloom_ready

\* A row that is checked: counted once unless its key cannot be fetched.
RecordDoes(x, y, v, fetched, o) ==
    /\ Follows(x, y, o)
    /\ y.bits = x.bits /\ y.seen = x.seen /\ y.owner_thread = x.owner_thread
    /\ y.tested = IF fetched THEN x.tested + 1 ELSE x.tested
    /\ y.skipped = IF fetched /\ KeyAbsent(x, KeyOf[Store[v]]) THEN x.skipped + 1 ELSE x.skipped

LEMMA RecordFollows ==
    ASSUME layout \in LayoutNames, NEW x, FilterOK(x), Ready(x), NEW v, NEW fetched \in BOOLEAN, NEW o
    PROVE  RecordDoes(x, hjoin_bloom_skip_record(x, v, fetched), v, fetched, o)
<1>0. x \in hjoin_bloom BY DEF FilterOK, FilterBase
<1>1. CASE ~fetched /\ Staged
  <2>1. PICK y : y = TurnOff(x, "OFF_FAILED") OBVIOUS
  <2>2. Follows(x, y, o) /\ SameCounts(x, y) BY <1>1, <2>1, TurnOffFollows DEF Reasons, FilterOK
  <2>3. y.bits = x.bits BY <1>0, <2>1 DEF TurnOff, hjoin_bloom
  <2>4. hjoin_bloom_skip_record(x, v, fetched) = y BY <1>1, <2>1 DEF hjoin_bloom_skip_record
  <2>. QED BY <1>1, <2>2, <2>3, <2>4 DEF RecordDoes, SameCounts
<1>2. CASE ~fetched /\ ~Staged
  <2> DEFINE y == [x EXCEPT !.disabled = TRUE]
  <2>1. y \in hjoin_bloom BY <1>0 DEF hjoin_bloom
  <2>2. /\ y.disabled /\ SameCounts(x, y) /\ y.bits = x.bits /\ y.keys = x.keys /\ y.built = x.built
        /\ y.first_rows = x.first_rows /\ y.threshold = x.threshold /\ y.first_done = x.first_done
    BY <1>0, <2>1 DEF hjoin_bloom, SameCounts
  <2>3. hjoin_bloom_skip_record(x, v, fetched) = y BY <1>2 DEF hjoin_bloom_skip_record
  <2>. HIDE DEF y
  <2>4. FilterOK(y) BY <1>2, <2>1, <2>2 DEF FilterOK, FilterBase, StateOf, ReasonOf, SameCounts, Ready
  <2>5. Follows(x, y, o) BY <1>2, <2>2, <2>4 DEF Follows, Passes, StateOf, ReasonOf, Ready
  <2>. QED BY <1>2, <2>2, <2>3, <2>5 DEF RecordDoes, SameCounts
<1>3. CASE fetched
  <2>1. PICK n : n = IF KeyAbsent(x, KeyOf[Store[v]]) THEN 1 ELSE 0 OBVIOUS
  <2>2. x.tested \in Nat /\ x.skipped \in Nat BY <1>0 DEF hjoin_bloom
  <2>3. /\ n \in {0, 1} /\ x.tested + 1 \in Nat /\ x.skipped + n \in Nat
        /\ x.skipped + n = IF KeyAbsent(x, KeyOf[Store[v]]) THEN x.skipped + 1 ELSE x.skipped
    BY <2>1, <2>2
  <2> DEFINE c == [x EXCEPT !.tested = @ + 1, !.skipped = @ + n]
  <2>4. Count(x, KeyAbsent(x, KeyOf[Store[v]])) = c BY <2>1 DEF Count
  <2>5. c \in hjoin_bloom BY <1>0, <2>3 DEF hjoin_bloom
  <2>6. /\ c.tested = x.tested + 1 /\ c.skipped = x.skipped + n /\ c.seen = x.seen
        /\ c.owner_thread = x.owner_thread /\ c.bits = x.bits /\ c.keys = x.keys /\ c.built = x.built
        /\ c.disabled = x.disabled /\ c.set_up = x.set_up /\ c.state = x.state
        /\ c.off_reason = x.off_reason /\ c.key = x.key
        /\ c.first_rows = x.first_rows /\ c.threshold = x.threshold /\ c.first_done = x.first_done
    BY <1>0, <2>3, <2>5 DEF hjoin_bloom
  <2>8. hjoin_bloom_skip_record(x, v, fetched) = IF LowSkip(c) THEN TurnOff(c, "OFF_LOW_SKIP") ELSE c
    BY <1>3, <2>4 DEF hjoin_bloom_skip_record
  <2>. HIDE DEF c
  <2>9. FilterOK(c) BY <2>2, <2>3, <2>5, <2>6 DEF FilterOK, FilterBase, StateOf, ReasonOf
  <2>10. Follows(x, c, o) BY <2>6, <2>9 DEF Follows, Passes, StateOf, ReasonOf
  <2>11. CASE ~LowSkip(c) BY <1>3, <2>3, <2>6, <2>8, <2>10, <2>11 DEF RecordDoes
  <2>12. CASE LowSkip(c)
    <3>1. PICK y : y = TurnOff(c, "OFF_LOW_SKIP") OBVIOUS
    <3>2. Follows(c, y, o) /\ SameCounts(c, y)
      BY <2>9, <2>12, <3>1, TurnOffFollows DEF Reasons, FilterOK, LowSkip
    <3>3. y.bits = c.bits BY <2>5, <3>1 DEF TurnOff, hjoin_bloom
    <3>4. Follows(x, y, o) BY <2>10, <3>2, FollowsTrans
    <3>. QED BY <1>3, <2>3, <2>6, <2>8, <2>12, <3>1, <3>2, <3>3, <3>4 DEF RecordDoes, SameCounts
  <2>. QED BY <2>11, <2>12
<1>. QED BY <1>1, <1>2, <1>3

\* The owner's path, with its decision.
SkipBoundDoes(x, r, t, v, o) ==
    /\ Follows(x, r.b, o)
    /\ Staged => r.b.seen = IF r.b.owner_thread = t THEN x.seen + 1 ELSE x.seen
    /\ r.b.tested = IF r.ret # -1 /\ o.fetched THEN x.tested + 1 ELSE x.tested
    /\ r.b.skipped = IF r.ret = 1 THEN x.skipped + 1 ELSE x.skipped
    /\ r.ret # -1 => r.b.owner_thread = t
    /\ r.ret = 1 => r.b.bits # Null /\ KeyAbsent(r.b, KeyOf[Store[v]]) /\ o.fetched
    /\ Staged /\ r.b.bits # x.bits => /\ r.b.seen >= x.threshold
                                      /\ has_first_done => x.first_done = 1

LEMMA SkipBoundFollows ==
    ASSUME layout \in LayoutNames, NEW x, FilterOK(x), StateOf(x) = "READY" => x.bits # Null,
           NEW t \in Threads, NEW v, NEW o, GoodOutcome(o)
    PROVE  SkipBoundDoes(x, unitseam_bloom_skip_bound(x, t, v, o), t, v, o)
<1>1. PICK y : y = IF Staged THEN hjoin_bloom_owner_row(x, t, o) ELSE hjoin_bloom_ready(x, t, o) OBVIOUS
<1>2. /\ Follows(x, y, o) /\ FilterOK(y)
      /\ y.tested = x.tested /\ y.skipped = x.skipped
      /\ Staged => y.seen = IF y.owner_thread = t THEN x.seen + 1 ELSE x.seen
      /\ Staged /\ y.bits # x.bits => y.seen >= x.threshold /\ (has_first_done => x.first_done = 1)
  <2>1. CASE Staged BY <1>1, <2>1, OwnerRowFollows DEF OwnerRowDoes, Follows, Passes
  <2>2. CASE ~Staged BY <1>1, <2>2, ReadyFollows DEF SameCounts, Follows, Passes
  <2>. QED BY <2>1, <2>2
<1>3. StateOf(y) = "READY" => y.bits # Null BY <1>2 DEF Follows, Passes
<1>4. PICK r : r = unitseam_bloom_skip_bound(x, t, v, o) OBVIOUS
<1>5. CASE y.owner_thread # t \/ ~Ready(y)
  <2>1. r = [b |-> y, ret |-> -1] BY <1>1, <1>4, <1>5 DEF unitseam_bloom_skip_bound
  <2>2. r.b = y /\ r.ret = -1 BY <2>1
  <2>. QED BY <1>2, <1>4, <2>2 DEF SkipBoundDoes
<1>6. CASE ~(y.owner_thread # t \/ ~Ready(y))
  <2>1. PICK z : z = hjoin_bloom_skip_record(y, v, o.fetched) OBVIOUS
  <2>2. PICK n : n = IF o.fetched /\ KeyAbsent(y, KeyOf[Store[v]]) THEN 1 ELSE 0 OBVIOUS
  <2>3. r = [b |-> z, ret |-> n] BY <1>1, <1>4, <1>6, <2>1, <2>2 DEF unitseam_bloom_skip_bound
  <2>4. r.b = z /\ r.ret = n BY <2>3
  <2>5. RecordDoes(y, z, v, o.fetched, o) BY <1>2, <1>6, <2>1, RecordFollows DEF GoodOutcome
  <2>6. Follows(x, z, o) BY <1>2, <2>5, FollowsTrans DEF RecordDoes
  <2>7. z.bits = y.bits /\ z.seen = y.seen /\ z.owner_thread = t /\ n \in {0, 1} /\ z.bits # Null
    BY <1>3, <1>6, <2>2, <2>5 DEF RecordDoes, Ready
  <2>8. z.tested = IF o.fetched THEN x.tested + 1 ELSE x.tested BY <1>2, <2>5 DEF RecordDoes
  <2>9. z.skipped = IF n = 1 THEN x.skipped + 1 ELSE x.skipped BY <1>2, <2>2, <2>5 DEF RecordDoes
  <2>10. n = 1 => KeyAbsent(z, KeyOf[Store[v]]) /\ o.fetched
    BY <2>2, <2>7 DEF KeyAbsent, unitseam_bloom_may_contain
  <2>11. n # -1 BY <2>7
  <2>12. Staged => z.seen = x.seen + 1 BY <1>2, <1>6, <2>7
  <2>. QED BY <1>2, <1>4, <1>6, <2>4, <2>6, <2>7, <2>8, <2>9, <2>10, <2>11, <2>12 DEF SkipBoundDoes
<1>. QED BY <1>4, <1>5, <1>6

LEMMA CheckBoundFollows ==
    ASSUME layout \in LayoutNames, NEW x, FilterOK(x), NEW v, NEW fetched \in BOOLEAN, NEW o
    PROVE  LET y == unitseam_bloom_check_bound(x, v, fetched).b
           IN Follows(x, y, o) /\ SameCounts(x, y) /\ y.bits = x.bits
<1>0. x \in hjoin_bloom /\ x # Null BY NullAssumption DEF FilterOK, FilterBase
<1>1. Follows(x, x, o) /\ SameCounts(x, x) BY FollowsSelf DEF SameCounts
<1>2. CASE ~Ready(x) \/ Staged BY <1>0, <1>1, <1>2 DEF unitseam_bloom_check_bound
<1>3. CASE Ready(x) /\ ~Staged
  <2>1. PICK z : z = hjoin_bloom_skip_record(x, v, fetched) OBVIOUS
  <2>2. RecordDoes(x, z, v, fetched, o) BY <1>3, <2>1, RecordFollows
  <2>3. z \in hjoin_bloom /\ FilterOK(z) BY <2>2 DEF RecordDoes, Follows, Passes, FilterOK, FilterBase
  <2> DEFINE y == [z EXCEPT !.tested = x.tested, !.skipped = x.skipped]
  <2>4. y \in hjoin_bloom BY <1>0, <2>3 DEF hjoin_bloom
  <2>5. /\ y.tested = x.tested /\ y.skipped = x.skipped /\ y.seen = z.seen
        /\ y.owner_thread = z.owner_thread /\ y.bits = z.bits /\ y.keys = z.keys /\ y.built = z.built
        /\ y.disabled = z.disabled /\ y.set_up = z.set_up /\ y.state = z.state
        /\ y.off_reason = z.off_reason /\ y.key = z.key
        /\ y.first_rows = z.first_rows /\ y.threshold = z.threshold /\ y.first_done = z.first_done
    BY <2>3, <2>4 DEF hjoin_bloom
  <2>6. unitseam_bloom_check_bound(x, v, fetched).b = y
    BY <1>0, <1>3, <2>1 DEF unitseam_bloom_check_bound
  <2>. HIDE DEF y
  <2>7. FilterOK(y)
    BY <2>3, <2>4, <2>5 DEF FilterOK, FilterBase, StateOf, ReasonOf
  <2>8. Follows(x, y, o)
    BY <2>2, <2>5, <2>7 DEF Follows, Passes, StateOf, ReasonOf, RecordDoes
  <2>. QED BY <2>2, <2>5, <2>6, <2>8 DEF RecordDoes, SameCounts
<1>. QED BY <1>2, <1>3

------------------------------------------------------------------------------
\* The history.

LEMMA ViewFields ==
    ASSUME layout \in LayoutNames, NEW x \in hjoin_bloom
    PROVE  /\ x # Null
           /\ unitseam_bloom_view_of(x).bits = x.bits /\ unitseam_bloom_view_of(x).state = StateOf(x)
           /\ unitseam_bloom_view_of(x).off_reason = ReasonOf(x)
           /\ unitseam_bloom_view_of(x).seen = IF Staged THEN x.seen ELSE -1
           /\ unitseam_bloom_view_of(x).tested = x.tested
           /\ unitseam_bloom_view_of(x).skipped = x.skipped
<1>1. x # Null BY NullAssumption
<1>. QED BY <1>1 DEF unitseam_bloom_view_of, ReasonOf, unitseam_bloom_consts_of, StandIn

FillsNow(x, y) == x.bits = Null /\ y.bits # Null

NoteDoes(h, k, x, y, o) ==
    /\ k \in History
    /\ k.given = h.given /\ k.tested = h.tested /\ k.skipped = h.skipped /\ k.lost = h.lost
    /\ k.forced = h.forced /\ k.reported = h.reported
    /\ k.fills = IF FillsNow(x, y) THEN h.fills + 1 ELSE h.fills
    /\ k.partial = IF FillsNow(x, y) THEN o.read # env.F ELSE h.partial
    /\ k.seenAt = IF FillsNow(x, y) THEN (IF Staged THEN y.seen ELSE -1) ELSE h.seenAt
    /\ k.off = IF h.off = "NONE" /\ StateOf(y) = "OFF" THEN ReasonOf(y) ELSE h.off

LEMMA NoteFields ==
    ASSUME layout \in LayoutNames, NEW h \in History, NEW x \in hjoin_bloom, NEW y \in hjoin_bloom, NEW o
    PROVE  NoteDoes(h, Note(h, x, y, o), x, y, o)
<1>1. PICK fills : fills = IF FillsNow(x, y) THEN h.fills + 1 ELSE h.fills OBVIOUS
<1>2. PICK partial : partial = IF FillsNow(x, y) THEN o.read # env.F ELSE h.partial OBVIOUS
<1>3. PICK seenAt : seenAt = IF FillsNow(x, y) THEN (IF Staged THEN y.seen ELSE -1) ELSE h.seenAt OBVIOUS
<1>4. PICK off : off = IF h.off = "NONE" /\ StateOf(y) = "OFF" THEN ReasonOf(y) ELSE h.off OBVIOUS
<1> DEFINE k == [h EXCEPT !.fills = fills, !.partial = partial, !.seenAt = seenAt, !.off = off]
<1>5. Note(h, x, y, o) = k
  BY <1>1, <1>2, <1>3, <1>4, ViewFields DEF Note, FillsNow, History
<1>6. fills \in Nat /\ partial \in BOOLEAN /\ seenAt \in Int /\ off \in Reasons
  <2>1. fills \in Nat BY <1>1 DEF History
  <2>2. partial \in BOOLEAN BY <1>2 DEF History
  <2>3. seenAt \in Int BY <1>3 DEF History, hjoin_bloom
  <2>4. off \in Reasons BY <1>4 DEF History, hjoin_bloom, ReasonOf, Reasons
  <2>. QED BY <2>1, <2>2, <2>3, <2>4
<1>7. k \in History BY <1>6 DEF History
<1>8. /\ k.given = h.given /\ k.tested = h.tested /\ k.skipped = h.skipped /\ k.lost = h.lost
      /\ k.forced = h.forced /\ k.reported = h.reported
      /\ k.fills = fills /\ k.partial = partial /\ k.seenAt = seenAt /\ k.off = off
  BY <1>7 DEF History
<1>. HIDE DEF k
<1>. QED BY <1>1, <1>2, <1>3, <1>4, <1>5, <1>7, <1>8 DEF NoteDoes

\* A call keeps the struct and the history together.
LEMMA FilterNote ==
    ASSUME layout \in LayoutNames, NEW h \in History, NEW x, NEW y, NEW o, NEW second \in BOOLEAN,
           Filter(x, h, second), Passes(x, y, o), h.fills <= 1, h.partial => ~Staged,
           second => y.bits = x.bits, y.bits = x.bits \/ GoodOutcome(o),
           NEW k, NoteDoes(h, k, x, y, o)
    PROVE  Filter(y, k, second) /\ k.fills <= 1 /\ (k.partial => ~Staged)
<1>1. x \in hjoin_bloom /\ y \in hjoin_bloom BY DEF Filter, Passes, FilterOK, FilterBase
<1>2. StateOf(x) \in States /\ StateOf(y) \in States BY <1>1, StateIn
<1>3. h.fills \in {0, 1} BY DEF History
<1>4. k.off = ReasonOf(y)
  BY <1>2 DEF Filter, FilterOK, FilterBase, Passes, NoteDoes, ReasonOf, States
<1>5. CASE y.bits = x.bits
  <2>1. k.fills = h.fills /\ k.partial = h.partial BY <1>5 DEF NoteDoes, FillsNow
  <2>2. StateOf(y) = "READY" => StateOf(x) = "READY"
    BY <1>5, <1>2 DEF Passes, Filter, FilterOK, FilterBase, States
  <2>3. StateOf(y) = "WAITING" => StateOf(x) = "WAITING" BY <1>2 DEF Passes, States
  <2>4. y.keys = x.keys BY <1>5 DEF Passes, Filter, FilterOK, FilterBase
  <2>. QED BY <1>4, <1>5, <2>1, <2>2, <2>3, <2>4 DEF Filter, Passes
<1>6. CASE y.bits # x.bits
  <2>1. ~second /\ StateOf(x) = "WAITING" /\ StateOf(y) # "WAITING" /\ y.bits = BitsOf(o.read) /\ y.bits # Null
    BY <1>6 DEF Passes
  <2>2. x.bits = Null /\ h.fills = 0 BY <2>1 DEF Filter, FilterOK, FilterBase
  <2>3. FillsNow(x, y) BY <2>1, <2>2 DEF FillsNow
  <2>4. k.fills = 1 /\ k.partial = (o.read # env.F) BY <2>2, <2>3 DEF NoteDoes
  <2>5. StateOf(y) = "READY" => y.key BY <2>1 DEF Passes
  <2>6. k.partial => ~Staged BY <1>6, <2>4 DEF GoodOutcome
  <2>7. ~k.partial => BitsOf(env.F) \subseteq y.bits BY <2>1, <2>4
  <2>. QED BY <1>4, <2>1, <2>4, <2>5, <2>6, <2>7 DEF Filter, Passes
<1>. QED BY <1>5, <1>6

LEMMA OutcomesGood ==
    ASSUME Types, NEW o \in Outcomes
    PROVE  GoodOutcome(o)
<1>1. o \in [set : BOOLEAN, ok : BOOLEAN, read : SUBSET env.F, fetched : BOOLEAN]
      /\ (Staged => o.read = env.F)
  <2>1. Succeeds \in [set : BOOLEAN, ok : BOOLEAN, read : SUBSET env.F, fetched : BOOLEAN]
        /\ Succeeds.read = env.F
    BY DEF Succeeds
  <2>2. CASE o = Succeeds BY <2>1, <2>2
  <2>3. CASE o = [Succeeds EXCEPT !.set = FALSE] BY <2>1, <2>3
  <2>4. CASE o = [Succeeds EXCEPT !.ok = FALSE] BY <2>1, <2>4
  <2>5. CASE o = [Succeeds EXCEPT !.fetched = FALSE] BY <2>1, <2>5
  <2>6. CASE o \in {[Succeeds EXCEPT !.read = R] : R \in IF Staged THEN {} ELSE SUBSET env.F}
    <3>1. PICK R \in SUBSET env.F : ~Staged /\ o = [Succeeds EXCEPT !.read = R] BY <2>6
    <3>. QED BY <2>1, <3>1
  <2>. QED BY <2>2, <2>3, <2>4, <2>5, <2>6 DEF Outcomes
<1>2. env.F \in FirstInputs \cup {{}} BY DEF Types, Env
<1>3. IsFiniteSet(env.F) /\ \A f \in env.F : KeyOf[f] \in DOMAIN HashOf \cup {NullKey}
  BY <1>2, HjoinBloomAssumption, FS_EmptySet
<1>4. BitsOf(o.read) \in SUBSET Hashes BY <1>1, <1>3 DEF BitsOf, NonNull, Hashes
<1>5. BitsOf(o.read) # Null BY <1>4, NullAssumption
<1>6. NonNull(o.read) \subseteq env.F BY <1>1 DEF NonNull
<1>7. Cardinality(NonNull(o.read)) \in Nat BY <1>3, <1>6, FS_Subset, FS_CardinalityType
<1>. QED BY <1>1, <1>4, <1>5, <1>7 DEF GoodOutcome

\* What the steps have in common that leave the filter in place.
LEMMA StepCore ==
    ASSUME Core, b # Null, NEW o, b'.bits = b.bits \/ GoodOutcome(o), Passes(b, b', o),
           env.second => b'.bits = b.bits,
           UNCHANGED <<layout, stats>>, wk' \in [Workers -> hjoin_bloom_worker \cup {Null}],
           env' \in Env, env'.F = env.F, env'.second = env.second,
           NEW k, NoteDoes(g, k, b, b', o), g' \in History,
           g'.off = k.off, g'.fills = k.fills, g'.partial = k.partial, g'.reported = k.reported,
           Phase', WorkersOK'
    PROVE  Core' /\ b' # Null /\ ~g'.reported
<1>1. layout \in LayoutNames /\ g \in History /\ b \in hjoin_bloom BY DEF Core, Types
<1>2. b' \in hjoin_bloom BY DEF Passes, FilterOK, FilterBase
<1>3. b' # Null BY <1>2, NullAssumption
<1>4. Filter(b, g, env.second) /\ g.fills <= 1 /\ (g.partial => ~Staged) /\ env.second \in BOOLEAN
  BY DEF Core, Types, Env
<1>5. Filter(b', k, env.second) /\ k.fills <= 1 /\ (k.partial => ~Staged)
  BY <1>1, <1>4, FilterNote
<1>6. Filter(b, g, env.second)'
  BY <1>5 DEF Filter, FilterOK, FilterBase, StateOf, ReasonOf, Staged, has_first_done
<1>7. Types' BY <1>1, <1>2 DEF Core, Types
<1>8. ~g.reported /\ k.reported = g.reported BY DEF Core, Phase, NoteDoes
<1>9. g'.fills <= 1 /\ (g'.partial => ~Staged') BY <1>5 DEF Staged
<1>. QED BY <1>3, <1>6, <1>7, <1>8, <1>9 DEF Core

LEMMA WorkersKeep ==
    ASSUME WorkersOK, NEW o, Passes(b, b', o), UNCHANGED <<layout, wk>>
    PROVE  WorkersOK'
<1>1. (b.bits # Null => b'.bits # Null) /\ (StateOf(b) = "OFF" => StateOf(b') = "OFF")
  BY DEF Passes
<1>2. ASSUME NEW w \in Workers, wk[w] # Null PROVE Worker(wk[w])'
  <2>1. Worker(wk[w]) BY <1>2 DEF WorkersOK
  <2>2. Staged /\ b'.state # "OFF" => b.state # "OFF" BY <1>1 DEF StateOf
  <2>. QED BY <1>1, <2>1, <2>2 DEF Worker, Staged
<1>. QED BY <1>2 DEF WorkersOK

LEMMA SameSums ==
    ASSUME wk' = wk
    PROVE  /\ SumOver(TestedBy, Workers)' = SumOver(TestedBy, Workers)
           /\ SumOver(SkippedBy, Workers)' = SumOver(SkippedBy, Workers)
           /\ SumOver(UnflushedBy, Workers)' = SumOver(UnflushedBy, Workers)
<1>1. TestedBy' = TestedBy BY DEF TestedBy
<1>2. SkippedBy' = SkippedBy BY DEF SkippedBy
<1>3. UnflushedBy' = UnflushedBy BY DEF UnflushedBy
<1>. QED BY <1>1, <1>2, <1>3

LEMMA WorkerCounts ==
    ASSUME Types, NEW w \in Workers
    PROVE  TestedBy[w] \in Nat /\ SkippedBy[w] \in Nat /\ UnflushedBy[w] \in Nat
BY DEF Types, hjoin_bloom_worker, TestedBy, SkippedBy, UnflushedBy

LEMMA SumTypes ==
    ASSUME Types
    PROVE  /\ SumOver(TestedBy, Workers) \in Nat /\ SumOver(SkippedBy, Workers) \in Nat
           /\ SumOver(UnflushedBy, Workers) \in Nat
<1>1. IsFiniteSet(Workers) BY HjoinBloomAssumption
<1>2. /\ \A w \in Workers : TestedBy[w] \in Nat
      /\ \A w \in Workers : SkippedBy[w] \in Nat
      /\ \A w \in Workers : UnflushedBy[w] \in Nat
  BY WorkerCounts
<1>3. PICK u : u = TestedBy OBVIOUS
<1>4. PICK v : v = SkippedBy OBVIOUS
<1>5. PICK n : n = UnflushedBy OBVIOUS
<1>6. SumOver(u, Workers) \in Nat BY <1>1, <1>2, <1>3, SumType
<1>7. SumOver(v, Workers) \in Nat BY <1>1, <1>2, <1>4, SumType
<1>8. SumOver(n, Workers) \in Nat BY <1>1, <1>2, <1>5, SumType
<1>. QED BY <1>3, <1>4, <1>5, <1>6, <1>7, <1>8

LEMMA SumsZero ==
    ASSUME \A w \in Workers : wk[w] = Null
    PROVE  /\ SumOver(TestedBy, Workers) = 0 /\ SumOver(SkippedBy, Workers) = 0
           /\ SumOver(UnflushedBy, Workers) = 0
<1>1. IsFiniteSet(Workers) BY HjoinBloomAssumption
<1>2. PICK u : u = TestedBy OBVIOUS
<1>3. PICK v : v = SkippedBy OBVIOUS
<1>4. PICK n : n = UnflushedBy OBVIOUS
<1>5. \A w \in Workers : u[w] = 0 /\ v[w] = 0 /\ n[w] = 0
  BY <1>2, <1>3, <1>4 DEF TestedBy, SkippedBy, UnflushedBy
<1>6. SumOver(u, Workers) = 0 BY <1>1, <1>5, SumZero
<1>7. SumOver(v, Workers) = 0 BY <1>1, <1>5, SumZero
<1>8. SumOver(n, Workers) = 0 BY <1>1, <1>5, SumZero
<1>. QED BY <1>2, <1>3, <1>4, <1>6, <1>7, <1>8

\* While the filter exists nothing is reported.
LEMMA Unreported ==
    ASSUME ~g'.reported
    PROVE  Report' /\ OutcomeTruthful'
BY DEF Report, OutcomeTruthful

LEMMA StepInv ==
    ASSUME Inv, b # Null, NEW o, b'.bits = b.bits \/ GoodOutcome(o), Passes(b, b', o),
           env.second => b'.bits = b.bits,
           UNCHANGED <<layout, stats>>, wk' \in [Workers -> hjoin_bloom_worker \cup {Null}],
           env' \in Env, env'.F = env.F, env'.second = env.second,
           env.first = "done" => env'.first = "done",
           NEW k, NoteDoes(g, k, b, b', o), g' \in History,
           g'.off = k.off, g'.fills = k.fills, g'.partial = k.partial, g'.reported = k.reported,
           g'.seenAt = k.seenAt, k.forced => g'.forced,
           Staged /\ b'.bits # b.bits /\ ~g'.forced =>
             b'.seen >= b.threshold /\ (has_first_done => b.first_done = 1),
           g'.lost => g.lost \/ (g'.partial /\ ~Staged /\ g'.fills = 1),
           Phase', WorkersOK', Counts'
    PROVE  Inv'
<1>1. Core' /\ b' # Null /\ ~g'.reported
  BY StepCore DEF Inv
<1>2. Report' /\ OutcomeTruthful' BY <1>1, Unreported
<1>3. Filter(b, g, env.second) /\ g.fills \in Nat /\ g.fills <= 1 BY DEF Inv, Core, Types, History
<1>4. FillsNow(b, b') => g.fills = 0
  <2>1. FillsNow(b, b') => ~env.second BY DEF FillsNow
  <2>. QED BY <1>3, <2>1 DEF FillsNow, Filter
<1>5. JoiningRowKept' /\ (g'.lost => g'.fills = 1)
  <2>1. CASE g'.lost /\ g.lost
    <3>1. g.partial /\ ~Staged /\ g.fills = 1 BY <2>1 DEF Inv, JoiningRowKept
    <3>0. ~FillsNow(b, b') BY <1>4, <3>1
    <3>2. k.partial = g.partial /\ k.fills = g.fills BY <3>0 DEF NoteDoes
    <3>. QED BY <3>1, <3>2 DEF JoiningRowKept, Staged
  <2>2. CASE g'.lost /\ ~g.lost BY <2>2 DEF JoiningRowKept, Staged
  <2>3. CASE ~g'.lost BY <2>3 DEF JoiningRowKept
  <2>. QED BY <2>1, <2>2, <2>3
<1>6. FilledOnceAtThreshold'
  <2>1. g'.fills <= 1 BY <1>1 DEF Core
  <2>2. CASE FillsNow(b, b')
    <3>1. b'.bits # b.bits /\ g'.seenAt = IF Staged THEN b'.seen ELSE -1 BY <2>2 DEF FillsNow, NoteDoes
    <3>2. ASSUME Staged, ~g'.forced PROVE env.first = "done" /\ b'.seen >= ThresholdOf(Cardinality(env.F))
      <4>1. b'.seen >= b.threshold /\ (has_first_done => b.first_done = 1) BY <3>1, <3>2
      <4>2. env.first = "done" BY <4>1 DEF Inv, Core, Phase
      <4>. QED BY <3>2, <4>1, <4>2 DEF Inv, Core, Phase
    <3>. QED BY <2>1, <3>1, <3>2 DEF FilledOnceAtThreshold, Staged, ThresholdOf
  <2>3. CASE ~FillsNow(b, b')
    <3>1. g'.fills = g.fills /\ g'.seenAt = g.seenAt /\ (g.forced => g'.forced) BY <2>3 DEF NoteDoes
    <3>. QED BY <2>1, <3>1 DEF Inv, FilledOnceAtThreshold, Staged, ThresholdOf
  <2>. QED BY <2>2, <2>3
<1>. QED BY <1>1, <1>2, <1>5, <1>6 DEF Inv

\* A call of the owner.
LEMMA CallInv ==
    ASSUME Inv, b # Null, ~env.second, NEW o, b'.bits = b.bits \/ GoodOutcome(o), Follows(b, b', o),
           UNCHANGED <<layout, wk, stats>>, env' \in Env, env'.F = env.F, env'.first = env.first,
           env'.second = env.second, ~Staged /\ env'.shared => b'.bits # Null,
           NEW k, NoteDoes(g, k, b, b', o), g' \in History,
           g'.off = k.off, g'.fills = k.fills, g'.partial = k.partial, g'.reported = k.reported,
           g'.seenAt = k.seenAt, k.forced => g'.forced,
           Staged /\ b'.bits # b.bits /\ ~g'.forced =>
             b'.seen >= b.threshold /\ (has_first_done => b.first_done = 1),
           g'.lost => g.lost \/ (g'.partial /\ ~Staged /\ g'.fills = 1),
           Counts'
    PROVE  Inv'
<1>1. Passes(b, b', o) BY DEF Follows
<1>2. WorkersOK' BY <1>1, WorkersKeep DEF Inv, Core
<1>3. ~g.reported /\ k.reported = g.reported BY DEF Inv, Core, Phase, NoteDoes
<1>4. Phase'
  <2>1. b' # Null BY <1>1, NullAssumption DEF Passes, FilterOK, FilterBase
  <2>2. /\ env.first # "none" /\ stats = ZeroStats
        /\ ~has_first_done => env.first \in {"none", "done"}
        /\ has_first_done => (b.first_done = 1 <=> env.first = "done")
        /\ Staged /\ env.first \in {"counted", "done"} =>
             b.threshold = ThresholdOf(Cardinality(env.F)) /\ b.first_rows = Cardinality(env.F)
    BY DEF Inv, Core, Phase
  <2>3. b'.first_rows = b.first_rows /\ b'.threshold = b.threshold /\ b'.first_done = b.first_done
    BY DEF Follows
  <2>. QED BY <1>3, <2>1, <2>2, <2>3 DEF Phase, Staged, has_first_done, ThresholdOf, ZeroStats
<1>5. wk' \in [Workers -> hjoin_bloom_worker \cup {Null}] BY DEF Inv, Core, Types
<1>. QED BY <1>1, <1>2, <1>4, <1>5, StepInv

\* A call that counts no row.
LEMMA QuietCounts ==
    ASSUME Counts, UNCHANGED <<layout, wk>>, b # Null, SameCounts(b, b'),
           g'.tested = g.tested, g'.skipped = g.skipped, g'.given = g.given
    PROVE  Counts'
BY SameSums DEF Counts, SameCounts, Staged

\* A row the join would match.
Joins(v) == \E f \in env.F : unitseam_hj_join_pair(f, v, 0).compare_eq

NoteRowDoes(h, k, v, ret, checked) ==
    /\ k \in History
    /\ k.given = h.given + 1
    /\ k.tested = IF checked THEN h.tested + 1 ELSE h.tested
    /\ k.skipped = IF ret = 1 THEN h.skipped + 1 ELSE h.skipped
    /\ k.lost => h.lost \/ (ret = 1 /\ Joins(v))
    /\ k.forced = h.forced /\ k.reported = h.reported /\ k.fills = h.fills /\ k.partial = h.partial
    /\ k.seenAt = h.seenAt /\ k.off = h.off

LEMMA NoteRowFields ==
    ASSUME NEW h \in History, h.given < MaxRows, NEW v, NEW ret, NEW checked \in BOOLEAN
    PROVE  NoteRowDoes(h, NoteRow(h, v, ret, checked), v, ret, checked)
<1>0. MaxRows \in Nat BY HjoinBloomAssumption
<1>1. PICK lost : lost = (h.lost \/ (ret = 1 /\ Joins(v))) OBVIOUS
<1>2. PICK tested : tested = IF checked THEN h.tested + 1 ELSE h.tested OBVIOUS
<1>3. PICK skipped : skipped = IF ret = 1 THEN h.skipped + 1 ELSE h.skipped OBVIOUS
<1>4. PICK given : given = h.given + 1 OBVIOUS
<1> DEFINE k == [h EXCEPT !.given = given, !.tested = tested, !.skipped = skipped, !.lost = lost]
<1>5. NoteRow(h, v, ret, checked) = k BY <1>1, <1>2, <1>3, <1>4 DEF NoteRow, Joins, History
<1>6. given \in 0 .. MaxRows /\ tested \in Nat /\ skipped \in Nat
  BY <1>0, <1>2, <1>3, <1>4 DEF History
<1>7. lost \in BOOLEAN BY <1>1
<1>8. k \in History BY <1>6, <1>7 DEF History
<1>9. /\ k.given = given /\ k.tested = tested /\ k.skipped = skipped /\ k.lost = lost
      /\ k.forced = h.forced /\ k.reported = h.reported /\ k.fills = h.fills /\ k.partial = h.partial
      /\ k.seenAt = h.seenAt /\ k.off = h.off
  BY <1>8 DEF History
<1>. HIDE DEF k
<1>10. k.lost => h.lost \/ (ret = 1 /\ Joins(v)) BY <1>1, <1>9
<1>. QED BY <1>2, <1>3, <1>4, <1>5, <1>8, <1>9, <1>10 DEF NoteRowDoes

\* A filter with the bits of all first rows has every key the join could match.
LEMMA AbsentJoinsNot ==
    ASSUME NEW x, NEW v, BitsOf(env.F) \subseteq x.bits, KeyAbsent(x, KeyOf[Store[v]])
    PROVE  ~Joins(v)
<1>1. SUFFICES ASSUME NEW f \in env.F, unitseam_hj_join_pair(f, v, 0).compare_eq PROVE FALSE
  BY DEF Joins
<1>2. KeyOf[f] # NullKey /\ KeyOf[f] = KeyOf[Store[v]] BY <1>1 DEF unitseam_hj_join_pair
<1>3. HashOf[KeyOf[f]] \in x.bits BY <1>2 DEF BitsOf, NonNull
<1>. QED BY <1>2, <1>3 DEF KeyAbsent, unitseam_bloom_may_contain

LEMMA OwnerRowInv ==
    ASSUME Inv, NEW t \in Threads, NEW v \in SecondVals, NEW o \in Outcomes, OwnerRow(t, v, o)
    PROVE  Inv'
<1>1. /\ layout \in LayoutNames /\ g \in History /\ b \in hjoin_bloom /\ b # Null /\ ~env.second
      /\ env \in Env /\ env.second \in BOOLEAN
  BY DEF Inv, Core, Types, OwnerRow, Running, Env
<1>2. GoodOutcome(o) BY OutcomesGood DEF Inv, Core
<1>3. Filter(b, g, env.second) /\ FilterOK(b) /\ g.fills <= 1 /\ (g.partial => ~Staged) BY <1>1 DEF Inv, Core, Filter
<1>4. StateOf(b) = "READY" => b.bits # Null BY <1>1, <1>3 DEF Filter
<1>5. PICK r : r = unitseam_bloom_skip_bound(b, t, v, o) OBVIOUS
<1>6. SkipBoundDoes(b, r, t, v, o) BY <1>1, <1>2, <1>3, <1>4, <1>5, SkipBoundFollows
<1>7. PICK k : k = Note(g, b, r.b, o) OBVIOUS
<1>8. /\ b' = r.b /\ UNCHANGED <<layout, wk, stats, env>> /\ g.given < MaxRows
      /\ g' = IF r.b.owner_thread # t THEN k ELSE NoteRow(k, v, r.ret, r.ret # -1 /\ o.fetched)
  BY <1>5, <1>7 DEF OwnerRow
<1>9. Follows(b, b', o) /\ b' \in hjoin_bloom BY <1>6, <1>8 DEF SkipBoundDoes, Follows, Passes, FilterOK, FilterBase
<1>10. NoteDoes(g, k, b, b', o) BY <1>1, <1>7, <1>8, <1>9, NoteFields
<1>11. Filter(b', k, env.second) /\ k.fills <= 1 /\ (k.partial => ~Staged)
  <2>1. Passes(b, b', o) BY <1>9 DEF Follows
  <2>. QED BY <1>1, <1>2, <1>3, <2>1, <1>10, FilterNote
<1>12. k \in History /\ k.given < MaxRows BY <1>8, <1>10 DEF NoteDoes
<1>13. /\ b.tested \in Nat /\ b.skipped \in Nat /\ b.seen \in Nat
       /\ g.tested \in Nat /\ g.skipped \in Nat /\ g.given \in Nat
  BY <1>1 DEF hjoin_bloom, History
<1>14. /\ SumOver(TestedBy, Workers) \in Nat /\ SumOver(SkippedBy, Workers) \in Nat
       /\ SumOver(UnflushedBy, Workers) \in Nat
  BY SumTypes DEF Inv, Core
<1>15. PICK checked \in BOOLEAN : checked = (r.ret # -1 /\ o.fetched) OBVIOUS
<1>16. CASE r.b.owner_thread # t
  <2>1. g' = k /\ r.ret = -1 BY <1>6, <1>8, <1>16 DEF SkipBoundDoes
  <2>3. Counts'
    <3>1. b'.tested = b.tested /\ b'.skipped = b.skipped /\ (Staged => b'.seen = b.seen)
      BY <1>6, <1>8, <1>16, <2>1 DEF SkipBoundDoes
    <3>2. g'.tested = g.tested /\ g'.skipped = g.skipped /\ g'.given = g.given BY <1>10, <2>1 DEF NoteDoes
    <3>. QED BY <1>1, <1>8, <3>1, <3>2, SameSums DEF Inv, Counts, Staged
  <2>4. Staged /\ b'.bits # b.bits => b'.seen >= b.threshold /\ (has_first_done => b.first_done = 1)
    BY <1>6, <1>8 DEF SkipBoundDoes
  <2>5. (g'.lost => g.lost) /\ (k.forced => g'.forced) BY <1>10, <2>1 DEF NoteDoes
  <2>6. ~Staged /\ env.shared => b'.bits # Null BY <1>1, <1>9 DEF Inv, Core, Phase, Follows, Passes
  <2>. QED BY <1>1, <1>2, <1>8, <1>9, <1>10, <1>12, <2>1, <2>3, <2>4, <2>5, <2>6, CallInv
<1>17. CASE r.b.owner_thread = t
  <2>1. g' = NoteRow(k, v, r.ret, checked) BY <1>8, <1>15, <1>17
  <2>2. NoteRowDoes(k, g', v, r.ret, checked) BY <1>12, <2>1, NoteRowFields
  <2>3. Counts'
    <3>1. b'.tested = IF checked THEN b.tested + 1 ELSE b.tested
      BY <1>6, <1>8, <1>15 DEF SkipBoundDoes
    <3>2. b'.skipped = IF r.ret = 1 THEN b.skipped + 1 ELSE b.skipped BY <1>6, <1>8 DEF SkipBoundDoes
    <3>3. Staged => b'.seen = b.seen + 1 BY <1>6, <1>8, <1>17 DEF SkipBoundDoes
    <3>4. /\ g'.tested = IF checked THEN g.tested + 1 ELSE g.tested
          /\ g'.skipped = IF r.ret = 1 THEN g.skipped + 1 ELSE g.skipped
          /\ g'.given = g.given + 1
      BY <1>10, <2>2 DEF NoteDoes, NoteRowDoes
    <3>. QED BY <1>1, <1>8, <1>13, <1>14, <3>1, <3>2, <3>3, <3>4, SameSums DEF Inv, Counts, Staged
  <2>4. Staged /\ b'.bits # b.bits => b'.seen >= b.threshold /\ (has_first_done => b.first_done = 1)
    BY <1>6, <1>8 DEF SkipBoundDoes
  <2>5. g'.lost => g.lost \/ (g'.partial /\ ~Staged /\ g'.fills = 1)
    <3>1. SUFFICES ASSUME g'.lost, ~g.lost PROVE k.partial /\ ~Staged /\ k.fills = 1
      BY <2>2 DEF NoteRowDoes
    <3>2. r.ret = 1 /\ Joins(v) BY <1>10, <2>2, <3>1 DEF NoteDoes, NoteRowDoes
    <3>3. b'.bits # Null /\ KeyAbsent(b', KeyOf[Store[v]]) BY <1>6, <1>8, <3>2 DEF SkipBoundDoes
    <3>4. k.partial BY <1>11, <3>2, <3>3, AbsentJoinsNot DEF Filter
    <3>. QED BY <1>1, <1>11, <3>3, <3>4 DEF Filter
  <2>6. k.forced => g'.forced BY <2>2 DEF NoteRowDoes
  <2>7. ~Staged /\ env.shared => b'.bits # Null BY <1>1, <1>9 DEF Inv, Core, Phase, Follows, Passes
  <2>8. g' \in History /\ g'.off = k.off /\ g'.fills = k.fills /\ g'.partial = k.partial
        /\ g'.reported = k.reported /\ g'.seenAt = k.seenAt
    BY <2>2 DEF NoteRowDoes
  <2>. QED BY <1>1, <1>2, <1>8, <1>9, <1>10, <2>3, <2>4, <2>5, <2>6, <2>7, <2>8, CallInv
<1>. QED BY <1>16, <1>17

LEMMA PrepareInv ==
    ASSUME Inv, NEW t \in Threads, NEW o \in Outcomes, hjoin_bloom_prepare(t, o)
    PROVE  Inv'
<1>1. /\ layout \in LayoutNames /\ g \in History /\ b \in hjoin_bloom /\ b # Null /\ ~env.second
      /\ env \in Env /\ env.second \in BOOLEAN
  BY DEF Inv, Core, Types, hjoin_bloom_prepare, Running, Env
<1>2. GoodOutcome(o) BY OutcomesGood DEF Inv, Core
<1>3. Filter(b, g, env.second) /\ FilterOK(b) /\ g.fills <= 1 /\ (g.partial => ~Staged) BY <1>1 DEF Inv, Core, Filter
<1>4. PICK y : y = Bind(b, t) OBVIOUS
<1>5. /\ Follows(b, y, o) /\ FilterOK(y)
      /\ y.tested = b.tested /\ y.skipped = b.skipped /\ y.seen = b.seen /\ y.bits = b.bits
  BY <1>1, <1>3, <1>4, BindFollows DEF Follows, Passes
<1>6. PICK s : s = IF ~Staged THEN hjoin_bloom_ready(y, t, o)
                   ELSE IF has_first_done \/ y.set_up THEN y ELSE hjoin_bloom_setup(y, o)
  OBVIOUS
<1>7. /\ y.owner_thread = t /\ b' = s /\ g' = Note(g, b, s, o) /\ UNCHANGED <<layout, wk, stats>>
      /\ env' = [env EXCEPT !.shared = StateOf(s) # "OFF"]
  BY <1>4, <1>6 DEF hjoin_bloom_prepare
<1>8. Follows(y, s, o) /\ SameCounts(y, s) /\ (Staged => s.bits = y.bits)
  <2>1. Follows(y, y, o) /\ SameCounts(y, y) BY <1>1, <1>5, FollowsSelf DEF SameCounts
  <2>2. CASE ~Staged BY <1>1, <1>2, <1>5, <1>6, <2>2, ReadyFollows
  <2>3. CASE Staged /\ (has_first_done \/ y.set_up) BY <1>6, <2>1, <2>3
  <2>4. CASE Staged /\ ~(has_first_done \/ y.set_up)
    <3>1. y.state # "READY" /\ y \in hjoin_bloom BY <1>5, <2>4 DEF FilterOK, FilterBase, StateOf
    <3>. QED BY <1>1, <1>2, <1>5, <1>6, <2>4, <3>1, SetupFollows, SetupBits
  <2>. QED BY <2>2, <2>3, <2>4
<1>9. Follows(b, b', o) /\ b' \in hjoin_bloom
  BY <1>1, <1>3, <1>5, <1>7, <1>8, FollowsTrans DEF Follows, Passes, FilterOK, FilterBase
<1>10. NoteDoes(g, g', b, b', o) BY <1>1, <1>7, <1>9, NoteFields
<1>11. Filter(b', g', env.second)
  <2>1. Passes(b, b', o) BY <1>9 DEF Follows
  <2>. QED BY <1>1, <1>2, <1>3, <2>1, <1>10, FilterNote
<1>12. env' \in Env /\ env'.F = env.F /\ env'.first = env.first /\ env'.second = env.second
       /\ env'.shared = (StateOf(s) # "OFF")
  BY <1>1, <1>7 DEF Env
<1>13. ~Staged /\ env'.shared => b'.bits # Null
  <2>1. SUFFICES ASSUME ~Staged, StateOf(b') # "OFF" PROVE b'.bits # Null BY <1>7, <1>12
  <2>2. y \in hjoin_bloom BY <1>5 DEF FilterOK, FilterBase
  <2>3. b'.built BY <1>6, <1>7, <2>1, <2>2 DEF hjoin_bloom_ready, hjoin_bloom_build, hjoin_bloom
  <2>4. StateOf(b') = "READY" BY <2>1, <2>3 DEF StateOf
  <2>. QED BY <1>1, <1>11, <2>4 DEF Filter
<1>14. Counts'
  BY <1>1, <1>5, <1>7, <1>8, <1>10, SameSums DEF Inv, Counts, SameCounts, NoteDoes, Staged
<1>15. (g'.lost => g.lost) /\ g' \in History BY <1>10 DEF NoteDoes
<1>16. ~(Staged /\ b'.bits # b.bits) BY <1>5, <1>7, <1>8
<1>. QED BY <1>1, <1>2, <1>7, <1>9, <1>10, <1>12, <1>13, <1>14, <1>15, <1>16, CallInv

LEMMA PollInv ==
    ASSUME Inv, NEW t \in Threads, NEW o \in Outcomes, hjoin_bloom_poll(t, o)
    PROVE  Inv'
<1>1. /\ layout \in LayoutNames /\ g \in History /\ b \in hjoin_bloom /\ b # Null /\ ~env.second
      /\ env \in Env /\ env.second \in BOOLEAN
  BY DEF Inv, Core, Types, hjoin_bloom_poll, Running, Env
<1>2. GoodOutcome(o) BY OutcomesGood DEF Inv, Core
<1>3. FilterOK(b) BY <1>1 DEF Inv, Core, Filter
<1>4. /\ Staged /\ Due(b) /\ (has_first_done \/ b.set_up) /\ b' = hjoin_bloom_fill(b, o)
      /\ g' = Note(g, b, b', o) /\ UNCHANGED <<layout, wk, stats, env>>
  BY DEF hjoin_bloom_poll
<1>5. Follows(b, b', o) /\ SameCounts(b, b') BY <1>1, <1>2, <1>3, <1>4, FillFollows DEF Due
<1>6. b' \in hjoin_bloom BY <1>5 DEF Follows, Passes, FilterOK, FilterBase
<1>7. NoteDoes(g, g', b, b', o) BY <1>1, <1>4, <1>6, NoteFields
<1>8. Counts' BY <1>1, <1>4, <1>5, <1>7, QuietCounts DEF Inv, NoteDoes
<1>9. b'.seen >= b.threshold /\ (has_first_done => b.first_done = 1) BY <1>4, <1>5 DEF Due, SameCounts
<1>10. (g'.lost => g.lost) /\ g' \in History BY <1>7 DEF NoteDoes
<1>. QED BY <1>1, <1>2, <1>4, <1>5, <1>7, <1>8, <1>9, <1>10, CallInv

LEMMA FillNowInv ==
    ASSUME Inv, NEW o \in Outcomes, unitseam_bloom_fill_now(o)
    PROVE  Inv'
<1>1. /\ layout \in LayoutNames /\ g \in History /\ b \in hjoin_bloom /\ b # Null /\ ~env.second
      /\ env \in Env /\ env.second \in BOOLEAN
  BY DEF Inv, Core, Types, unitseam_bloom_fill_now, Running, Env
<1>2. GoodOutcome(o) BY OutcomesGood DEF Inv, Core
<1>3. FilterOK(b) BY <1>1 DEF Inv, Core, Filter
<1>4. PICK k : k = Note(g, b, b', o) OBVIOUS
<1>5. /\ b' = unitseam_fill_now_impl(b, o) /\ g' = [k EXCEPT !.forced = TRUE]
      /\ UNCHANGED <<layout, wk, stats, env>>
  BY <1>4 DEF unitseam_bloom_fill_now
<1>6. Follows(b, b', o) /\ SameCounts(b, b') BY <1>1, <1>2, <1>3, <1>5, FillNowFollows
<1>7. b' \in hjoin_bloom BY <1>6 DEF Follows, Passes, FilterOK, FilterBase
<1>8. NoteDoes(g, k, b, b', o) BY <1>1, <1>4, <1>7, NoteFields
<1>9. /\ g' \in History /\ g'.forced /\ g'.off = k.off /\ g'.fills = k.fills /\ g'.partial = k.partial
      /\ g'.reported = k.reported /\ g'.seenAt = k.seenAt /\ g'.lost = k.lost
      /\ g'.tested = k.tested /\ g'.skipped = k.skipped /\ g'.given = k.given
  BY <1>5, <1>8 DEF NoteDoes, History
<1>10. Counts' BY <1>1, <1>5, <1>6, <1>8, <1>9, QuietCounts DEF Inv, NoteDoes
<1>11. g'.lost => g.lost BY <1>8, <1>9 DEF NoteDoes
<1>12. ~Staged /\ env'.shared => b'.bits # Null BY <1>1, <1>5, <1>6 DEF Inv, Core, Phase, Follows, Passes
<1>. QED BY <1>1, <1>2, <1>5, <1>6, <1>8, <1>9, <1>10, <1>11, <1>12, CallInv

LEMMA CheckBoundInv ==
    ASSUME Inv, NEW v \in SecondVals, NEW fetched \in BOOLEAN, CheckBound(v, fetched)
    PROVE  Inv'
<1>1. /\ layout \in LayoutNames /\ g \in History /\ b \in hjoin_bloom /\ b # Null /\ ~env.second
      /\ env \in Env /\ env.second \in BOOLEAN
  BY DEF Inv, Core, Types, CheckBound, Running, Env
<1>2. FilterOK(b) BY <1>1 DEF Inv, Core, Filter
<1>3. /\ b' = unitseam_bloom_check_bound(b, v, fetched).b /\ g' = Note(g, b, b', Null)
      /\ UNCHANGED <<layout, wk, stats, env>>
  BY DEF CheckBound
<1>4. Follows(b, b', Null) /\ SameCounts(b, b') /\ b'.bits = b.bits
  BY <1>1, <1>2, <1>3, CheckBoundFollows
<1>5. b' \in hjoin_bloom BY <1>4 DEF Follows, Passes, FilterOK, FilterBase
<1>6. NoteDoes(g, g', b, b', Null) BY <1>1, <1>3, <1>5, NoteFields
<1>7. Counts' BY <1>1, <1>3, <1>4, <1>6, QuietCounts DEF Inv, NoteDoes
<1>8. (g'.lost => g.lost) /\ g' \in History BY <1>6 DEF NoteDoes
<1>9. ~Staged /\ env'.shared => b'.bits # Null BY <1>1, <1>3, <1>4 DEF Inv, Core, Phase
<1>. QED BY <1>1, <1>3, <1>4, <1>6, <1>7, <1>8, <1>9, CallInv

LEMMA SetSeenInv ==
    ASSUME Inv, NEW n \in 0 .. MaxRows, unitseam_bloom_set_seen(n)
    PROVE  Inv'
<1>1. /\ layout \in LayoutNames /\ g \in History /\ b \in hjoin_bloom /\ b # Null /\ ~env.second
      /\ env \in Env /\ env.second \in BOOLEAN
  BY DEF Inv, Core, Types, unitseam_bloom_set_seen, Running, Env
<1>2. FilterOK(b) /\ g.off = ReasonOf(b) BY <1>1 DEF Inv, Core, Filter
<1>3. /\ Staged /\ b.state = "WAITING" /\ (\A w \in Workers : wk[w] = Null)
      /\ b' = [b EXCEPT !.seen = n] /\ g' = [g EXCEPT !.given = n]
      /\ UNCHANGED <<layout, wk, stats, env>>
  BY DEF unitseam_bloom_set_seen
<1>4. n \in Nat /\ b' \in hjoin_bloom BY <1>1, <1>3, HjoinBloomAssumption DEF hjoin_bloom
<1>5. /\ b'.tested = b.tested /\ b'.skipped = b.skipped /\ b'.seen = n
      /\ b'.bits = b.bits /\ b'.set_up = b.set_up /\ b'.state = b.state
      /\ b'.off_reason = b.off_reason /\ b'.key = b.key /\ b'.keys = b.keys
      /\ b'.first_rows = b.first_rows /\ b'.threshold = b.threshold /\ b'.first_done = b.first_done
  BY <1>1, <1>3 DEF hjoin_bloom
<1>6. FilterOK(b') BY <1>2, <1>3, <1>4, <1>5 DEF FilterOK, FilterBase, StateOf, ReasonOf
<1>7. Follows(b, b', Null) BY <1>3, <1>5, <1>6 DEF Follows, Passes, StateOf, ReasonOf
<1>8. NoteDoes(g, g, b, b', Null) BY <1>1, <1>3, <1>5 DEF NoteDoes, FillsNow, StateOf
<1>9. /\ g' \in History /\ g'.given = n /\ g'.tested = g.tested /\ g'.skipped = g.skipped
      /\ g'.lost = g.lost /\ g'.forced = g.forced /\ g'.off = g.off /\ g'.fills = g.fills
      /\ g'.partial = g.partial /\ g'.reported = g.reported /\ g'.seenAt = g.seenAt
  BY <1>1, <1>3 DEF History
<1>10. Counts'
  BY <1>1, <1>3, <1>4, <1>5, <1>9, SumsZero, SameSums DEF Inv, Counts
<1>. QED BY <1>1, <1>3, <1>5, <1>7, <1>8, <1>9, <1>10, CallInv

------------------------------------------------------------------------------
\* The workers.

\* One worker's step changes the sums by what it changes of its own counts.
LEMMA SumsChange ==
    ASSUME Types, NEW w \in Workers, NEW d \in hjoin_bloom_worker \cup {Null}, wk' = [wk EXCEPT ![w] = d]
    PROVE  /\ SumOver(TestedBy, Workers)' + TestedBy[w] = SumOver(TestedBy, Workers) + TestedBy'[w]
           /\ SumOver(SkippedBy, Workers)' + SkippedBy[w] = SumOver(SkippedBy, Workers) + SkippedBy'[w]
           /\ SumOver(UnflushedBy, Workers)' + UnflushedBy[w] = SumOver(UnflushedBy, Workers) + UnflushedBy'[w]
           /\ SumOver(TestedBy, Workers)' \in Nat /\ SumOver(SkippedBy, Workers)' \in Nat
           /\ SumOver(UnflushedBy, Workers)' \in Nat
<1>1. IsFiniteSet(Workers) BY HjoinBloomAssumption
<1>2. \A x \in Workers : TestedBy[x] \in Nat /\ SkippedBy[x] \in Nat /\ UnflushedBy[x] \in Nat BY WorkerCounts
<1>3. /\ \A x \in Workers : wk'[x] = IF x = w THEN d ELSE wk[x]
      /\ \A x \in Workers : wk'[x] \in hjoin_bloom_worker \cup {Null}
  BY DEF Types
<1>4. PICK t, s, n : t = TestedBy /\ s = SkippedBy /\ n = UnflushedBy OBVIOUS
<1>5. PICK tt, ss, nn : tt = TestedBy' /\ ss = SkippedBy' /\ nn = UnflushedBy' OBVIOUS
<1>6. /\ \A x \in Workers : tt[x] \in Nat
      /\ \A x \in Workers : ss[x] \in Nat
      /\ \A x \in Workers : nn[x] \in Nat
  BY <1>3, <1>5 DEF TestedBy, SkippedBy, UnflushedBy, hjoin_bloom_worker
<1>7. /\ \A x \in Workers \ {w} : tt[x] = t[x]
      /\ \A x \in Workers \ {w} : ss[x] = s[x]
      /\ \A x \in Workers \ {w} : nn[x] = n[x]
  BY <1>3, <1>4, <1>5 DEF TestedBy, SkippedBy, UnflushedBy
<1>8. SumOver(tt, Workers) + t[w] = SumOver(t, Workers) + tt[w] BY <1>1, <1>2, <1>4, <1>6, <1>7, SumChange
<1>9. SumOver(ss, Workers) + s[w] = SumOver(s, Workers) + ss[w] BY <1>1, <1>2, <1>4, <1>6, <1>7, SumChange
<1>10. SumOver(nn, Workers) + n[w] = SumOver(n, Workers) + nn[w] BY <1>1, <1>2, <1>4, <1>6, <1>7, SumChange
<1>11. SumOver(tt, Workers) \in Nat BY <1>1, <1>6, SumType
<1>12. SumOver(ss, Workers) \in Nat BY <1>1, <1>6, SumType
<1>13. SumOver(nn, Workers) \in Nat BY <1>1, <1>6, SumType
<1>. QED BY <1>4, <1>5, <1>8, <1>9, <1>10, <1>11, <1>12, <1>13

LEMMA WorkerBeginInv ==
    ASSUME Inv, NEW w \in Workers, NEW plain \in BOOLEAN, WorkerBegin(w, plain)
    PROVE  Inv'
<1>1. /\ layout \in LayoutNames /\ g \in History /\ b \in hjoin_bloom /\ b # Null /\ ~env.second
      /\ env \in Env /\ env.second \in BOOLEAN /\ wk \in [Workers -> hjoin_bloom_worker \cup {Null}]
      /\ Types
  BY DEF Inv, Core, Types, WorkerBegin, Running, Env
<1>2. Filter(b, g, env.second) /\ FilterOK(b) BY <1>1 DEF Inv, Core, Filter
<1> DEFINE c == [disabled |-> b.key_regus /\ ~plain, ready |-> Ready(b), seen_unflushed |-> 0,
                tested |-> 0, skipped |-> 0, late |-> 0, key_regus |-> b.key_regus /\ plain]
<1>3. env.shared /\ wk[w] = Null /\ wk' = [wk EXCEPT ![w] = c] /\ UNCHANGED <<layout, b, stats, env, g>>
  BY DEF WorkerBegin
<1>4. c \in hjoin_bloom_worker BY <1>1 DEF hjoin_bloom_worker, hjoin_bloom, Ready
<1>5. c # Null BY <1>4, NullAssumption
<1>6. /\ c.ready = Ready(b) /\ c.seen_unflushed = 0 /\ c.tested = 0 /\ c.skipped = 0 /\ c.late = 0
  OBVIOUS
<1>. HIDE DEF c
<1>7. Worker(c)
  <2>1. SEEN_BATCH \in Nat /\ SEEN_BATCH > 0 BY HjoinBloomAssumption
  <2>2. c.ready => b.bits # Null BY <1>1, <1>2, <1>6 DEF Ready, Filter
  <2>3. ~Staged => b.bits # Null BY <1>1, <1>3 DEF Inv, Core, Phase
  <2>. QED BY <1>6, <2>1, <2>2, <2>3 DEF Worker
<1>8. wk' \in [Workers -> hjoin_bloom_worker \cup {Null}] /\ wk'[w] = c /\ \A x \in Workers \ {w} : wk'[x] = wk[x]
  BY <1>1, <1>3, <1>4
<1>9. WorkersOK'
  <2>1. ASSUME NEW x \in Workers, wk'[x] # Null PROVE Worker(wk'[x])
    BY <1>7, <1>8, <2>1 DEF Inv, Core, WorkersOK
  <2>. QED BY <1>3, <2>1 DEF WorkersOK, Worker, Staged
<1>10. Counts'
  <2>1. TestedBy[w] = 0 /\ SkippedBy[w] = 0 /\ UnflushedBy[w] = 0 BY <1>3 DEF TestedBy, SkippedBy, UnflushedBy
  <2>2. TestedBy'[w] = 0 /\ SkippedBy'[w] = 0 /\ UnflushedBy'[w] = 0
    BY <1>6, <1>8 DEF TestedBy, SkippedBy, UnflushedBy
  <2>3. /\ SumOver(TestedBy, Workers)' = SumOver(TestedBy, Workers)
        /\ SumOver(SkippedBy, Workers)' = SumOver(SkippedBy, Workers)
        /\ SumOver(UnflushedBy, Workers)' = SumOver(UnflushedBy, Workers)
    <3>1. /\ SumOver(TestedBy, Workers)' + TestedBy[w] = SumOver(TestedBy, Workers) + TestedBy'[w]
          /\ SumOver(SkippedBy, Workers)' + SkippedBy[w] = SumOver(SkippedBy, Workers) + SkippedBy'[w]
          /\ SumOver(UnflushedBy, Workers)' + UnflushedBy[w] = SumOver(UnflushedBy, Workers) + UnflushedBy'[w]
          /\ SumOver(TestedBy, Workers)' \in Nat /\ SumOver(SkippedBy, Workers)' \in Nat
          /\ SumOver(UnflushedBy, Workers)' \in Nat
      BY <1>1, <1>3, <1>4, SumsChange
    <3>2. /\ SumOver(TestedBy, Workers) \in Nat /\ SumOver(SkippedBy, Workers) \in Nat
          /\ SumOver(UnflushedBy, Workers) \in Nat
      BY <1>1, SumTypes
    <3>. QED BY <2>1, <2>2, <3>1, <3>2
  <2>. QED BY <1>3, <2>3 DEF Inv, Counts, Staged
<1>11. Phase' BY <1>1, <1>3 DEF Inv, Core, Phase, Staged, has_first_done, ThresholdOf, ZeroStats
<1>12. Passes(b, b', Null) BY <1>1, <1>2, <1>3, FollowsSelf DEF Follows
<1>13. NoteDoes(g, g, b, b', Null)
  BY <1>1, <1>2, <1>3 DEF NoteDoes, FillsNow, Filter, FilterOK, FilterBase, ReasonOf
<1>14. g'.lost => g.lost BY <1>3
<1>. QED BY <1>1, <1>3, <1>8, <1>9, <1>10, <1>11, <1>12, <1>13, <1>14, StepInv

\* What leaves a worker's counts goes to the filter's, and only a row given is new.
LEMMA WorkerStepCounts ==
    ASSUME Inv, b # Null, b' \in hjoin_bloom, g' \in History, layout' = layout,
           NEW w \in Workers, wk[w] # Null, NEW d \in hjoin_bloom_worker \cup {Null}, wk' = [wk EXCEPT ![w] = d],
           b'.tested + TestedBy'[w] + g.tested = b.tested + wk[w].tested + g'.tested,
           b'.skipped + SkippedBy'[w] + g.skipped = b.skipped + wk[w].skipped + g'.skipped,
           Staged => b'.seen + UnflushedBy'[w] + g.given = b.seen + wk[w].seen_unflushed + g'.given
    PROVE  Counts'
<1>1. Types /\ wk[w] \in hjoin_bloom_worker /\ b \in hjoin_bloom /\ g \in History /\ wk'[w] = d
  BY DEF Inv, Core, Types
<1>2. /\ TestedBy[w] = wk[w].tested /\ SkippedBy[w] = wk[w].skipped /\ UnflushedBy[w] = wk[w].seen_unflushed
  BY <1>1 DEF TestedBy, SkippedBy, UnflushedBy
<1>0. PICK t \in Nat, s \in Nat, n \in Nat : t = TestedBy'[w] /\ s = SkippedBy'[w] /\ n = UnflushedBy'[w]
  BY <1>1 DEF TestedBy, SkippedBy, UnflushedBy, hjoin_bloom_worker
<1>3. /\ SumOver(TestedBy, Workers)' + wk[w].tested = SumOver(TestedBy, Workers) + t
      /\ SumOver(SkippedBy, Workers)' + wk[w].skipped = SumOver(SkippedBy, Workers) + s
      /\ SumOver(UnflushedBy, Workers)' + wk[w].seen_unflushed = SumOver(UnflushedBy, Workers) + n
      /\ SumOver(TestedBy, Workers)' \in Nat /\ SumOver(SkippedBy, Workers)' \in Nat
      /\ SumOver(UnflushedBy, Workers)' \in Nat
  BY <1>0, <1>1, <1>2, SumsChange
<1>4. /\ SumOver(TestedBy, Workers) \in Nat /\ SumOver(SkippedBy, Workers) \in Nat
      /\ SumOver(UnflushedBy, Workers) \in Nat
  BY <1>1, SumTypes
<1>5. /\ b.tested \in Nat /\ b.skipped \in Nat /\ b.seen \in Nat
      /\ b'.tested \in Nat /\ b'.skipped \in Nat /\ b'.seen \in Nat
      /\ wk[w].tested \in Nat /\ wk[w].skipped \in Nat /\ wk[w].seen_unflushed \in Nat
  BY <1>1 DEF hjoin_bloom, hjoin_bloom_worker
<1>6. /\ g.tested \in Nat /\ g.skipped \in Nat /\ g.given \in Nat
      /\ g'.tested \in Nat /\ g'.skipped \in Nat /\ g'.given \in Nat
  BY <1>1 DEF History
<1>7. /\ b.tested + SumOver(TestedBy, Workers) = g.tested
      /\ b.skipped + SumOver(SkippedBy, Workers) = g.skipped
      /\ Staged => b.seen + SumOver(UnflushedBy, Workers) = g.given
  BY DEF Inv, Counts
<1>8. b'.tested + SumOver(TestedBy, Workers)' = g'.tested
  <2>1. PICK sum \in Nat : sum = SumOver(TestedBy, Workers) BY <1>4
  <2>2. PICK new \in Nat : new = SumOver(TestedBy, Workers)' BY <1>3
  <2>3. PICK x \in Nat, y \in Nat, had \in Nat, h \in Nat, k \in Nat :
          x = b.tested /\ y = b'.tested /\ had = wk[w].tested /\ h = g.tested /\ k = g'.tested
    BY <1>5, <1>6
  <2>4. x + sum = h BY <1>7, <2>1, <2>3
  <2>5. new + had = sum + t BY <1>3, <2>1, <2>2, <2>3
  <2>6. y + t + h = x + had + k BY <1>0, <2>3
  <2>7. y + new = k BY ONLY <2>4, <2>5, <2>6
  <2>. QED BY <2>2, <2>3, <2>7
<1>9. b'.skipped + SumOver(SkippedBy, Workers)' = g'.skipped
  <2>1. PICK sum \in Nat : sum = SumOver(SkippedBy, Workers) BY <1>4
  <2>2. PICK new \in Nat : new = SumOver(SkippedBy, Workers)' BY <1>3
  <2>3. PICK x \in Nat, y \in Nat, had \in Nat, h \in Nat, k \in Nat :
          x = b.skipped /\ y = b'.skipped /\ had = wk[w].skipped /\ h = g.skipped /\ k = g'.skipped
    BY <1>5, <1>6
  <2>4. x + sum = h BY <1>7, <2>1, <2>3
  <2>5. new + had = sum + s BY <1>3, <2>1, <2>2, <2>3
  <2>6. y + s + h = x + had + k BY <1>0, <2>3
  <2>7. y + new = k BY ONLY <2>4, <2>5, <2>6
  <2>. QED BY <2>2, <2>3, <2>7
<1>10. Staged => b'.seen + SumOver(UnflushedBy, Workers)' = g'.given
  <2>1. PICK sum \in Nat : sum = SumOver(UnflushedBy, Workers) BY <1>4
  <2>2. PICK new \in Nat : new = SumOver(UnflushedBy, Workers)' BY <1>3
  <2>3. PICK x \in Nat, y \in Nat, had \in Nat, h \in Nat, k \in Nat :
          x = b.seen /\ y = b'.seen /\ had = wk[w].seen_unflushed /\ h = g.given /\ k = g'.given
    BY <1>5, <1>6
  <2>4. Staged => x + sum = h BY <1>7, <2>1, <2>3
  <2>5. new + had = sum + n BY <1>3, <2>1, <2>2, <2>3
  <2>6. Staged => y + n + h = x + had + k BY <1>0, <2>3
  <2>7. Staged => y + new = k BY ONLY <2>4, <2>5, <2>6
  <2>. QED BY <2>2, <2>3, <2>7
<1>. QED BY <1>8, <1>9, <1>10 DEF Counts, Staged

LEMMA WorkerEndInv ==
    ASSUME Inv, NEW w \in Workers, WorkerEnd(w)
    PROVE  Inv'
<1>1. /\ layout \in LayoutNames /\ g \in History /\ b \in hjoin_bloom /\ b # Null /\ ~env.second
      /\ env \in Env /\ env.second \in BOOLEAN /\ wk \in [Workers -> hjoin_bloom_worker \cup {Null}]
  BY DEF Inv, Core, Types, WorkerEnd, Running, Env
<1>2. Filter(b, g, env.second) /\ FilterOK(b) BY <1>1 DEF Inv, Core, Filter
<1>3. wk[w] # Null /\ wk' = [wk EXCEPT ![w] = Null] /\ UNCHANGED <<layout, stats, env, g>> BY DEF WorkerEnd
<1>4. wk[w] \in hjoin_bloom_worker /\ Worker(wk[w]) BY <1>1, <1>3 DEF Inv, Core, WorkersOK
<1>5. PICK tested, skipped, seen \in Nat :
        /\ tested = b.tested + wk[w].tested /\ skipped = b.skipped + wk[w].skipped
        /\ seen = IF Staged THEN b.seen + wk[w].seen_unflushed ELSE b.seen
  BY <1>1, <1>4 DEF hjoin_bloom, hjoin_bloom_worker
<1> DEFINE y == [b EXCEPT !.tested = tested, !.skipped = skipped, !.seen = seen]
<1>6. y \in hjoin_bloom BY <1>1 DEF hjoin_bloom
<1>7. b' = y
  <2>1. CASE Staged BY <1>1, <1>5, <2>1 DEF WorkerEnd, hjoin_bloom
  <2>2. CASE ~Staged BY <1>1, <1>5, <2>2 DEF WorkerEnd, hjoin_bloom
  <2>. QED BY <2>1, <2>2
<1>8. /\ y.tested = tested /\ y.skipped = skipped /\ y.seen = seen
      /\ y.bits = b.bits /\ y.set_up = b.set_up /\ y.state = b.state
      /\ y.off_reason = b.off_reason /\ y.key = b.key /\ y.keys = b.keys
      /\ y.built = b.built /\ y.disabled = b.disabled
      /\ y.first_rows = b.first_rows /\ y.threshold = b.threshold /\ y.first_done = b.first_done
  BY <1>1, <1>6 DEF hjoin_bloom
<1>. HIDE DEF y
<1>9. y.skipped <= y.tested
  BY <1>1, <1>2, <1>4, <1>5, <1>8 DEF FilterOK, FilterBase, Worker, hjoin_bloom, hjoin_bloom_worker
<1>10. FilterOK(y) BY <1>2, <1>6, <1>8, <1>9 DEF FilterOK, FilterBase, StateOf, ReasonOf
<1>11. Follows(b, y, Null) BY <1>8, <1>10 DEF Follows, Passes, StateOf, ReasonOf
<1>12. NoteDoes(g, g, b, y, Null)
  BY <1>1, <1>2, <1>8 DEF NoteDoes, FillsNow, Filter, FilterOK, FilterBase, ReasonOf, StateOf
<1>13. wk' \in [Workers -> hjoin_bloom_worker \cup {Null}] /\ wk'[w] = Null /\ \A x \in Workers \ {w} : wk'[x] = wk[x]
  BY <1>1, <1>3
<1>14. WorkersOK'
  <2>1. ASSUME NEW x \in Workers, wk'[x] # Null PROVE Worker(wk'[x])
    BY <1>13, <2>1 DEF Inv, Core, WorkersOK
  <2>. QED BY <1>3, <1>7, <1>8, <2>1 DEF WorkersOK, Worker, Staged
<1>15. Counts'
  <2>1. TestedBy'[w] = 0 /\ SkippedBy'[w] = 0 /\ UnflushedBy'[w] = 0
    BY <1>13 DEF TestedBy, SkippedBy, UnflushedBy
  <2>2. /\ b'.tested + TestedBy'[w] + g.tested = b.tested + wk[w].tested + g'.tested
        /\ b'.skipped + SkippedBy'[w] + g.skipped = b.skipped + wk[w].skipped + g'.skipped
        /\ Staged => b'.seen + UnflushedBy'[w] + g.given = b.seen + wk[w].seen_unflushed + g'.given
    BY <1>1, <1>3, <1>4, <1>5, <1>7, <1>8, <2>1 DEF hjoin_bloom, hjoin_bloom_worker, History
  <2>. QED BY <1>1, <1>3, <1>6, <1>7, <2>2, WorkerStepCounts
<1>16. y # Null BY <1>6, NullAssumption
<1>17. Phase'
  BY <1>1, <1>3, <1>7, <1>8, <1>16 DEF Inv, Core, Phase, Staged, has_first_done, ThresholdOf, ZeroStats
<1>18. Passes(b, b', Null) /\ NoteDoes(g, g, b, b', Null) /\ b'.bits = b.bits BY <1>7, <1>8, <1>11, <1>12 DEF Follows
<1>19. g'.lost => g.lost BY <1>3
<1>. QED BY <1>1, <1>3, <1>13, <1>14, <1>15, <1>17, <1>18, <1>19, StepInv

LEMMA TurnOffBits ==
    ASSUME NEW x \in hjoin_bloom, NEW reason
    PROVE  TurnOff(x, reason).bits = x.bits
BY DEF TurnOff, hjoin_bloom

\* The cast brings a row's key before the projection to the key of its tuple.
LEMMA EarlyKey ==
    ASSUME NEW v
    PROVE  EarlyKeyOf(v) = KeyOf[Store[v]]
BY HjoinBloomAssumption DEF EarlyKeyOf

\* A worker's row is counted into its batch (r); a full one goes to the filter (h).
Batch(c) == IF Staged THEN [c EXCEPT !.seen_unflushed = @ + 1] ELSE c
Full(c) == Staged /\ c.seen_unflushed >= SEEN_BATCH

BatchDoes(c, r, h) ==
    /\ r \in hjoin_bloom_worker /\ h \in hjoin_bloom
    /\ r.tested = c.tested /\ r.skipped = c.skipped /\ r.late = c.late /\ r.disabled = c.disabled
    /\ Staged => \/ r.seen_unflushed = 0 /\ r.ready = (b.state = "READY")
                 \/ r.seen_unflushed = c.seen_unflushed + 1 /\ r.ready = c.ready /\ r.seen_unflushed < SEEN_BATCH
    /\ Staged => h.seen + r.seen_unflushed = b.seen + c.seen_unflushed + 1
    /\ ~Staged => r = c
    /\ h.tested = b.tested /\ h.skipped = b.skipped /\ h.bits = b.bits
    /\ Follows(b, h, Null)

LEMMA BatchStep ==
    ASSUME layout \in LayoutNames, FilterOK(b), NEW c \in hjoin_bloom_worker
    PROVE  BatchDoes(c, IF Full(Batch(c)) THEN Reread(Batch(c), b) ELSE Batch(c),
                     IF Full(Batch(c)) THEN [b EXCEPT !.seen = @ + Batch(c).seen_unflushed] ELSE b)
<1>0. /\ b \in hjoin_bloom /\ b.seen \in Nat /\ c.seen_unflushed \in Nat /\ SEEN_BATCH \in Nat
      /\ Follows(b, b, Null)
  BY FollowsSelf, HjoinBloomAssumption DEF FilterOK, FilterBase, hjoin_bloom, hjoin_bloom_worker
<1>1. CASE ~Staged BY <1>0, <1>1 DEF BatchDoes, Batch, Full
<1>2. CASE Staged
  <2>1. PICK n \in Nat : n = c.seen_unflushed + 1 BY <1>0
  <2> DEFINE d == [c EXCEPT !.seen_unflushed = n]
  <2>2. Batch(c) = d BY <1>2, <2>1 DEF Batch
  <2>3. d \in hjoin_bloom_worker BY DEF hjoin_bloom_worker
  <2>4. /\ d.seen_unflushed = n /\ d.tested = c.tested /\ d.skipped = c.skipped /\ d.late = c.late
        /\ d.disabled = c.disabled /\ d.ready = c.ready
    BY <2>3 DEF hjoin_bloom_worker
  <2>. HIDE DEF d
  <2>5. CASE ~(n >= SEEN_BATCH)
    <3>1. ~Full(Batch(c)) BY <2>2, <2>4, <2>5 DEF Full
    <3>2. n < SEEN_BATCH BY <1>0, <2>5
    <3>3. b.seen + n = b.seen + c.seen_unflushed + 1 BY <1>0, <2>1
    <3>4. BatchDoes(c, d, b) BY <1>0, <1>2, <2>1, <2>3, <2>4, <3>2, <3>3 DEF BatchDoes
    <3>. QED BY <2>2, <3>1, <3>4
  <2>6. CASE n >= SEEN_BATCH
    <3>1. Full(Batch(c)) BY <1>2, <2>2, <2>4, <2>6 DEF Full
    <3>2. PICK ready \in BOOLEAN : ready = (b.state = "READY") OBVIOUS
    <3> DEFINE r == [d EXCEPT !.seen_unflushed = 0, !.ready = ready]
    <3>3. r \in hjoin_bloom_worker BY <2>3 DEF hjoin_bloom_worker
    <3>4. /\ r.seen_unflushed = 0 /\ r.tested = c.tested /\ r.skipped = c.skipped /\ r.late = c.late
          /\ r.disabled = c.disabled /\ r.ready = ready
      BY <2>3, <2>4, <3>3 DEF hjoin_bloom_worker
    <3>5. Reread(Batch(c), b) = r BY <2>2, <3>2 DEF Reread
    <3>6. PICK seen \in Nat : seen = b.seen + n BY <1>0
    <3> DEFINE h == [b EXCEPT !.seen = seen]
    <3>7. h \in hjoin_bloom BY <1>0 DEF hjoin_bloom
    <3>8. [b EXCEPT !.seen = @ + Batch(c).seen_unflushed] = h BY <2>2, <2>4, <3>6
    <3>9. /\ h.tested = b.tested /\ h.skipped = b.skipped /\ h.seen = seen
          /\ h.bits = b.bits /\ h.set_up = b.set_up /\ h.state = b.state
          /\ h.off_reason = b.off_reason /\ h.key = b.key /\ h.keys = b.keys
          /\ h.built = b.built /\ h.disabled = b.disabled
          /\ h.first_rows = b.first_rows /\ h.threshold = b.threshold /\ h.first_done = b.first_done
      BY <1>0, <3>7 DEF hjoin_bloom
    <3>. HIDE DEF r, h
    <3>10. FilterOK(h) BY <3>7, <3>9 DEF FilterOK, FilterBase, StateOf, ReasonOf
    <3>11. Follows(b, h, Null) BY <3>9, <3>10 DEF Follows, Passes, StateOf, ReasonOf
    <3>12. h.seen + r.seen_unflushed = b.seen + c.seen_unflushed + 1 BY <1>0, <2>1, <3>4, <3>6, <3>9
    <3>13. BatchDoes(c, r, h) BY <1>2, <3>2, <3>3, <3>4, <3>7, <3>9, <3>11, <3>12 DEF BatchDoes
    <3>. QED BY <3>1, <3>5, <3>8, <3>13
  <2>. QED BY <2>5, <2>6
<1>. QED BY <1>1, <1>2

\* A worker's check of a row (d), and one more row if the filter is off by now (e).
CheckDoes(r, e, checks, fetched, absent) ==
    /\ e \in hjoin_bloom_worker
    /\ e.seen_unflushed = r.seen_unflushed /\ e.ready = r.ready
    /\ e.tested = IF checks /\ fetched THEN r.tested + 1 ELSE r.tested
    /\ e.skipped = IF absent THEN r.skipped + 1 ELSE r.skipped
    /\ e.late = IF checks /\ Staged /\ b.state = "OFF" THEN r.late + 1 ELSE r.late

Checked(r, checks, fetched, absent) ==
    IF ~checks THEN r ELSE IF ~fetched THEN [r EXCEPT !.disabled = TRUE] ELSE Count(r, absent)
Late(d, checks) == IF checks /\ Staged /\ b.state = "OFF" THEN [d EXCEPT !.late = @ + 1] ELSE d

LEMMA CheckStep ==
    ASSUME NEW r \in hjoin_bloom_worker, NEW checks \in BOOLEAN, NEW fetched \in BOOLEAN,
           NEW absent \in BOOLEAN, absent => checks /\ fetched
    PROVE  CheckDoes(r, Late(Checked(r, checks, fetched, absent), checks), checks, fetched, absent)
<1>0. r.tested \in Nat /\ r.skipped \in Nat /\ r.late \in Nat BY DEF hjoin_bloom_worker
<1>1. PICK d : d = Checked(r, checks, fetched, absent) OBVIOUS
<1>2. /\ d \in hjoin_bloom_worker
      /\ d.seen_unflushed = r.seen_unflushed /\ d.ready = r.ready /\ d.late = r.late
      /\ d.tested = IF checks /\ fetched THEN r.tested + 1 ELSE r.tested
      /\ d.skipped = IF absent THEN r.skipped + 1 ELSE r.skipped
  <2>1. CASE ~checks BY <1>1, <2>1 DEF Checked
  <2>2. CASE checks /\ ~fetched BY <1>1, <2>2 DEF Checked, hjoin_bloom_worker
  <2>3. CASE checks /\ fetched
    <3>1. PICK t \in Nat : t = r.tested + 1 BY <1>0
    <3>2. PICK s \in Nat : s = r.skipped + IF absent THEN 1 ELSE 0 BY <1>0
    <3>3. d = [r EXCEPT !.tested = t, !.skipped = s] BY <1>1, <2>3, <3>1, <3>2 DEF Checked, Count
    <3>4. d \in hjoin_bloom_worker BY <3>3 DEF hjoin_bloom_worker
    <3>5. /\ d.seen_unflushed = r.seen_unflushed /\ d.ready = r.ready /\ d.late = r.late
          /\ d.tested = t /\ d.skipped = s
      BY <3>3, <3>4 DEF hjoin_bloom_worker
    <3>6. s = IF absent THEN r.skipped + 1 ELSE r.skipped BY <1>0, <3>2
    <3>. QED BY <2>3, <3>1, <3>4, <3>5, <3>6
  <2>. QED BY <2>1, <2>2, <2>3
<1>3. CASE ~(checks /\ Staged /\ b.state = "OFF") BY <1>1, <1>2, <1>3 DEF Late, CheckDoes
<1>4. CASE checks /\ Staged /\ b.state = "OFF"
  <2>1. PICK n \in Nat : n = r.late + 1 BY <1>0
  <2> DEFINE e == [d EXCEPT !.late = n]
  <2>2. Late(d, checks) = e BY <1>2, <1>4, <2>1 DEF Late
  <2>3. e \in hjoin_bloom_worker BY <1>2 DEF hjoin_bloom_worker
  <2>4. /\ e.seen_unflushed = d.seen_unflushed /\ e.ready = d.ready /\ e.late = n
        /\ e.tested = d.tested /\ e.skipped = d.skipped
    BY <1>2, <2>3 DEF hjoin_bloom_worker
  <2>. HIDE DEF e
  <2>5. CheckDoes(r, e, checks, fetched, absent) BY <1>2, <1>4, <2>1, <2>3, <2>4 DEF CheckDoes
  <2>. QED BY <1>1, <2>2, <2>5
<1>. QED BY <1>3, <1>4

\* A worker's copy after its row: late stays below a batch.
LEMMA WorkerKept ==
    ASSUME Inv, b # Null, ~env.second, NEW c \in hjoin_bloom_worker, Worker(c), NEW r, NEW h, BatchDoes(c, r, h),
           NEW checks \in BOOLEAN, checks => ~Staged \/ r.ready, NEW fetched \in BOOLEAN, NEW absent \in BOOLEAN,
           absent => checks /\ fetched, NEW e, CheckDoes(r, e, checks, fetched, absent)
    PROVE  /\ e.seen_unflushed < SEEN_BATCH /\ e.skipped <= e.tested /\ e.late < SEEN_BATCH
           /\ e.ready \/ ~Staged => b.bits # Null
           /\ ~Staged \/ b.state # "OFF" => e.late = 0
           /\ e.ready => e.late <= e.seen_unflushed
<1>0. /\ SEEN_BATCH \in Nat /\ SEEN_BATCH > 0 /\ c.seen_unflushed \in Nat /\ c.late \in Nat
      /\ c.tested \in Nat /\ c.skipped \in Nat /\ r.seen_unflushed \in Nat /\ r.late = c.late
      /\ r.ready \in BOOLEAN /\ c.ready \in BOOLEAN
  BY HjoinBloomAssumption DEF hjoin_bloom_worker, BatchDoes
<1>1. /\ c.seen_unflushed < SEEN_BATCH /\ c.skipped <= c.tested /\ c.late < SEEN_BATCH
      /\ c.ready \/ ~Staged => b.bits # Null
      /\ ~Staged \/ b.state # "OFF" => c.late = 0
      /\ c.ready => c.late <= c.seen_unflushed
  BY DEF Worker
<1>2. e.skipped <= e.tested
  BY <1>0, <1>1 DEF CheckDoes, BatchDoes
<1>3. Staged /\ b.state = "READY" => b.bits # Null BY DEF Inv, Core, Filter, StateOf
<1>4. CASE ~Staged
  <2>1. r = c /\ e.seen_unflushed = c.seen_unflushed /\ e.late = c.late /\ e.ready = c.ready
    BY <1>4 DEF CheckDoes, BatchDoes
  <2>. QED BY <1>0, <1>1, <1>2, <1>4, <2>1
<1>5. CASE Staged /\ r.seen_unflushed = 0 /\ r.ready = (b.state = "READY")
  <2>1. e.late = c.late /\ e.seen_unflushed = 0 /\ e.ready = (b.state = "READY") BY <1>0, <1>5 DEF CheckDoes
  <2>2. Staged /\ e.late = c.late /\ e.seen_unflushed = 0 /\ (e.ready => b.state = "READY") BY <1>5, <2>1
  <2>3. e.ready => e.late = 0 BY <1>1, <2>2
  <2>4. e.seen_unflushed < SEEN_BATCH BY <1>0, <2>2
  <2>5. e.ready => e.late <= e.seen_unflushed BY <2>2, <2>3
  <2>. QED BY <1>1, <1>2, <1>3, <2>2, <2>4, <2>5
<1>6. CASE Staged /\ r.seen_unflushed = c.seen_unflushed + 1 /\ r.ready = c.ready /\ r.seen_unflushed < SEEN_BATCH
  <2>1. e.seen_unflushed = c.seen_unflushed + 1 /\ e.ready = c.ready /\ e.seen_unflushed < SEEN_BATCH
    BY <1>6 DEF CheckDoes
  <2>2. CASE checks /\ b.state = "OFF"
    <3>1. e.late = c.late + 1 /\ c.ready BY <1>0, <1>6, <2>2 DEF CheckDoes
    <3>. QED BY <1>0, <1>1, <1>2, <1>6, <2>1, <2>2, <3>1
  <2>3. CASE ~(checks /\ b.state = "OFF")
    <3>1. e.late = c.late BY <1>0, <1>6, <2>3 DEF CheckDoes
    <3>. QED BY <1>0, <1>1, <1>2, <1>6, <2>1, <3>1
  <2>. QED BY <2>2, <2>3
<1>. QED BY <1>4, <1>5, <1>6 DEF BatchDoes

LEMMA WorkerRowInv ==
    ASSUME Inv, NEW w \in Workers, NEW v \in SecondVals, NEW fetched \in BOOLEAN, WorkerRow(w, v, fetched)
    PROVE  Inv'
<1>1. /\ layout \in LayoutNames /\ g \in History /\ b \in hjoin_bloom /\ b # Null /\ ~env.second
      /\ env \in Env /\ env.second \in BOOLEAN /\ wk \in [Workers -> hjoin_bloom_worker \cup {Null}]
      /\ wk[w] # Null /\ g.given < MaxRows /\ UNCHANGED <<layout, stats, env>>
  BY DEF Inv, Core, Types, WorkerRow, Running, Env
<1>2. Filter(b, g, env.second) /\ FilterOK(b) /\ g.fills <= 1 /\ (g.partial => ~Staged)
  BY <1>1 DEF Inv, Core, Filter
<1>3. PICK c \in hjoin_bloom_worker : c = wk[w] /\ Worker(c) BY <1>1 DEF Inv, Core, WorkersOK
<1> DEFINE R == IF Full(Batch(wk[w])) THEN Reread(Batch(wk[w]), b) ELSE Batch(wk[w])
           H == IF Full(Batch(wk[w])) THEN [b EXCEPT !.seen = @ + Batch(wk[w]).seen_unflushed] ELSE b
           CH == ~R.disabled /\ unitseam_worker_view_of(R).ready
           K == IF unitseam_worker_view_of(R).key_regu0 THEN EarlyKeyOf(v) ELSE KeyOf[Store[v]]
           AB == CH /\ fetched /\ KeyAbsent(b, K)
           D == Checked(R, CH, fetched, AB)
<1>0. /\ wk' = [wk EXCEPT ![w] = Late(D, CH)]
      /\ b' = IF CH /\ fetched /\ LowSkip(D) THEN TurnOff(H, "OFF_LOW_SKIP") ELSE H
      /\ g' = NoteRow(Note(g, b, b', Null), v, IF AB THEN 1 ELSE 0, CH /\ fetched)
  BY DEF WorkerRow, Batch, Full, Checked, Late
<1>4. PICK r, h : r = R /\ h = H OBVIOUS
<1>5. BatchDoes(c, r, h) BY <1>1, <1>2, <1>3, <1>4, BatchStep
<1>. HIDE DEF R, H
<1>6. r \in hjoin_bloom_worker /\ r # Null BY <1>5, NullAssumption DEF BatchDoes
<1>7. PICK checks \in BOOLEAN : checks = CH /\ (checks => unitseam_worker_view_of(r).ready) BY <1>4
<1>. HIDE DEF CH
<1>8. checks => ~Staged \/ r.ready BY <1>6, <1>7 DEF unitseam_worker_view_of
<1>9. K = KeyOf[Store[v]] BY EarlyKey
<1>. HIDE DEF K
<1>10. PICK absent \in BOOLEAN : absent = AB OBVIOUS
<1>13. absent => checks /\ fetched /\ KeyAbsent(b, KeyOf[Store[v]]) BY <1>7, <1>9, <1>10
<1>. HIDE DEF AB
<1>11. PICK d : d = D /\ d = Checked(r, checks, fetched, absent) BY <1>4, <1>7, <1>10
<1>. HIDE DEF D
<1>12. PICK e : e = Late(d, checks) OBVIOUS
<1>14. CheckDoes(r, e, checks, fetched, absent) BY <1>6, <1>11, <1>12, <1>13, CheckStep
<1>15. /\ wk' = [wk EXCEPT ![w] = e]
       /\ b' = IF checks /\ fetched /\ LowSkip(d) THEN TurnOff(h, "OFF_LOW_SKIP") ELSE h
       /\ g' = NoteRow(Note(g, b, b', Null), v, IF absent THEN 1 ELSE 0, checks /\ fetched)
  BY <1>0, <1>4, <1>7, <1>10, <1>11, <1>12
<1>16. /\ Follows(b, b', Null) /\ b'.bits = b.bits /\ b'.tested = b.tested /\ b'.skipped = b.skipped
       /\ b'.seen = h.seen /\ b' \in hjoin_bloom
  <2>1. FilterOK(h) /\ h \in hjoin_bloom BY <1>5 DEF BatchDoes, Follows, Passes
  <2>2. CASE b' = h BY <1>5, <2>1, <2>2 DEF BatchDoes
  <2>3. CASE b' = TurnOff(h, "OFF_LOW_SKIP") /\ LowSkip(d)
    <3>1. Staged /\ FilterBase(h) BY <2>1, <2>3 DEF LowSkip, FilterOK
    <3>2. Follows(h, b', Null) /\ SameCounts(h, b')
      BY <1>1, <2>3, <3>1, TurnOffFollows DEF Reasons
    <3>3. b'.bits = h.bits BY <2>1, <2>3, TurnOffBits
    <3>4. Follows(b, b', Null) BY <1>1, <1>2, <1>5, <3>2, FollowsTrans DEF BatchDoes
    <3>. QED BY <1>5, <3>2, <3>3, <3>4 DEF BatchDoes, SameCounts, Follows, Passes, FilterOK, FilterBase
  <2>. QED BY <1>15, <2>2, <2>3
<1>17. PICK n : n = Note(g, b, b', Null) OBVIOUS
<1>18. NoteDoes(g, n, b, b', Null) BY <1>1, <1>16, <1>17, NoteFields
<1>19. n \in History /\ n.given < MaxRows BY <1>1, <1>18 DEF NoteDoes
<1>20. PICK ret : ret = IF absent THEN 1 ELSE 0 OBVIOUS
<1>21. PICK tests \in BOOLEAN : tests = (checks /\ fetched) OBVIOUS
<1>22. NoteRowDoes(n, g', v, ret, tests) BY <1>15, <1>17, <1>19, <1>20, <1>21, NoteRowFields
<1>23. e \in hjoin_bloom_worker /\ e # Null BY <1>14, NullAssumption DEF CheckDoes
<1>24. wk' \in [Workers -> hjoin_bloom_worker \cup {Null}] /\ wk'[w] = e /\ \A x \in Workers \ {w} : wk'[x] = wk[x]
  BY <1>1, <1>15, <1>23
<1>25. WorkersOK'
  <2>1. b'.bits = b.bits /\ (Staged /\ b'.state # "OFF" => b.state # "OFF")
    BY <1>16 DEF Follows, Passes, StateOf
  <2>2. /\ e.seen_unflushed < SEEN_BATCH /\ e.skipped <= e.tested /\ e.late < SEEN_BATCH
        /\ e.ready \/ ~Staged => b.bits # Null
        /\ ~Staged \/ b.state # "OFF" => e.late = 0
        /\ e.ready => e.late <= e.seen_unflushed
    BY <1>1, <1>3, <1>5, <1>8, <1>13, <1>14, WorkerKept
  <2>3. ASSUME NEW x \in Workers, wk'[x] # Null PROVE Worker(wk[x])'
    <3>1. CASE x = w BY <1>1, <1>24, <2>1, <2>2, <3>1 DEF Worker, Staged
    <3>2. CASE x # w
      <4>1. wk'[x] = wk[x] /\ Worker(wk[x]) BY <1>24, <2>3, <3>2 DEF Inv, Core, WorkersOK
      <4>. QED BY <1>1, <2>1, <4>1 DEF Worker, Staged
    <3>. QED BY <3>1, <3>2
  <2>. QED BY <2>3 DEF WorkersOK
<1>26. Counts'
  <2>1. /\ b.tested \in Nat /\ b.skipped \in Nat /\ b.seen \in Nat /\ b'.seen \in Nat
        /\ g.tested \in Nat /\ g.skipped \in Nat /\ g.given \in Nat
        /\ c.tested \in Nat /\ c.skipped \in Nat /\ c.seen_unflushed \in Nat
        /\ e.tested \in Nat /\ e.skipped \in Nat /\ e.seen_unflushed \in Nat
    BY <1>1, <1>16, <1>23 DEF hjoin_bloom, History, hjoin_bloom_worker
  <2>2. e.tested = (IF tests THEN c.tested + 1 ELSE c.tested) /\ e.skipped = (IF absent THEN c.skipped + 1 ELSE c.skipped)
    BY <1>5, <1>14, <1>21 DEF BatchDoes, CheckDoes
  <2>3. /\ g'.tested = (IF tests THEN g.tested + 1 ELSE g.tested)
        /\ g'.skipped = (IF absent THEN g.skipped + 1 ELSE g.skipped)
        /\ g'.given = g.given + 1
    BY <1>18, <1>20, <1>22 DEF NoteDoes, NoteRowDoes
  <2>4. b'.tested + e.tested + g.tested = b.tested + c.tested + g'.tested BY <1>16, <2>1, <2>2, <2>3
  <2>5. b'.skipped + e.skipped + g.skipped = b.skipped + c.skipped + g'.skipped BY <1>16, <2>1, <2>2, <2>3
  <2>6. Staged => b'.seen + e.seen_unflushed = b.seen + c.seen_unflushed + 1
    BY <1>5, <1>14, <1>16 DEF BatchDoes, CheckDoes
  <2>7. Staged => b'.seen + e.seen_unflushed + g.given = b.seen + c.seen_unflushed + g'.given
    BY <2>1, <2>3, <2>6
  <2>8. TestedBy'[w] = e.tested /\ SkippedBy'[w] = e.skipped /\ UnflushedBy'[w] = e.seen_unflushed
    BY <1>23, <1>24 DEF TestedBy, SkippedBy, UnflushedBy
  <2>9. g' \in History BY <1>22 DEF NoteRowDoes
  <2>10. /\ b'.tested + TestedBy'[w] + g.tested = b.tested + wk[w].tested + g'.tested
         /\ b'.skipped + SkippedBy'[w] + g.skipped = b.skipped + wk[w].skipped + g'.skipped
         /\ Staged => b'.seen + UnflushedBy'[w] + g.given = b.seen + wk[w].seen_unflushed + g'.given
    BY <1>3, <2>4, <2>5, <2>7, <2>8
  <2>11. b' \in hjoin_bloom /\ e \in hjoin_bloom_worker \cup {Null} /\ layout' = layout BY <1>1, <1>16, <1>23
  <2>. QED BY <1>1, <1>15, <2>9, <2>10, <2>11, WorkerStepCounts
<1>27. /\ g' \in History /\ g'.off = n.off /\ g'.fills = n.fills /\ g'.partial = n.partial
       /\ g'.reported = n.reported /\ g'.seenAt = n.seenAt /\ (n.forced => g'.forced)
       /\ (g'.lost => n.lost \/ (absent /\ Joins(v)))
  BY <1>20, <1>22 DEF NoteRowDoes
<1>28. n.lost = g.lost /\ n.partial = g.partial /\ n.fills = g.fills /\ n.reported = g.reported
  BY <1>16, <1>18 DEF NoteDoes, FillsNow
<1>29. g'.lost => g.lost \/ (g'.partial /\ ~Staged /\ g'.fills = 1)
  <2>1. SUFFICES ASSUME absent, Joins(v) PROVE g.partial /\ ~Staged /\ g.fills = 1 BY <1>27, <1>28
  <2>2. b.bits # Null
    <3>1. r.ready \/ ~Staged BY <1>8, <1>13, <2>1
    <3>2. CASE ~Staged BY <1>3, <3>2 DEF Worker
    <3>3. CASE Staged /\ r.ready
      <4>1. c.ready \/ b.state = "READY" BY <1>5, <3>3 DEF BatchDoes
      <4>. QED BY <1>1, <1>2, <1>3, <3>3, <4>1 DEF Worker, Filter, StateOf
    <3>. QED BY <3>1, <3>2, <3>3
  <2>3. g.partial BY <1>2, <1>13, <2>1, <2>2, AbsentJoinsNot DEF Filter
  <2>. QED BY <1>1, <1>2, <2>2, <2>3 DEF Filter
<1>30. Phase'
  <2>1. b' # Null BY <1>16, NullAssumption
  <2>2. b'.threshold = b.threshold /\ b'.first_rows = b.first_rows /\ b'.first_done = b.first_done
    BY <1>16 DEF Follows
  <2>3. ~g'.reported BY <1>1, <1>27, <1>28 DEF Inv, Core, Phase
  <2>. QED BY <1>1, <1>16, <2>1, <2>2, <2>3
    DEF Inv, Core, Phase, Staged, has_first_done, ThresholdOf, ZeroStats
<1>31. Passes(b, b', Null) BY <1>16 DEF Follows
<1>. QED BY <1>1, <1>16, <1>18, <1>24, <1>25, <1>26, <1>27, <1>29, <1>30, <1>31, StepInv

------------------------------------------------------------------------------
\* The ends of the inputs and of the execution.

LEMMA FirstRows ==
    ASSUME env \in Env
    PROVE  Cardinality(env.F) \in Nat /\ ThresholdOf(Cardinality(env.F)) \in Nat \ {0}
<1>1. env.F \in FirstInputs \cup {{}} BY DEF Env
<1>2. IsFiniteSet(env.F) BY <1>1, HjoinBloomAssumption, FS_EmptySet
<1>3. PICK n \in Nat : n = Cardinality(env.F) BY <1>2, FS_CardinalityType
<1>4. MIN_SECOND_ROWS \in Nat \ {0} /\ FIRST_PER_SECOND \in Nat \ {0} BY HjoinBloomAssumption
<1>5. n \div FIRST_PER_SECOND \in Int BY <1>4
<1>6. ThresholdOf(n) \in Nat \ {0} BY <1>4, <1>5 DEF ThresholdOf
<1>. QED BY <1>3, <1>6

LEMMA PublishFirstRowsInv ==
    ASSUME Inv, PublishFirstRows
    PROVE  Inv'
<1>1. /\ layout \in LayoutNames /\ g \in History /\ b \in hjoin_bloom /\ b # Null
      /\ env \in Env /\ env.second \in BOOLEAN /\ wk \in [Workers -> hjoin_bloom_worker \cup {Null}]
      /\ env.first = "running" /\ UNCHANGED <<layout, wk, stats, g>>
  BY DEF Inv, Core, Types, PublishFirstRows, Env
<1>2. Filter(b, g, env.second) /\ FilterOK(b) BY <1>1 DEF Inv, Core, Filter
<1>3. PICK n \in Nat, m \in Nat \ {0} : n = Cardinality(env.F) /\ m = ThresholdOf(n) BY <1>1, FirstRows
<1> DEFINE y == [b EXCEPT !.first_rows = n, !.threshold = m]
<1>4. b' = y /\ env' = [env EXCEPT !.first = "counted"] BY <1>3 DEF PublishFirstRows
<1>5. y \in hjoin_bloom BY <1>1 DEF hjoin_bloom
<1>6. /\ y.tested = b.tested /\ y.skipped = b.skipped /\ y.seen = b.seen
      /\ y.bits = b.bits /\ y.set_up = b.set_up /\ y.state = b.state
      /\ y.off_reason = b.off_reason /\ y.key = b.key /\ y.keys = b.keys
      /\ y.built = b.built /\ y.disabled = b.disabled /\ y.owner_thread = b.owner_thread
      /\ y.first_rows = n /\ y.threshold = m /\ y.first_done = b.first_done
  BY <1>1, <1>5 DEF hjoin_bloom
<1>. HIDE DEF y
<1>7. FilterOK(y) BY <1>2, <1>5, <1>6 DEF FilterOK, FilterBase, StateOf, ReasonOf
<1>8. Passes(b, b', Null) BY <1>4, <1>6, <1>7 DEF Passes, StateOf, ReasonOf
<1>9. NoteDoes(g, g, b, b', Null)
  BY <1>1, <1>2, <1>4, <1>6 DEF NoteDoes, FillsNow, Filter, FilterOK, FilterBase, ReasonOf, StateOf
<1>10. WorkersOK' BY <1>1, <1>8, WorkersKeep DEF Inv, Core
<1>11. Counts' BY <1>1, <1>4, <1>6, QuietCounts DEF Inv, SameCounts
<1>12. env' \in Env /\ env'.F = env.F /\ env'.first = "counted" /\ env'.second = env.second /\ env'.shared = env.shared
  BY <1>1, <1>4 DEF Env
<1>13. Phase'
  <2>1. has_first_done BY <1>1 DEF Inv, Core, Phase
  <2>2. y # Null BY <1>5, NullAssumption
  <2>. QED BY <1>1, <1>3, <1>4, <1>6, <1>12, <2>1, <2>2
    DEF Inv, Core, Phase, Staged, has_first_done, ThresholdOf, ZeroStats
<1>14. b'.bits = b.bits /\ (g'.lost => g.lost) BY <1>1, <1>4, <1>6
<1>. QED BY <1>1, <1>8, <1>9, <1>10, <1>11, <1>12, <1>13, <1>14, StepInv

LEMMA PublishFirstDoneInv ==
    ASSUME Inv, NEW ok \in BOOLEAN, PublishFirstDone(ok)
    PROVE  Inv'
<1>1. /\ layout \in LayoutNames /\ g \in History /\ b \in hjoin_bloom /\ b # Null
      /\ env \in Env /\ env.second \in BOOLEAN /\ wk \in [Workers -> hjoin_bloom_worker \cup {Null}]
      /\ env.first = "counted" /\ env' = [env EXCEPT !.first = "done"] /\ UNCHANGED <<layout, wk, stats>>
      /\ g' = Note(g, b, b', Null)
  BY DEF Inv, Core, Types, PublishFirstDone, Env
<1>2. Filter(b, g, env.second) /\ FilterOK(b) BY <1>1 DEF Inv, Core, Filter
<1>3. has_first_done /\ Staged BY <1>1 DEF Inv, Core, Phase, has_first_done, Staged
<1> DEFINE y == [b EXCEPT !.first_done = 1]
<1>4. b' = y \/ b' = TurnOff(y, "OFF_FIRST_ROWS") BY DEF PublishFirstDone
<1>5. y \in hjoin_bloom BY <1>1 DEF hjoin_bloom
<1>6. /\ y.tested = b.tested /\ y.skipped = b.skipped /\ y.seen = b.seen
      /\ y.bits = b.bits /\ y.set_up = b.set_up /\ y.state = b.state
      /\ y.off_reason = b.off_reason /\ y.key = b.key /\ y.keys = b.keys
      /\ y.built = b.built /\ y.disabled = b.disabled /\ y.owner_thread = b.owner_thread
      /\ y.first_rows = b.first_rows /\ y.threshold = b.threshold /\ y.first_done = 1
  BY <1>1, <1>5 DEF hjoin_bloom
<1>. HIDE DEF y
<1>7. FilterOK(y) BY <1>2, <1>5, <1>6 DEF FilterOK, FilterBase, StateOf, ReasonOf
<1>8. Passes(b, y, Null) /\ SameCounts(b, y) BY <1>6, <1>7 DEF Passes, StateOf, ReasonOf, SameCounts
<1>9. /\ Follows(y, b', Null) /\ SameCounts(y, b') /\ b'.bits = y.bits
  <2>1. CASE b' = y BY <1>1, <1>7, <2>1, FollowsSelf DEF SameCounts
  <2>2. CASE b' = TurnOff(y, "OFF_FIRST_ROWS")
    <3>1. FilterBase(y) BY <1>7 DEF FilterOK
    <3>. QED BY <1>1, <1>3, <1>5, <2>2, <3>1, TurnOffFollows, TurnOffBits DEF Reasons
  <2>. QED BY <1>4, <2>1, <2>2
<1>10. b'.first_rows = b.first_rows /\ b'.threshold = b.threshold /\ b'.first_done = 1 BY <1>6, <1>9 DEF Follows
<1>11. Passes(b, b', Null) /\ SameCounts(b, b') /\ b'.bits = b.bits
  <2>1. Passes(y, b', Null) BY <1>9 DEF Follows
  <2>2. b' \in hjoin_bloom BY <2>1 DEF Passes, FilterOK, FilterBase
  <2>3. StateOf(b) \in States /\ StateOf(y) \in States /\ StateOf(b') \in States
    BY <1>1, <1>5, <2>2, StateIn
  <2>4. Passes(b, b', Null) BY <1>6, <1>8, <1>9, <2>1, <2>3 DEF Passes, States
  <2>. QED BY <1>6, <1>8, <1>9, <2>4 DEF SameCounts
<1>12. b' \in hjoin_bloom /\ b' # Null BY <1>11, NullAssumption DEF Passes, FilterOK, FilterBase
<1>13. NoteDoes(g, g', b, b', Null) BY <1>1, <1>12, NoteFields
<1>14. WorkersOK' BY <1>1, <1>11, WorkersKeep DEF Inv, Core
<1>15. Counts' BY <1>1, <1>11, <1>13, QuietCounts DEF Inv, NoteDoes
<1>16. env' \in Env /\ env'.F = env.F /\ env'.first = "done" /\ env'.second = env.second /\ env'.shared = env.shared
  BY <1>1 DEF Env
<1>17. g' \in History /\ (g'.lost => g.lost) /\ g'.reported = g.reported BY <1>13 DEF NoteDoes
<1>18. Phase'
  BY <1>1, <1>3, <1>10, <1>12, <1>16, <1>17
    DEF Inv, Core, Phase, Staged, has_first_done, ThresholdOf, ZeroStats
<1>. QED BY <1>1, <1>11, <1>13, <1>14, <1>15, <1>16, <1>17, <1>18, StepInv

LEMMA SecondDoneInv ==
    ASSUME Inv, SecondDone
    PROVE  Inv'
<1>1. /\ layout \in LayoutNames /\ g \in History /\ b \in hjoin_bloom /\ b # Null /\ ~env.second
      /\ env \in Env /\ env.second \in BOOLEAN /\ wk \in [Workers -> hjoin_bloom_worker \cup {Null}]
      /\ has_first_done /\ (\A w \in Workers : wk[w] = Null)
      /\ env' = [env EXCEPT !.second = TRUE] /\ UNCHANGED <<layout, wk, stats>>
  BY DEF Inv, Core, Types, SecondDone, Running, Env
<1>2. Filter(b, g, env.second) /\ FilterOK(b) /\ FilterBase(b) /\ g.fills <= 1 /\ (g.partial => ~Staged) /\ Staged
  BY <1>1 DEF Inv, Core, Filter, FilterOK, has_first_done, Staged
<1>3. PICK y : /\ y = IF b.state = "WAITING" /\ b.first_done = 0 THEN TurnOff(b, "FIRST_LATE") ELSE b
               /\ b' = [y EXCEPT !.bits = Null, !.key = FALSE] /\ g' = Note(g, b, y, Null)
  BY DEF SecondDone
<1>4. Follows(b, y, Null) /\ SameCounts(b, y) /\ y.bits = b.bits
  <2>1. CASE y = b BY <1>1, <1>2, <2>1, FollowsSelf DEF SameCounts
  <2>2. CASE y = TurnOff(b, "FIRST_LATE") BY <1>1, <1>2, <2>2, TurnOffFollows, TurnOffBits DEF Reasons
  <2>. QED BY <1>3, <2>1, <2>2
<1>5. y \in hjoin_bloom BY <1>4 DEF Follows, Passes, FilterOK, FilterBase
<1>6. NoteDoes(g, g', b, y, Null) BY <1>1, <1>3, <1>5, NoteFields
<1>7. Filter(y, g', env.second) /\ g'.fills <= 1 /\ (g'.partial => ~Staged)
  <2>1. Passes(b, y, Null) BY <1>4 DEF Follows
  <2>. QED BY <1>1, <1>2, <1>4, <1>6, <2>1, FilterNote
<1>8. b' \in hjoin_bloom BY <1>3, <1>5 DEF hjoin_bloom
<1>9. b' # Null BY <1>8, NullAssumption
<1>10. /\ b'.tested = y.tested /\ b'.skipped = y.skipped /\ b'.seen = y.seen
       /\ b'.bits = Null /\ b'.set_up = y.set_up /\ b'.state = y.state
       /\ b'.off_reason = y.off_reason /\ b'.keys = y.keys
       /\ b'.built = y.built /\ b'.disabled = y.disabled /\ b'.owner_thread = y.owner_thread
       /\ b'.first_rows = y.first_rows /\ b'.threshold = y.threshold /\ b'.first_done = y.first_done
  BY <1>3, <1>5, <1>8 DEF hjoin_bloom
<1>11. env' \in Env /\ env'.F = env.F /\ env'.first = env.first /\ env'.second /\ env'.shared = env.shared
  BY <1>1 DEF Env
<1>12. Filter(b', g', TRUE)
  <2>1. FilterOK(b') BY <1>1, <1>7, <1>8, <1>10 DEF Filter, FilterOK, FilterBase, StateOf, ReasonOf
  <2>. QED BY <1>7, <1>10, <2>1 DEF Filter, StateOf, ReasonOf
<1>13. Filter(b, g, env.second)'
  BY <1>1, <1>11, <1>12 DEF Filter, FilterOK, FilterBase, StateOf, ReasonOf, Staged, has_first_done
<1>14. /\ g' \in History /\ g'.lost = g.lost /\ g'.reported = g.reported /\ g'.fills = g.fills
       /\ g'.partial = g.partial /\ g'.seenAt = g.seenAt /\ g'.forced = g.forced
       /\ g'.tested = g.tested /\ g'.skipped = g.skipped /\ g'.given = g.given
  BY <1>4, <1>6 DEF NoteDoes, FillsNow
<1>15. Phase'
  <2>1. b'.first_rows = b.first_rows /\ b'.threshold = b.threshold /\ b'.first_done = b.first_done
    BY <1>4, <1>10 DEF Follows
  <2>. QED BY <1>1, <1>2, <1>9, <1>11, <1>14, <2>1
    DEF Inv, Core, Phase, Staged, has_first_done, ThresholdOf, ZeroStats
<1>16. WorkersOK' BY <1>1 DEF WorkersOK
<1>17. Types' BY <1>1, <1>8, <1>11, <1>14 DEF Inv, Core, Types
<1>18. Core' BY <1>1, <1>7, <1>13, <1>15, <1>16, <1>17 DEF Core, Staged
<1>19. Counts'
  <2>1. SameCounts(b, b') BY <1>4, <1>10 DEF SameCounts
  <2>. QED BY <1>1, <1>14, <2>1, QuietCounts DEF Inv
<1>20. Report' /\ OutcomeTruthful'
  <2>1. ~g'.reported BY <1>1, <1>14 DEF Inv, Core, Phase
  <2>. QED BY <2>1, Unreported
<1>21. JoiningRowKept' /\ (g'.lost => g'.fills = 1) BY <1>1, <1>14 DEF Inv, JoiningRowKept, Staged
<1>22. FilledOnceAtThreshold' BY <1>1, <1>11, <1>14 DEF Inv, FilledOnceAtThreshold, Staged, ThresholdOf
<1>. QED BY <1>18, <1>19, <1>20, <1>21, <1>22 DEF Inv

LEMMA NewTypes == ZeroStats \in Stats /\ NewHistory \in History
<1>1. 0 \in 0 .. MaxRows BY HjoinBloomAssumption
<1>2. NewHistory \in History BY <1>1 DEF NewHistory, History, Reasons
<1>3. ZeroStats \in Stats BY DEF ZeroStats, Stats, Ends, Reasons
<1>. QED BY <1>2, <1>3

\* A step after which no filter is there and nothing is reported.
LEMMA NoFilter ==
    ASSUME Types', b' = Null, \A w \in Workers : wk'[w] = Null, g' = NewHistory,
           (~has_first_done => env.first \in {"none", "done"} /\ ~env.second)'
    PROVE  Inv'
<1>1. /\ ~g'.reported /\ g'.fills = 0 /\ ~g'.lost /\ ~g'.partial BY DEF NewHistory
<1>2. Core' BY <1>1 DEF Core, Phase, WorkersOK
<1>3. Counts' BY DEF Counts
<1>4. JoiningRowKept' /\ FilledOnceAtThreshold' BY <1>1 DEF JoiningRowKept, FilledOnceAtThreshold
<1>5. Report' /\ OutcomeTruthful' BY <1>1, Unreported
<1>. QED BY <1>1, <1>2, <1>3, <1>4, <1>5 DEF Inv

LEMMA StaleInv ==
    ASSUME Inv, unitseam_bloom_stats_stale
    PROVE  Inv'
<1>1. /\ b = Null /\ UNCHANGED <<layout, b, wk>> /\ g' = NewHistory /\ env' = [env EXCEPT !.first = "none"]
      /\ Types
  BY DEF Inv, Core, unitseam_bloom_stats_stale
<1>2. stats' \in Stats BY DEF unitseam_bloom_stats_stale, ZeroStats, Stats, Ends, Reasons
<1>3. env' \in Env /\ env'.first = "none" /\ env'.second = env.second BY <1>1 DEF Types, Env
<1>4. Types' BY <1>1, <1>2, <1>3, NewTypes DEF Types
<1>5. \A w \in Workers : wk'[w] = Null BY <1>1 DEF Inv, Core, Phase
<1>6. (~has_first_done => env.first \in {"none", "done"} /\ ~env.second)'
  BY <1>1, <1>3 DEF Inv, Core, Phase, has_first_done
<1>. QED BY <1>1, <1>4, <1>5, <1>6, NoFilter

LEMMA AttachInv ==
    ASSUME Inv, NEW F \in FirstInputs, NEW regus \in BOOLEAN, Attach(F, regus)
    PROVE  Inv'
<1>1. /\ b = Null /\ stats' = ZeroStats /\ g' = NewHistory /\ UNCHANGED <<layout, wk>> /\ Types
      /\ env' = [F |-> F, first |-> IF has_first_done THEN "running" ELSE "done",
                  second |-> FALSE, shared |-> FALSE]
      /\ b' = Null \/ b' = NewBloom(Cardinality(F), regus)
  BY DEF Inv, Core, Attach
<1>2. env' \in Env /\ env'.F = F /\ ~env'.second /\ ~env'.shared
      /\ env'.first = IF has_first_done THEN "running" ELSE "done"
  BY <1>1 DEF Env
<1>3. \A w \in Workers : wk'[w] = Null BY <1>1 DEF Inv, Core, Phase
<1>4. CASE b' = Null
  <2>1. Types' BY <1>1, <1>2, <1>4, NewTypes DEF Types
  <2>2. (~has_first_done => env.first \in {"none", "done"} /\ ~env.second)' BY <1>1, <1>2 DEF has_first_done
  <2>. QED BY <1>1, <1>3, <1>4, <2>1, <2>2, NoFilter
<1>5. CASE b' = NewBloom(Cardinality(F), regus)
  <2>1. layout \in LayoutNames /\ layout' = layout BY <1>1 DEF Types
  <2>2. PICK n \in Nat, m \in Nat \ {0} : n = Cardinality(F) /\ m = ThresholdOf(n)
    <3>1. IsFiniteSet(F) BY HjoinBloomAssumption
    <3>2. PICK n \in Nat : n = Cardinality(F) BY <3>1, FS_CardinalityType
    <3>3. MIN_SECOND_ROWS \in Nat \ {0} /\ FIRST_PER_SECOND \in Nat \ {0} BY HjoinBloomAssumption
    <3>4. n \div FIRST_PER_SECOND \in Int BY <3>3
    <3>5. ThresholdOf(n) \in Nat \ {0} BY <3>3, <3>4 DEF ThresholdOf
    <3>. QED BY <3>2, <3>5
  <2>3. MIN_SECOND_ROWS \in Nat \ {0} /\ "owner" \in Threads BY HjoinBloomAssumption
  <2>4. b' \in hjoin_bloom
    BY <1>5, <2>2, <2>3 DEF NewBloom, hjoin_bloom, States, Reasons, has_first_done, has_key_regus
  <2>5. b' # Null BY <2>4, NullAssumption
  <2>6. /\ b'.bits = Null /\ b'.state = "WAITING" /\ ~b'.built /\ b'.skipped = 0 /\ b'.tested = 0 /\ b'.seen = 0
        /\ b'.keys = 0 /\ ~b'.set_up /\ b'.first_done = 0
        /\ ~has_first_done => b'.first_rows = n /\ b'.threshold = m
    BY <1>5, <2>2 DEF NewBloom
  <2>7. /\ ~g'.reported /\ g'.fills = 0 /\ ~g'.lost /\ ~g'.partial /\ g'.off = "NONE"
        /\ g'.tested = 0 /\ g'.skipped = 0 /\ g'.given = 0
    BY <1>1 DEF NewHistory
  <2>8. Types' BY <1>1, <1>2, <2>4, NewTypes DEF Types
  <2>9. StateOf(b') = "WAITING" BY <2>6 DEF StateOf
  <2>10. FilterOK(b') BY <2>4, <2>6, <2>9 DEF FilterOK, FilterBase
  <2>11. Filter(b', g', FALSE) BY <2>6, <2>7, <2>9, <2>10 DEF Filter, ReasonOf
  <2>12. Filter(b, g, env.second)'
    BY <1>2, <2>1, <2>6, <2>11 DEF Filter, FilterOK, FilterBase, StateOf, ReasonOf, Staged, has_first_done
  <2>13. Phase'
    <3>1. ~has_first_done => env'.first = "done" /\ b'.threshold = ThresholdOf(Cardinality(F)) /\ b'.first_rows = Cardinality(F)
      BY <1>2, <2>2, <2>6
    <3>2. has_first_done => env'.first = "running" /\ b'.first_done = 0 BY <1>2, <2>6
    <3>. QED BY <1>1, <1>2, <1>3, <2>1, <2>5, <2>7, <3>1, <3>2 DEF Phase, Staged, has_first_done, ThresholdOf, ZeroStats
  <2>14. Core' BY <1>3, <2>7, <2>8, <2>12, <2>13 DEF Core, WorkersOK
  <2>15. Counts'
    <3>1. \A w \in Workers : wk[w] = Null BY <1>1, <1>3
    <3>2. /\ SumOver(TestedBy, Workers) = 0 /\ SumOver(SkippedBy, Workers) = 0
          /\ SumOver(UnflushedBy, Workers) = 0
      BY <3>1, SumsZero
    <3>. QED BY <1>1, <2>6, <2>7, <3>2, SameSums DEF Counts
  <2>16. JoiningRowKept' /\ FilledOnceAtThreshold' BY <2>7 DEF JoiningRowKept, FilledOnceAtThreshold
  <2>17. Report' /\ OutcomeTruthful' BY <2>7, Unreported
  <2>. QED BY <2>7, <2>14, <2>15, <2>16, <2>17 DEF Inv
<1>. QED BY <1>1, <1>4, <1>5

\* The filter's end, as the report names it.
LEMMA OutcomeIs ==
    ASSUME b \in hjoin_bloom, Staged, FilterOK(b)
    PROVE  /\ Outcome \in Ends
           /\ StateOf(b) = "OFF" => Outcome = ReasonOf(b) /\ Outcome \in Reasons
           /\ StateOf(b) = "READY" => Outcome = "CHECKED"
           /\ StateOf(b) = "WAITING" =>
                Outcome = IF has_key_regus /\ b.first_done = 1 /\ b.seen >= b.threshold
                          THEN "ENDED_FIRST" ELSE "NOT_BUILT"
<1>1. b.state \in States /\ b.off_reason \in Reasons BY DEF hjoin_bloom
<1>2. CASE b.state = "OFF" BY <1>1, <1>2 DEF Outcome, StateOf, ReasonOf, Ends
<1>3. CASE b.state = "READY" BY <1>1, <1>3 DEF Outcome, StateOf, ReasonOf, Ends
<1>4. CASE b.state = "WAITING" BY <1>1, <1>4 DEF Outcome, StateOf, ReasonOf, Ends
<1>. QED BY <1>1, <1>2, <1>3, <1>4 DEF States

LEMMA FinishInv ==
    ASSUME Inv, Finish
    PROVE  Inv'
<1>1. /\ layout \in LayoutNames /\ g \in History /\ b \in hjoin_bloom /\ b # Null
      /\ env \in Env /\ env.second \in BOOLEAN /\ wk \in [Workers -> hjoin_bloom_worker \cup {Null}]
      /\ (\A w \in Workers : wk[w] = Null) /\ b' = Null /\ g' = [g EXCEPT !.reported = TRUE]
      /\ UNCHANGED <<layout, wk, env>> /\ (has_first_done => env.second /\ env.first = "done")
  BY DEF Inv, Core, Types, Finish, Env
<1>2. Filter(b, g, env.second) /\ FilterOK(b) /\ g.fills <= 1 /\ (g.partial => ~Staged)
  BY <1>1 DEF Inv, Core, Filter
<1>3. /\ g' \in History /\ g'.reported /\ g'.lost = g.lost /\ g'.fills = g.fills
      /\ g'.partial = g.partial /\ g'.seenAt = g.seenAt /\ g'.forced = g.forced /\ g'.off = g.off
      /\ g'.tested = g.tested /\ g'.skipped = g.skipped /\ g'.given = g.given
  BY <1>1 DEF History
<1>4. /\ b.tested \in Nat /\ b.skipped \in Nat /\ b.seen \in Nat /\ b.keys \in Nat /\ b.threshold \in Nat
      /\ MaxRows \in Nat /\ g.given \in 0 .. MaxRows /\ g.fills \in Nat /\ StateOf(b) \in States
  BY <1>1, HjoinBloomAssumption, StateIn DEF hjoin_bloom, History
<1>5. b.tested = g.tested /\ b.skipped = g.skipped /\ (Staged => b.seen = g.given)
  <2>1. /\ SumOver(TestedBy, Workers) = 0 /\ SumOver(SkippedBy, Workers) = 0
        /\ SumOver(UnflushedBy, Workers) = 0
    BY <1>1, SumsZero
  <2>. QED BY <1>1, <1>4, <2>1 DEF Inv, Counts
<1>6. CASE Staged
  <2>1. PICK end : end = Outcome OBVIOUS
  <2>2. end \in Ends BY <1>1, <1>2, <1>6, <2>1, OutcomeIs
  <2>3. stats' = [attached |-> TRUE, state |-> end, threshold |-> b.threshold, seen |-> b.seen,
                  keys |-> b.keys, tested |-> b.tested, skipped |-> b.skipped, used |-> FALSE]
    BY <1>6, <2>1 DEF Finish, ZeroStats
  <2>4. stats' \in Stats BY <1>4, <2>2, <2>3 DEF Stats
  <2>5. Types' BY <1>1, <1>3, <2>4 DEF Types
  <2>6. /\ stats'.attached /\ stats'.state = end /\ stats'.seen = b.seen
        /\ stats'.keys = b.keys /\ stats'.tested = b.tested /\ stats'.skipped = b.skipped
    BY <2>3
  <2>7. Report'
    <3>1. stats'.seen <= MaxRows BY <1>4, <1>5, <1>6, <2>6
    <3>2. b.keys = 0 \/ g.fills = 1 BY <1>2 DEF Filter
    <3>. QED BY <1>1, <1>3, <1>5, <1>6, <2>6, <3>1, <3>2 DEF Report
  <2>8. OutcomeTruthful'
    <3>1. /\ end = "CHECKED" <=> g.fills = 1 /\ g.off = "NONE"
          /\ g.off # "NONE" => end = g.off
          /\ end = "NOT_BUILT" => g.fills = 0 /\ g.off = "NONE"
          /\ end = "ENDED_FIRST" =>
               has_key_regus /\ b.first_done = 1 /\ b.seen >= b.threshold /\ g.fills = 0 /\ g.off = "NONE"
          /\ has_key_regus /\ b.first_done = 1 /\ b.seen >= b.threshold /\ g.fills = 0 /\ g.off = "NONE" =>
               end = "ENDED_FIRST"
      <4>1. CASE StateOf(b) = "OFF"
        <5>1. end = g.off /\ end \in Reasons /\ end # "NONE"
          BY <1>1, <1>2, <1>6, <2>1, <4>1, OutcomeIs DEF Filter, FilterOK, FilterBase
        <5>. QED BY <5>1 DEF Reasons
      <4>2. CASE StateOf(b) = "READY"
        <5>1. end = "CHECKED" /\ g.fills = 1 /\ g.off = "NONE"
          BY <1>1, <1>2, <1>6, <2>1, <4>2, OutcomeIs DEF Filter, ReasonOf
        <5>. QED BY <5>1
      <4>3. CASE StateOf(b) = "WAITING"
        <5>1. /\ end = IF has_key_regus /\ b.first_done = 1 /\ b.seen >= b.threshold
                       THEN "ENDED_FIRST" ELSE "NOT_BUILT"
              /\ g.fills = 0 /\ g.off = "NONE"
          BY <1>1, <1>2, <1>6, <2>1, <4>3, OutcomeIs DEF Filter, ReasonOf
        <5>. QED BY <5>1
      <4>. QED BY <1>4, <4>1, <4>2, <4>3 DEF States
    <3>2. has_key_regus => /\ b.first_done = 1 /\ env.first = "done"
                           /\ (b.seen >= b.threshold <=> g.given >= ThresholdOf(Cardinality(env.F)))
      BY <1>1, <1>5, <1>6 DEF Inv, Core, Phase, has_key_regus, has_first_done
    <3>3. ~has_key_regus => end # "ABSENT_ENDED_FIRST" BY <2>2 DEF Ends, Reasons
    <3>. HIDE DEF Finish
    <3>4. /\ unitseam_bloom_stats_of(stats)'.shown /\ unitseam_bloom_stats_of(stats)'.outcome = end
          /\ unitseam_bloom_consts_of'.out_checked = "CHECKED"
          /\ unitseam_bloom_consts_of'.out_not_built = "NOT_BUILT"
          /\ unitseam_bloom_consts_of'.out_ended_first = IF has_key_regus THEN "ENDED_FIRST" ELSE "ABSENT_ENDED_FIRST"
          /\ unitseam_bloom_consts_of'.early = has_key_regus
      BY <1>1, <1>6, <2>6 DEF unitseam_bloom_stats_of, unitseam_bloom_consts_of, StandIn, Staged, has_key_regus
    <3>5. Staged' /\ env' = env BY <1>1, <1>6 DEF Staged
    <3>6. CASE has_key_regus
      BY <1>3, <3>1, <3>2, <3>4, <3>5, <3>6 DEF OutcomeTruthful, ThresholdOf
    <3>7. CASE ~has_key_regus
      BY <1>3, <3>1, <3>3, <3>4, <3>5, <3>7 DEF OutcomeTruthful, ThresholdOf
    <3>. QED BY <3>6, <3>7
  <2>9. Core'
    BY <1>1, <1>2, <1>3, <2>5 DEF Inv, Core, Phase, WorkersOK, Staged, has_first_done
  <2>. QED BY <1>1, <1>3, <2>7, <2>8, <2>9
    DEF Inv, Counts, JoiningRowKept, FilledOnceAtThreshold, Staged, ThresholdOf
<1>7. CASE ~Staged
  <2>1. PICK s : s = stats' OBVIOUS
  <2>2. /\ s = IF StateOf(b) = "READY"
                THEN [attached |-> FALSE, state |-> "NONE", threshold |-> 0, seen |-> 0,
                      keys |-> b.keys, tested |-> b.tested, skipped |-> b.skipped, used |-> TRUE]
                ELSE ZeroStats
    <3>1. StateOf(b) = "READY" <=> b.built /\ ~b.disabled BY <1>1, <1>7 DEF StateOf, hjoin_bloom
    <3>2. CASE b.built /\ ~b.disabled
      <4>1. s = [[ZeroStats EXCEPT !.keys = b.keys, !.tested = b.tested, !.skipped = b.skipped] EXCEPT !.used = TRUE]
        BY <1>7, <2>1, <3>2 DEF Finish
      <4>2. s = [attached |-> FALSE, state |-> "NONE", threshold |-> 0, seen |-> 0,
                 keys |-> b.keys, tested |-> b.tested, skipped |-> b.skipped, used |-> TRUE]
        BY <4>1 DEF ZeroStats
      <4>. QED BY <3>1, <3>2, <4>2
    <3>3. CASE ~(b.built /\ ~b.disabled) BY <1>7, <2>1, <3>1, <3>3 DEF Finish
    <3>. QED BY <3>2, <3>3
  <2>3. s \in Stats BY <1>4, <2>2, NewTypes DEF Stats, Ends, Reasons
  <2>4. Types' BY <1>1, <1>3, <2>1, <2>3 DEF Types
  <2>5. /\ s.used <=> StateOf(b) = "READY"
        /\ s.used => s.keys = b.keys /\ s.tested = b.tested /\ s.skipped = b.skipped
        /\ s.seen = 0
    BY <2>2 DEF ZeroStats
  <2>6. Report'
    <3>1. b.keys = 0 \/ g.fills = 1 BY <1>2 DEF Filter
    <3>2. unitseam_bloom_stats_of(stats)'.shown <=> s.used BY <1>1, <1>7, <2>1 DEF unitseam_bloom_stats_of, Staged
    <3>. QED BY <1>1, <1>3, <1>4, <1>5, <1>7, <2>1, <2>5, <3>1, <3>2 DEF Report, Staged
  <2>7. OutcomeTruthful'
    <3>1. StateOf(b) = "READY" <=> g.fills = 1 /\ g.off = "NONE"
      BY <1>2, <1>4 DEF Filter, FilterOK, FilterBase, ReasonOf, States
    <3>2. unitseam_bloom_stats_of(stats)'.shown <=> s.used BY <1>1, <1>7, <2>1 DEF unitseam_bloom_stats_of, Staged
    <3>. QED BY <1>1, <1>3, <1>7, <2>5, <3>1, <3>2 DEF OutcomeTruthful, Staged
  <2>8. Core'
    BY <1>1, <1>2, <1>3, <2>4 DEF Inv, Core, Phase, WorkersOK, Staged, has_first_done
  <2>. QED BY <1>1, <1>3, <2>6, <2>7, <2>8
    DEF Inv, Counts, JoiningRowKept, FilledOnceAtThreshold, Staged, ThresholdOf
<1>. QED BY <1>6, <1>7

------------------------------------------------------------------------------
\* The theorems.

LEMMA InitInv ==
    ASSUME Init
    PROVE  Inv
<1>1. /\ layout \in LayoutNames /\ b = Null /\ wk = [w \in Workers |-> Null] /\ stats = ZeroStats
      /\ g = NewHistory /\ env = [F |-> {}, first |-> "none", second |-> FALSE, shared |-> FALSE]
  BY HjoinBloomAssumption DEF Init, LayoutNames
<1>2. env \in Env /\ env.first = "none" /\ ~env.second BY <1>1 DEF Env
<1>3. Types BY <1>1, <1>2, NewTypes DEF Types
<1>4. /\ ~g.reported /\ g.fills = 0 /\ ~g.lost /\ ~g.partial BY <1>1 DEF NewHistory
<1>5. Core BY <1>1, <1>2, <1>3, <1>4 DEF Core, Phase, WorkersOK
<1>6. Counts /\ Report /\ OutcomeTruthful BY <1>1, <1>4 DEF Counts, Report, OutcomeTruthful
<1>7. JoiningRowKept /\ FilledOnceAtThreshold BY <1>4 DEF JoiningRowKept, FilledOnceAtThreshold
<1>. QED BY <1>4, <1>5, <1>6, <1>7 DEF Inv

LEMMA NextInv ==
    ASSUME Inv, Next
    PROVE  Inv'
<1>1. CASE \E F \in FirstInputs, regus \in BOOLEAN : Attach(F, regus) BY <1>1, AttachInv
<1>2. CASE \E t \in Threads, v \in SecondVals, o \in Outcomes : OwnerRow(t, v, o) BY <1>2, OwnerRowInv
<1>3. CASE \E t \in Threads, o \in Outcomes : hjoin_bloom_prepare(t, o) BY <1>3, PrepareInv
<1>4. CASE \E t \in Threads, o \in Outcomes : hjoin_bloom_poll(t, o) BY <1>4, PollInv
<1>5. CASE \E o \in Outcomes : unitseam_bloom_fill_now(o) BY <1>5, FillNowInv
<1>6. CASE \E v \in SecondVals, fetched \in BOOLEAN : CheckBound(v, fetched) BY <1>6, CheckBoundInv
<1>7. CASE \E n \in 0 .. MaxRows : unitseam_bloom_set_seen(n) BY <1>7, SetSeenInv
<1>8. CASE \E w \in Workers, plain \in BOOLEAN : WorkerBegin(w, plain) BY <1>8, WorkerBeginInv
<1>9. CASE \E w \in Workers : WorkerEnd(w) BY <1>9, WorkerEndInv
<1>10. CASE \E w \in Workers, v \in SecondVals, fetched \in BOOLEAN : WorkerRow(w, v, fetched)
  BY <1>10, WorkerRowInv
<1>11. CASE PublishFirstRows BY <1>11, PublishFirstRowsInv
<1>12. CASE \E ok \in BOOLEAN : PublishFirstDone(ok) BY <1>12, PublishFirstDoneInv
<1>13. CASE SecondDone BY <1>13, SecondDoneInv
<1>14. CASE Finish BY <1>14, FinishInv
<1>15. CASE unitseam_bloom_stats_stale BY <1>15, StaleInv
<1>. QED BY <1>1, <1>2, <1>3, <1>4, <1>5, <1>6, <1>7, <1>8, <1>9, <1>10, <1>11, <1>12, <1>13, <1>14, <1>15 DEF Next

LEMMA StutterInv ==
    ASSUME Inv, UNCHANGED vars
    PROVE  Inv'
<1>1. /\ layout' = layout /\ b' = b /\ wk' = wk /\ stats' = stats /\ env' = env /\ g' = g BY DEF vars
<1>2. Core'
  <2>1. Types' BY <1>1 DEF Inv, Core, Types
  <2>2. b' # Null => Filter(b, g, env.second)'
    BY <1>1 DEF Inv, Core, Filter, FilterOK, FilterBase, StateOf, ReasonOf, Staged, has_first_done
  <2>3. Phase' BY <1>1 DEF Inv, Core, Phase, Staged, has_first_done
  <2>4. WorkersOK' BY <1>1 DEF Inv, Core, WorkersOK, Worker, Staged
  <2>. QED BY <1>1, <2>1, <2>2, <2>3, <2>4 DEF Inv, Core, Staged
<1>3. Counts' BY <1>1, SameSums DEF Inv, Counts, Staged
<1>4. Report' BY <1>1 DEF Inv, Report, unitseam_bloom_stats_of, unitseam_bloom_consts_of, Staged
<1>5. JoiningRowKept' /\ (g'.lost => g'.fills = 1) /\ FilledOnceAtThreshold'
  BY <1>1 DEF Inv, JoiningRowKept, FilledOnceAtThreshold, Staged
<1>6. OutcomeTruthful'
  <2>1. unitseam_bloom_consts_of' = unitseam_bloom_consts_of
    BY <1>1 DEF unitseam_bloom_consts_of, Staged, has_first_done, has_key_regus
  <2>2. unitseam_bloom_stats_of(stats)' = unitseam_bloom_stats_of(stats)
    BY <1>1, <2>1 DEF unitseam_bloom_stats_of, Staged
  <2>. QED BY <1>1, <2>1, <2>2 DEF Inv, OutcomeTruthful, Staged
<1>. QED BY <1>2, <1>3, <1>4, <1>5, <1>6 DEF Inv

\* The invariant holds in every execution: for any layout, any inputs and any
\* interleaving of the owner, the workers and the first input's thread.
THEOREM InvHolds == Spec => []Inv
<1>1. Init => Inv BY InitInv
<1>2. Inv /\ [Next]_vars => Inv' BY NextInv, StutterInv
<1>. QED BY <1>1, <1>2, PTL DEF Spec

\* No layout's view is ever malformed: a report counts no more rows than were
\* given, and a filter that says READY has its key and bits while rows come.
THEOREM TypeHolds == Spec => []TypeOK
<1>1. ASSUME Inv PROVE TypeOK
  <2>1. /\ Types /\ layout \in LayoutNames /\ g \in History /\ env \in Env /\ stats \in Stats
        /\ MaxRows \in Nat /\ SEEN_BATCH \in Nat /\ Staged \in BOOLEAN
    BY <1>1, HjoinBloomAssumption DEF Inv, Core, Types, Staged
  <2>2. unitseam_bloom_stats_of(stats) \in unitseam_stats_view \/ ~g.reported
    <3>1. SUFFICES ASSUME g.reported PROVE unitseam_bloom_stats_of(stats) \in unitseam_stats_view OBVIOUS
    <3>2. /\ stats.seen \in 0 .. MaxRows /\ stats.keys \in Nat /\ stats.tested \in Nat /\ stats.skipped \in Nat
          /\ stats.threshold \in Nat /\ stats.attached \in BOOLEAN /\ stats.used \in BOOLEAN /\ stats.state \in Ends
      BY <1>1, <2>1, <3>1 DEF Inv, Report, Stats
    <3>3. CASE Staged BY <2>1, <3>2, <3>3 DEF unitseam_bloom_stats_of, unitseam_stats_view
    <3>4. CASE ~Staged
      BY <2>1, <3>2, <3>4 DEF unitseam_bloom_stats_of, unitseam_stats_view, unitseam_bloom_consts_of, StandIn
    <3>. QED BY <2>1, <3>3, <3>4
  <2>3. ASSUME b # Null
        PROVE  /\ View \in unitseam_bloom_view /\ View.skipped <= View.tested
               /\ (View.state = "OFF") = (View.off_reason # "NONE")
               /\ View.state = "READY" /\ ~env.second => View.bits # Null /\ View.key
    <3>1. b \in hjoin_bloom /\ Filter(b, g, env.second) BY <1>1, <2>1, <2>3 DEF Inv, Core, Types
    <3>2. StateOf(b) \in States /\ ReasonOf(b) \in Reasons /\ View = unitseam_bloom_view_of(b)
      BY <2>1, <3>1, StateIn DEF ReasonOf, hjoin_bloom, Reasons, View
    <3>3. (IF Staged THEN b.seen ELSE -1) \in -1 .. MaxRows
      <4>1. CASE ~Staged BY <2>1, <4>1
      <4>2. CASE Staged
        <5>1. PICK sum \in Nat : sum = SumOver(UnflushedBy, Workers) BY <2>1, SumTypes
        <5>2. b.seen + sum = g.given /\ b.seen \in Nat /\ g.given \in 0 .. MaxRows
          BY <1>1, <2>1, <2>3, <3>1, <4>2, <5>1 DEF Inv, Counts, hjoin_bloom, History
        <5>3. b.seen \in -1 .. MaxRows BY <2>1, <5>1, <5>2
        <5>. QED BY <4>2, <5>3
      <4>. QED BY <4>1, <4>2
    <3>4. /\ unitseam_view_v5(b).first_done \in {-1, 0, 1} /\ unitseam_view_v5(b).key_regus \in BOOLEAN
          /\ unitseam_view_v5(b).key_cast \in BOOLEAN
      BY <3>1 DEF unitseam_view_v5, hjoin_bloom
    <3>5. View = [present |-> TRUE, staged |-> Staged, owner_thread |-> b.owner_thread,
                  bits |-> b.bits, key |-> b.key, keys |-> b.keys,
                  tested |-> b.tested, skipped |-> b.skipped,
                  set_up |-> IF Staged THEN b.set_up ELSE b.built,
                  state |-> StateOf(b), off_reason |-> ReasonOf(b),
                  first_rows |-> IF Staged THEN b.first_rows ELSE -1,
                  threshold |-> IF Staged THEN b.threshold ELSE 1,
                  seen |-> IF Staged THEN b.seen ELSE -1,
                  first_done |-> unitseam_view_v5(b).first_done, key_regus |-> unitseam_view_v5(b).key_regus,
                  key_cast |-> unitseam_view_v5(b).key_cast]
      BY <2>3, <3>2 DEF unitseam_bloom_view_of, ReasonOf, unitseam_bloom_consts_of, StandIn
    <3>6. View \in unitseam_bloom_view
      BY <2>1, <3>1, <3>2, <3>3, <3>4, <3>5 DEF unitseam_bloom_view, hjoin_bloom
    <3>7. /\ View.skipped = b.skipped /\ View.tested = b.tested /\ View.state = StateOf(b)
          /\ View.off_reason = ReasonOf(b) /\ View.bits = b.bits /\ View.key = b.key
      BY <3>5
    <3>8. (StateOf(b) = "OFF") = (ReasonOf(b) # "NONE")
      BY <3>1 DEF Filter, FilterOK, FilterBase, ReasonOf
    <3>9. StateOf(b) = "READY" /\ ~env.second => b.bits # Null /\ b.key BY <3>1 DEF Filter
    <3>10. b.skipped <= b.tested BY <3>1 DEF Filter, FilterOK, FilterBase
    <3>. QED BY <3>6, <3>7, <3>8, <3>9, <3>10
  <2>4. ASSUME NEW w \in Workers, wk[w] # Null
        PROVE  unitseam_worker_view_of(wk[w]) \in unitseam_worker_view
    <3>1. PICK c \in hjoin_bloom_worker : c = wk[w] /\ c.seen_unflushed < SEEN_BATCH
      BY <1>1, <2>1, <2>4 DEF Types, Inv, Core, WorkersOK, Worker
    <3>2. (IF Staged THEN c.seen_unflushed ELSE -1) \in -1 .. SEEN_BATCH - 1
      <4>1. c.seen_unflushed \in Nat /\ SEEN_BATCH > 0 BY <3>1, HjoinBloomAssumption DEF hjoin_bloom_worker
      <4>. QED BY <2>1, <3>1, <4>1
    <3>3. has_key_regus \in BOOLEAN BY DEF has_key_regus
    <3>4. unitseam_worker_view_of(c) \in unitseam_worker_view
      BY <2>1, <2>4, <3>1, <3>2, <3>3 DEF unitseam_worker_view_of, unitseam_worker_view, hjoin_bloom_worker
    <3>. QED BY <3>1, <3>4
  <2>. QED BY <2>1, <2>2, <2>3, <2>4 DEF TypeOK, Stats
<1>. QED BY <1>1, InvHolds, PTL

\* A row the join would match is never skipped, whoever checks it and however
\* stale its copy of the state, but for the earlier layout's partial filter.
THEOREM JoiningRowHolds == Spec => []JoiningRowKept
<1>1. Inv => JoiningRowKept BY DEF Inv
<1>. QED BY <1>1, InvHolds, PTL

\* The first input is read at most once, and only when it has ended and the
\* second input has given the rows its count asks for.
THEOREM FilledOnceHolds == Spec => []FilledOnceAtThreshold
<1>1. Inv => FilledOnceAtThreshold BY DEF Inv
<1>. QED BY <1>1, InvHolds, PTL

\* The report's outcome is what happened to the filter.
THEOREM OutcomeHolds == Spec => []OutcomeTruthful
<1>1. Inv => OutcomeTruthful BY DEF Inv
<1>. QED BY <1>1, InvHolds, PTL

\* However many workers there are, one that has not read the state again checks
\* fewer rows with a filter that is off than a batch has.
THEOREM StaleHolds == Spec => []StaleAtMostABatch
<1>1. Inv => StaleAtMostABatch BY DEF Inv, Core, WorkersOK, Worker, StaleAtMostABatch
<1>. QED BY <1>1, InvHolds, PTL

\* No row is lost or counted twice between the owner, any number of workers'
\* batches and the report, and the report is of the execution that has ended.
THEOREM CountsHold == Spec => []CountsExact
<1>1. ASSUME Inv PROVE CountsExact
  <2>1. layout \in LayoutNames BY <1>1 DEF Inv, Core, Types
  <2>2. ASSUME b # Null
        PROVE  /\ View.tested + SumOf(TestedBy) = g.tested
               /\ View.skipped + SumOf(SkippedBy) = g.skipped
               /\ Staged => View.seen + SumOf(UnflushedBy) = g.given
               /\ stats = ZeroStats
    <3>1. b \in hjoin_bloom BY <1>1, <2>2 DEF Inv, Core, Types
    <3>2. View.tested = b.tested /\ View.skipped = b.skipped /\ (Staged => View.seen = b.seen)
      BY <2>1, <3>1, ViewFields DEF View
    <3>3. /\ SumOf(TestedBy) = SumOver(TestedBy, Workers)
          /\ SumOf(SkippedBy) = SumOver(SkippedBy, Workers)
          /\ SumOf(UnflushedBy) = SumOver(UnflushedBy, Workers)
      BY DEF SumOf, SumOver
    <3>. QED BY <1>1, <2>2, <3>2, <3>3 DEF Inv, Counts, Core, Phase
  <2>3. ASSUME g.reported, unitseam_bloom_stats_of(stats).shown
        PROVE  /\ unitseam_bloom_stats_of(stats).tested = g.tested
               /\ unitseam_bloom_stats_of(stats).skipped = g.skipped
               /\ unitseam_bloom_stats_of(stats).seen = IF Staged THEN g.given ELSE -1
               /\ unitseam_bloom_stats_of(stats).keys = 0 \/ g.fills = 1
    <3>1. /\ stats.tested = g.tested /\ stats.skipped = g.skipped /\ (Staged => stats.seen = g.given)
          /\ stats.keys = 0 \/ g.fills = 1
      BY <1>1, <2>3 DEF Inv, Report
    <3>2. /\ unitseam_bloom_stats_of(stats).tested = stats.tested
          /\ unitseam_bloom_stats_of(stats).skipped = stats.skipped
          /\ unitseam_bloom_stats_of(stats).seen = (IF Staged THEN stats.seen ELSE -1)
          /\ unitseam_bloom_stats_of(stats).keys = stats.keys
      BY DEF unitseam_bloom_stats_of
    <3>. QED BY <3>1, <3>2
  <2>. QED BY <2>2, <2>3 DEF CountsExact
<1>. QED BY <1>1, InvHolds, PTL

LEMMA FirstOfPair ==
    ASSUME NEW f, NEW v
    PROVE  /\ unitseam_hj_join_pair(f, v, 0).first_null = (KeyOf[f] = NullKey)
           /\ KeyOf[f] # NullKey => unitseam_hj_join_pair(f, v, 0).first_hash = HashOf[KeyOf[f]]
<1>1. unitseam_hj_join_pair(f, v, 0).first_null = (0 # 1 /\ KeyOf[f] = NullKey) BY DEF unitseam_hj_join_pair
<1>2. unitseam_hj_join_pair(f, v, 0).first_hash = IF 0 \in {1, 2} \/ KeyOf[f] = NullKey THEN 0 ELSE HashOf[KeyOf[f]]
  BY DEF unitseam_hj_join_pair
<1>. QED BY <1>1, <1>2

\* On a filled filter the check before the projection takes the same key and the
\* same decision as the join's own read of the list tuple, and the bits hold
\* every key the first input can give.
THEOREM DecisionsHold == Spec => []DecisionsAgree
<1>1. ASSUME Inv PROVE DecisionsAgree
  <2>1. layout \in LayoutNames /\ env \in Env BY <1>1 DEF Inv, Core, Types
  <2>2. SUFFICES ASSUME b # Null, View.bits # Null, NEW v \in SecondVals
        PROVE  LET e == unitseam_bloom_early_key(b, v, TRUE)
                   s == unitseam_hj_second_key(v, TRUE)
               IN /\ e.rc \in {0, 1} => /\ e.rc = s.rc /\ e.out.hash = s.hash
                                        /\ e.out.decision = unitseam_bloom_check_bound(b, v, TRUE).ret
                  /\ \A f \in env.F :
                       LET p == unitseam_hj_join_pair(f, v, 0)
                       IN ~p.first_null /\ ~g.partial => unitseam_bloom_may_contain(b, p.first_hash)
    BY DEF DecisionsAgree
  <2>3. b \in hjoin_bloom /\ Filter(b, g, env.second) BY <1>1, <2>2 DEF Inv, Core, Types
  <2>4. b.bits # Null BY <2>1, <2>2, <2>3, ViewFields DEF View
  <2> DEFINE e == unitseam_bloom_early_key(b, v, TRUE)
             s == unitseam_hj_second_key(v, TRUE)
  <2>5. ASSUME e.rc \in {0, 1}
        PROVE  e.rc = s.rc /\ e.out.hash = s.hash
               /\ e.out.decision = unitseam_bloom_check_bound(b, v, TRUE).ret
    <3>1. PICK k : k = KeyOf[Store[v]] OBVIOUS
    <3>2. k = EarlyKeyOf(v) BY <3>1, EarlyKey
    <3>3. e = [rc |-> IF k = NullKey THEN 1 ELSE 0,
               out |-> [hash |-> IF k = NullKey THEN 0 ELSE HashOf[k], cast |-> v \notin InDomain,
                        decision |-> IF ~Ready(b) THEN -1 ELSE IF KeyAbsent(b, k) THEN 1 ELSE 0]]
      BY <2>5, <3>2 DEF unitseam_bloom_early_key
    <3>4. s = IF k = NullKey THEN [rc |-> 1, hash |-> 0] ELSE [rc |-> 0, hash |-> HashOf[k]]
      BY <3>1 DEF unitseam_hj_second_key
    <3>0. PICK dec : dec = IF ~Ready(b) THEN -1 ELSE IF KeyAbsent(b, k) THEN 1 ELSE 0 OBVIOUS
    <3>5. unitseam_bloom_check_bound(b, v, TRUE).ret = dec
      BY <2>2, <3>0, <3>1 DEF unitseam_bloom_check_bound
    <3>. HIDE DEF e, s
    <3>6. e.rc = (IF k = NullKey THEN 1 ELSE 0) /\ e.out.hash = (IF k = NullKey THEN 0 ELSE HashOf[k])
          /\ e.out.decision = dec
      BY <3>0, <3>3
    <3>7. s.rc = (IF k = NullKey THEN 1 ELSE 0) /\ s.hash = (IF k = NullKey THEN 0 ELSE HashOf[k])
      BY <3>4
    <3>8. e.rc = s.rc BY <3>6, <3>7
    <3>9. e.out.hash = s.hash BY <3>6, <3>7
    <3>10. e.out.decision = unitseam_bloom_check_bound(b, v, TRUE).ret BY <3>5, <3>6
    <3>. QED BY <3>8, <3>9, <3>10
  <2>6. ASSUME NEW f \in env.F, ~unitseam_hj_join_pair(f, v, 0).first_null, ~g.partial
        PROVE  unitseam_bloom_may_contain(b, unitseam_hj_join_pair(f, v, 0).first_hash)
    <3>1. KeyOf[f] # NullKey /\ unitseam_hj_join_pair(f, v, 0).first_hash = HashOf[KeyOf[f]]
      BY <2>6, FirstOfPair
    <3>2. HashOf[KeyOf[f]] \in BitsOf(env.F) BY <3>1 DEF BitsOf, NonNull
    <3>. QED BY <2>3, <2>4, <2>6, <3>1, <3>2 DEF Filter, unitseam_bloom_may_contain
  <2>. QED BY <2>5, <2>6
<1>. QED BY <1>1, InvHolds, PTL

\* A reason once noted is kept by what the steps note of the filter and the rows.
LEMMA NotesKeepReason ==
    ASSUME NEW h \in History, h.off # "NONE", NEW x, NEW y, NEW o, NEW v, NEW ret, NEW checked
    PROVE  /\ Note(h, x, y, o).off = h.off
           /\ NoteRow(Note(h, x, y, o), v, ret, checked).off = h.off
           /\ [Note(h, x, y, o) EXCEPT !.forced = TRUE].off = h.off
BY DEF Note, NoteRow, History

LEMMA ReasonKept ==
    ASSUME Inv, Next, b # Null, b' # Null, g.off # "NONE"
    PROVE  g'.off = g.off /\ layout' = layout
<1>0. g \in History BY DEF Inv, Core, Types
<1>1. CASE \E t \in Threads, v \in SecondVals, o \in Outcomes : OwnerRow(t, v, o)
  BY <1>0, <1>1, NotesKeepReason DEF OwnerRow
<1>2. CASE \E t \in Threads, o \in Outcomes : hjoin_bloom_prepare(t, o) \/ hjoin_bloom_poll(t, o)
  BY <1>0, <1>2, NotesKeepReason DEF hjoin_bloom_prepare, hjoin_bloom_poll
<1>3. CASE \E o \in Outcomes : unitseam_bloom_fill_now(o)
  BY <1>0, <1>3, NotesKeepReason DEF unitseam_bloom_fill_now
<1>4. CASE \E v \in SecondVals, fetched \in BOOLEAN : CheckBound(v, fetched)
  BY <1>0, <1>4, NotesKeepReason DEF CheckBound
<1>5. CASE \E n \in 0 .. MaxRows : unitseam_bloom_set_seen(n)
  BY <1>0, <1>5 DEF unitseam_bloom_set_seen, History
<1>6. CASE \/ \E w \in Workers, plain \in BOOLEAN : WorkerBegin(w, plain)
           \/ \E w \in Workers : WorkerEnd(w)
  BY <1>6 DEF WorkerBegin, WorkerEnd
<1>7. CASE \E w \in Workers, v \in SecondVals, fetched \in BOOLEAN : WorkerRow(w, v, fetched)
  <2>1. PICK w \in Workers, v \in SecondVals, fetched \in BOOLEAN : WorkerRow(w, v, fetched) BY <1>7
  <2>2. PICK ret, checked : g' = NoteRow(Note(g, b, b', Null), v, ret, checked) BY <2>1 DEF WorkerRow
  <2>3. layout' = layout BY <2>1 DEF WorkerRow
  <2>. QED BY <1>0, <2>2, <2>3, NotesKeepReason
<1>8. CASE PublishFirstRows BY <1>8 DEF PublishFirstRows
<1>9. CASE \E ok \in BOOLEAN : PublishFirstDone(ok) BY <1>0, <1>9, NotesKeepReason DEF PublishFirstDone
<1>10. CASE SecondDone BY <1>0, <1>10, NotesKeepReason DEF SecondDone
<1>11. CASE Finish BY <1>11 DEF Finish
<1>12. CASE unitseam_bloom_stats_stale BY <1>12 DEF unitseam_bloom_stats_stale
<1>13. CASE \E F \in FirstInputs, regus \in BOOLEAN : Attach(F, regus) BY <1>13 DEF Attach
<1>. QED BY <1>1, <1>2, <1>3, <1>4, <1>5, <1>6, <1>7, <1>8, <1>9, <1>10, <1>11, <1>12, <1>13 DEF Next

\* A filter that is off shows the reason noted first.
LEMMA ReasonShown ==
    ASSUME Inv, b # Null
    PROVE  View.off_reason = g.off /\ (View.state = "OFF" <=> g.off # "NONE")
<1>1. layout \in LayoutNames /\ b \in hjoin_bloom /\ Filter(b, g, env.second) BY DEF Inv, Core, Types
<1>2. View.state = StateOf(b) /\ View.off_reason = ReasonOf(b) BY <1>1, ViewFields DEF View
<1>. QED BY <1>1, <1>2 DEF Filter, FilterOK, FilterBase, ReasonOf

\* Until the execution ends, off stays off with its first reason, though the
\* owner, the workers and the two inputs' ends turn it off independently.
THEOREM OffStays == Spec => OffStaysOff
<1> DEFINE P == (b # Null /\ b' # Null /\ View.state = "OFF") =>
                  View'.state = "OFF" /\ View'.off_reason = View.off_reason
<1>1. Inv => (b # Null => View.off_reason = g.off /\ (View.state = "OFF" <=> g.off # "NONE"))
  BY ReasonShown
<1>2. (Inv => (b # Null => View.off_reason = g.off /\ (View.state = "OFF" <=> g.off # "NONE")))'
  BY <1>1, PTL
<1>3. Inv /\ Inv' /\ [Next]_vars => [P]_vars
  <2>1. ASSUME Inv, Inv', Next PROVE P BY <1>1, <1>2, <2>1, ReasonKept
  <2>. QED BY <2>1
<1>. QED BY <1>3, InvHolds, PTL DEF Spec, OffStaysOff

==============================================================================
