---------------------------- MODULE PipelineProofs ----------------------------
(***************************************************************************)
(* Proofs about Pipeline for every set of runs and heads and every bound on *)
(* the batches.  The argument: the graphs of harness/pipelines execute their*)
(* nodes in one order (Ordered), so what a run has done can be told from    *)
(* what it still has to do; of runs started one after the other at most one *)
(* is active (OneActive), and a snapshot that is there is explained by an   *)
(* active run, a killed one or one whose git command was cut off or failed  *)
(* (TreeExplained).                                                         *)
(***************************************************************************)
EXTENDS Pipeline, SequenceTheorems, TLAPS

\* The order in which every graph executes its nodes.
Rank == [n \in Nodes |->
           CASE n = "worktree" -> 1 [] n = "diff_map" -> 2 [] n = "codegraph" -> 3
             [] n = "pack" -> 4 [] n = "perf_claims" -> 5 [] n = "pr_refs" -> 6
             [] n = "or_buf" -> 7 [] n = "static_lint" -> 8 [] n = "unit_regress" -> 9
             [] n = "arch" -> 10 [] n = "review_request" -> 11 [] n = "validate" -> 12
             [] n = "gate" -> 13 [] n = "self_check" -> 14 [] n = "report" -> 15
             [] n = "episodic" -> 16]

Ordered(t) == \A i, j \in 1..Len(t) : i < j => Rank[t[i]] < Rank[t[j]]
Elems(t) == {t[i] : i \in 1..Len(t)}

\* pack is followed by the three nodes that write findings.auto.json.
AutoAhead(E) ==
    /\ "pack" \in E => "perf_claims" \in E
    /\ "perf_claims" \in E => "or_buf" \in E
    /\ "or_buf" \in E => "static_lint" \in E

-----------------------------------------------------------------------------
(* The graphs *)

\* Concatenation keeps the order when the first part ranks below the second.
LEMMA ConcatOrdered ==
    ASSUME NEW s \in Seq(Nodes), NEW t \in Seq(Nodes), Ordered(s), Ordered(t),
           \A i \in 1..Len(s), j \in 1..Len(t) : Rank[s[i]] < Rank[t[j]]
    PROVE  s \o t \in Seq(Nodes) /\ Ordered(s \o t)
<1> DEFINE c == s \o t
<1>1. /\ c \in Seq(Nodes) /\ Len(c) = Len(s) + Len(t)
      /\ \A i \in 1..Len(s) : c[i] = s[i]
      /\ \A i \in 1..Len(c) : i > Len(s) => c[i] = t[i - Len(s)]
  BY ConcatProperties
<1>2. ASSUME NEW i \in 1..Len(c), NEW j \in 1..Len(c), i < j
      PROVE  Rank[c[i]] < Rank[c[j]]
  <2>0. Len(s) \in Nat /\ Len(t) \in Nat
    OBVIOUS
  <2>1. CASE j <= Len(s)
    BY <1>1, <1>2, <2>0, <2>1 DEF Ordered
  <2>2. CASE i > Len(s)
    <3>1. i - Len(s) \in 1..Len(t) /\ j - Len(s) \in 1..Len(t) /\ i - Len(s) < j - Len(s)
      BY <1>1, <1>2, <2>0, <2>2
    <3>2. c[i] = t[i - Len(s)] /\ c[j] = t[j - Len(s)]
      BY <1>1, <1>2, <2>0, <2>2
    <3>3. QED
      BY <3>1, <3>2 DEF Ordered
  <2>3. CASE i <= Len(s) /\ j > Len(s)
    <3>1. i \in 1..Len(s) /\ j - Len(s) \in 1..Len(t)
      BY <1>1, <1>2, <2>0, <2>3
    <3>2. c[i] = s[i] /\ c[j] = t[j - Len(s)]
      BY <1>1, <2>3, <3>1
    <3>3. QED
      BY <3>1, <3>2
  <2>4. QED
    BY <2>0, <2>1, <2>2, <2>3
<1>3. QED
  BY <1>1, <1>2 DEF Ordered

LEMMA ConcatElems ==
    ASSUME NEW s \in Seq(Nodes), NEW t \in Seq(Nodes)
    PROVE  Elems(s \o t) = Elems(s) \cup Elems(t)
<1> DEFINE c == s \o t
<1>1. /\ c \in Seq(Nodes) /\ Len(c) = Len(s) + Len(t) /\ Len(s) \in Nat /\ Len(t) \in Nat
      /\ \A i \in 1..Len(s) : c[i] = s[i]
      /\ \A i \in 1..Len(c) : i > Len(s) => c[i] = t[i - Len(s)]
  BY ConcatProperties
<1>2. ASSUME NEW x \in Elems(c) PROVE x \in Elems(s) \cup Elems(t)
  <2>1. PICK i \in 1..Len(c) : x = c[i]
    BY <1>2 DEF Elems
  <2>2. CASE i <= Len(s)
    BY <1>1, <2>1, <2>2 DEF Elems
  <2>3. CASE i > Len(s)
    <3>1. i - Len(s) \in 1..Len(t) /\ x = t[i - Len(s)]
      BY <1>1, <2>1, <2>3
    <3>2. QED
      BY <3>1 DEF Elems
  <2>4. QED
    BY <1>1, <2>2, <2>3
<1>3. ASSUME NEW x \in Elems(s) PROVE x \in Elems(c)
  BY <1>1, <1>3 DEF Elems
<1>4. ASSUME NEW x \in Elems(t) PROVE x \in Elems(c)
  <2>1. PICK j \in 1..Len(t) : x = t[j]
    BY <1>4 DEF Elems
  <2>2. j + Len(s) \in 1..Len(c) /\ j + Len(s) > Len(s) /\ (j + Len(s)) - Len(s) = j
    BY <1>1, <2>1
  <2>3. c[j + Len(s)] = t[j]
    BY <1>1, <2>2
  <2>4. QED
    BY <2>1, <2>2, <2>3 DEF Elems
<1>5. QED
  BY <1>2, <1>3, <1>4

\* Every graph is ordered, begins with the snapshot, and has the nodes that write
\* findings.auto.json behind pack.
LEMMA PlanFacts ==
    \A p \in Plans : /\ p \in Seq(Nodes) /\ p # <<>> /\ Head(p) = "worktree"
                     /\ Ordered(p) /\ AutoAhead(Elems(p))
<1> DEFINE Full == <<"unit_regress", "arch", "review_request">>
           Close == <<"report", "episodic">>
           IC == Initialize \o Context
           Good(s) == s \in Seq(Nodes) /\ Ordered(s)
           Begins(s) == Len(s) > 0 /\ s[1] = "worktree"
<1>1. Good(Initialize) /\ Elems(Initialize) = {"worktree", "diff_map", "codegraph"}
  BY DEF Initialize, Ordered, Elems, Rank, Nodes
<1>2. /\ Good(Context)
      /\ Elems(Context) = {"pack", "perf_claims", "pr_refs", "or_buf", "static_lint"}
  BY DEF Context, Ordered, Elems, Rank, Nodes
<1>3. Good(Verify) /\ Elems(Verify) = {"validate", "gate", "self_check"}
  BY DEF Verify, Ordered, Elems, Rank, Nodes
<1>4. Good(Full) /\ Elems(Full) = {"unit_regress", "arch", "review_request"}
  BY DEF Ordered, Elems, Rank, Nodes
<1>5. Good(Close) /\ Elems(Close) = {"report", "episodic"}
  BY DEF Ordered, Elems, Rank, Nodes
<1>6. /\ Good(<<"arch">>) /\ Elems(<<"arch">>) = {"arch"}
      /\ Good(<<"episodic">>) /\ Elems(<<"episodic">>) = {"episodic"}
  BY DEF Ordered, Elems, Rank, Nodes
<1>7. ASSUME NEW s, NEW t, Good(s), Good(t), Begins(s),
             \A x \in Elems(s), y \in Elems(t) : Rank[x] < Rank[y]
      PROVE  /\ Good(s \o t) /\ Begins(s \o t)
             /\ Elems(s \o t) = Elems(s) \cup Elems(t)
  <2>1. \A i \in 1..Len(s), j \in 1..Len(t) : Rank[s[i]] < Rank[t[j]]
    BY <1>7 DEF Elems
  <2>2. Good(s \o t) /\ Elems(s \o t) = Elems(s) \cup Elems(t)
    BY <1>7, <2>1, ConcatOrdered, ConcatElems
  <2>3. Begins(s \o t)
    BY <1>7, ConcatProperties
  <2>4. QED
    BY <2>2, <2>3
<1> USE DEF Rank, Nodes
<1>8. Begins(Initialize)
  BY DEF Initialize
<1> HIDE DEF Full, Close, Good, Begins
<1>9. Good(IC) /\ Begins(IC) /\ Elems(IC) = Elems(Initialize) \cup Elems(Context)
  BY <1>1, <1>2, <1>7, <1>8
<1>10. /\ Good(IC \o <<"arch">>) /\ Begins(IC \o <<"arch">>)
       /\ Elems(IC \o <<"arch">>) = Elems(IC) \cup {"arch"}
  BY <1>1, <1>2, <1>6, <1>7, <1>9
<1>11. /\ Good(Initialize \o Verify) /\ Begins(Initialize \o Verify)
       /\ Elems(Initialize \o Verify) = Elems(Initialize) \cup Elems(Verify)
  BY <1>1, <1>3, <1>7, <1>8
<1>12. LET p == Initialize \o Verify \o <<"episodic">>
       IN  Good(p) /\ Begins(p) /\ Elems(p) = Elems(Initialize) \cup Elems(Verify) \cup {"episodic"}
  BY <1>1, <1>3, <1>6, <1>7, <1>11
<1>13. Good(IC \o Full) /\ Begins(IC \o Full) /\ Elems(IC \o Full) = Elems(IC) \cup Elems(Full)
  BY <1>1, <1>2, <1>4, <1>7, <1>9
<1>14. LET p == IC \o Full \o Verify
       IN  Good(p) /\ Begins(p) /\ Elems(p) = Elems(IC) \cup Elems(Full) \cup Elems(Verify)
  BY <1>1, <1>2, <1>3, <1>4, <1>7, <1>9, <1>13
<1>15. LET p == IC \o Full \o Verify \o Close
       IN  /\ Good(p) /\ Begins(p)
           /\ Elems(p) = Elems(IC) \cup Elems(Full) \cup Elems(Verify) \cup Elems(Close)
  BY <1>1, <1>2, <1>3, <1>4, <1>5, <1>7, <1>9, <1>14
<1>16. ASSUME NEW p \in Plans PROVE Good(p) /\ Begins(p) /\ AutoAhead(Elems(p))
  <2>1. \/ p = IC \/ p = IC \o <<"arch">> \/ p = Initialize \o Verify \o <<"episodic">>
        \/ p = IC \o Full \/ p = IC \o Full \o Verify \o Close
    BY <1>16 DEF Plans, Full, Close
  <2>2. QED
    BY <1>1, <1>2, <1>3, <1>4, <1>5, <1>9, <1>10, <1>12, <1>13, <1>15, <2>1 DEF AutoAhead
<1>17. ASSUME NEW p \in Plans PROVE p # <<>> /\ Head(p) = "worktree"
  BY <1>16 DEF Good, Begins
<1>18. QED
  BY <1>16, <1>17 DEF Good

\* What a node leaves to be done: everything but itself, all of it later in the order.
LEMMA TailFacts ==
    ASSUME NEW t \in Seq(Nodes), t # <<>>, Ordered(t), AutoAhead(Elems(t))
    PROVE  /\ Tail(t) \in Seq(Nodes) /\ Ordered(Tail(t))
           /\ Head(t) \in Nodes /\ Head(t) \in Elems(t)
           /\ Elems(Tail(t)) = Elems(t) \ {Head(t)}
           /\ \A n \in Elems(Tail(t)) : n \in Nodes /\ Rank[Head(t)] < Rank[n]
           /\ AutoAhead(Elems(Tail(t)))
<1>1. /\ Len(t) \in Nat \ {0} /\ Tail(t) \in Seq(Nodes) /\ Len(Tail(t)) = Len(t) - 1
      /\ Head(t) = t[1] /\ \A i \in 1..Len(Tail(t)) : Tail(t)[i] = t[i + 1]
  BY HeadTailProperties
<1>2. \A n \in Nodes : Rank[n] \in Int
  BY DEF Rank, Nodes
<1>3. \A i \in 1..Len(t) : t[i] \in Nodes
  BY ElementOfSeq
<1>4. ASSUME NEW i \in 1..Len(Tail(t)), NEW j \in 1..Len(Tail(t)), i < j
      PROVE  Rank[Tail(t)[i]] < Rank[Tail(t)[j]]
  <2>1. i + 1 \in 1..Len(t) /\ j + 1 \in 1..Len(t) /\ i + 1 < j + 1
    BY <1>1, <1>4
  <2>2. QED
    BY <1>1, <2>1 DEF Ordered
<1>5. ASSUME NEW n \in Elems(Tail(t)) PROVE n \in Elems(t) /\ n \in Nodes /\ Rank[Head(t)] < Rank[n]
  <2>1. PICK i \in 1..Len(Tail(t)) : n = Tail(t)[i]
    BY <1>5 DEF Elems
  <2>2. i + 1 \in 1..Len(t) /\ 1 \in 1..Len(t) /\ 1 < i + 1 /\ n = t[i + 1]
    BY <1>1, <2>1
  <2>3. QED
    BY <1>1, <1>3, <2>2 DEF Ordered, Elems
<1>6. ASSUME NEW n \in Elems(t), n # Head(t) PROVE n \in Elems(Tail(t))
  <2>1. PICK i \in 1..Len(t) : n = t[i]
    BY <1>6 DEF Elems
  <2>2. i # 1 /\ i - 1 \in 1..Len(Tail(t)) /\ (i - 1) + 1 = i
    BY <1>1, <1>6, <2>1
  <2>3. Tail(t)[i - 1] = t[i]
    BY <1>1, <2>2
  <2>4. QED
    BY <2>1, <2>2, <2>3 DEF Elems
<1>7. Head(t) \in Nodes /\ Head(t) \in Elems(t)
  BY <1>1, <1>3 DEF Elems
<1>8. Elems(Tail(t)) = Elems(t) \ {Head(t)}
  BY <1>2, <1>5, <1>6, <1>7
<1>9. AutoAhead(Elems(Tail(t)))
  <2>1. {"pack", "perf_claims", "or_buf", "static_lint"} \subseteq Nodes
    BY DEF Nodes
  <2>2. /\ Rank["pack"] = 4 /\ Rank["perf_claims"] = 5 /\ Rank["or_buf"] = 7
        /\ Rank["static_lint"] = 8
    BY DEF Rank, Nodes
  <2>3. QED
    BY <1>5, <1>8, <2>1, <2>2 DEF AutoAhead
<1>10. QED
  BY <1>1, <1>4, <1>5, <1>7, <1>8, <1>9 DEF Ordered

-----------------------------------------------------------------------------
(* The inductive invariant *)

\* What a run's own state says about where it is.
RunInv ==
    \A r \in Runs :
        /\ Ordered(todo[r]) /\ AutoAhead(Elems(todo[r]))
        /\ status[r] # "idle" => sha[r] \in Heads
        /\ status[r] \notin Active =>
             ~entered[r] /\ graph[r] = None /\ packed[r] = 0 /\ served[r] = {}
        /\ status[r] = "adding" => ~entered[r]
        /\ entered[r] => "worktree" \notin Elems(todo[r])
        /\ packed[r] > 0 => entered[r]
        /\ status[r] \in {"run", "adding"} /\ ~entered[r] => todo[r] \in Plans
        /\ served[r] # {} => "pack" \notin Elems(todo[r])

\* Runs started one after the other do not overlap.
OneActive == \A q, r \in Runs : status[q] \in Active /\ status[r] \in Active => q = r

\* Why a snapshot is there, half made or whole.
TreeExplained ==
    /\ \A h \in Heads : tree[h] = "partial" =>
         \E r \in Runs : sha[r] = h /\ status[r] \in {"adding", "cut", "stuck"}
    /\ \A h \in Heads : tree[h] = "full" =>
         \E r \in Runs : /\ sha[r] = h
                         /\ status[r] \in {"dead", "stuck"} \/ (status[r] \in Active /\ entered[r])

\* Nobody takes the snapshot from a run that has entered it.
EnteredStays == \A r \in Runs : entered[r] => tree[sha[r]] # "none"

\* The numbered files a run has written are still its own while it runs.
PacksKept ==
    \A r \in Runs : status[r] \in Active /\ packed[r] > 1 =>
        \A n \in 1..packed[r] : batch[sha[r]][n] = r

SerialInv == Serial => OneActive /\ TreeExplained /\ EnteredStays /\ PacksKept

IndInv ==
    /\ TypeOK /\ RunInv /\ SerialInv
    /\ AutoIsOwn /\ LackingOnlyAfterCut /\ OwnBatchesServed

-----------------------------------------------------------------------------
(* Types, and what a run knows of itself *)

\* A run that has not entered the snapshot is at the first node of its graph.
LEMMA FirstNode ==
    ASSUME TypeOK, RunInv, NEW r \in Runs, NEW node, At(r, node), ~entered[r]
    PROVE  node = "worktree"
<1>1. todo[r] \in Plans
  BY DEF RunInv, At
<1>2. QED
  BY <1>1, PlanFacts DEF At

\* A node that is done, or the worktree added, leaves the rest of the graph.
LEMMA AdvanceFacts ==
    ASSUME TypeOK, RunInv, NEW r \in Runs, todo[r] # <<>>, Advance(r)
    PROVE  /\ todo' \in [Runs -> Seq(Nodes)]
           /\ todo'[r] = Tail(todo[r]) /\ \A q \in Runs : q # r => todo'[q] = todo[q]
           /\ \A q \in Runs : Ordered(todo'[q]) /\ AutoAhead(Elems(todo'[q]))
           /\ Elems(todo'[r]) = Elems(todo[r]) \ {Head(todo[r])}
           /\ Head(todo[r]) \in Elems(todo[r])
           /\ \A n \in Elems(todo'[r]) : n \in Nodes /\ Rank[Head(todo[r])] < Rank[n]
<1>1. todo[r] \in Seq(Nodes) /\ Ordered(todo[r]) /\ AutoAhead(Elems(todo[r]))
  BY DEF TypeOK, RunInv
<1>2. /\ Tail(todo[r]) \in Seq(Nodes) /\ Ordered(Tail(todo[r]))
      /\ Head(todo[r]) \in Elems(todo[r])
      /\ Elems(Tail(todo[r])) = Elems(todo[r]) \ {Head(todo[r])}
      /\ \A n \in Elems(Tail(todo[r])) : n \in Nodes /\ Rank[Head(todo[r])] < Rank[n]
      /\ AutoAhead(Elems(Tail(todo[r])))
  BY <1>1, TailFacts
<1>3. /\ todo' \in [Runs -> Seq(Nodes)] /\ todo'[r] = Tail(todo[r])
      /\ \A q \in Runs : q # r => todo'[q] = todo[q]
  BY <1>2 DEF TypeOK, Advance
<1>4. QED
  BY <1>2, <1>3 DEF RunInv

\* The nodes only add to what a run's own state says.
LEMMA NodeRunStep ==
    ASSUME TypeOK, RunInv, NEW r \in Runs, Node(r)
    PROVE  TypeOK' /\ RunInv'
<1> USE DEF runVars, outVars, Active, Ended
<1>0. ASSUME NEW node, At(r, node), Advance(r), UNCHANGED <<status, sha>>,
             entered' = entered \/ entered' = [entered EXCEPT ![r] = TRUE],
             entered'[r], graph' \in [Runs -> {None, "whole", "lacking"}],
             packed' \in [Runs -> 0..MaxBatches], served' \in [Runs -> SUBSET ((0..MaxBatches) \X Runs)],
             \A q \in Runs : q # r => graph'[q] = graph[q] /\ packed'[q] = packed[q],
             \A q \in Runs : q # r => served'[q] = served[q],
             served'[r] # {} => served[r] # {} \/ node = "review_request",
             entered[r] \/ node = "worktree"
      PROVE  RunInv'
  <2>1. /\ todo'[r] = Tail(todo[r]) /\ \A q \in Runs : q # r => todo'[q] = todo[q]
        /\ \A q \in Runs : Ordered(todo'[q]) /\ AutoAhead(Elems(todo'[q]))
        /\ Elems(todo'[r]) = Elems(todo[r]) \ {node} /\ node \in Elems(todo[r])
        /\ \A n \in Elems(todo'[r]) : n \in Nodes /\ Rank[node] < Rank[n]
    BY <1>0, AdvanceFacts DEF At
  <2>2. served'[r] # {} => "pack" \notin Elems(todo'[r])
    <3>0. Rank["review_request"] = 11 /\ Rank["pack"] = 4
      BY DEF Rank, Nodes
    <3>1. CASE node = "review_request"
      BY <2>1, <3>0, <3>1
    <3>2. CASE node # "review_request"
      BY <1>0, <2>1, <3>2 DEF RunInv
    <3>3. QED
      BY <3>1, <3>2
  <2>3. /\ entered' \in [Runs -> BOOLEAN] /\ status[r] = "run"
        /\ \A q \in Runs : q # r => entered'[q] = entered[q]
    BY <1>0 DEF TypeOK, At
  <2>4. "worktree" \notin Elems(todo'[r])
    BY <1>0, <2>1 DEF RunInv
  <2>5. ASSUME NEW q \in Runs PROVE RunInv!(q)'
    BY <1>0, <2>1, <2>2, <2>3, <2>4 DEF RunInv
  <2>6. QED
    BY <2>5 DEF RunInv
<1>1. CASE ReuseWorktree(r)
  <2>1. TypeOK'
    BY <1>1, AdvanceFacts DEF ReuseWorktree, TypeOK, At
  <2>2. RunInv'
    BY <1>1, <1>0 DEF ReuseWorktree, TypeOK
  <2>3. QED
    BY <2>1, <2>2
<1>2. CASE AddWorktree(r)
  <2>0. sha[r] \in Heads /\ "worktree" \in Elems(todo[r])
    BY <1>2, TailFacts DEF AddWorktree, RunInv, At, TypeOK
  <2>1. TypeOK'
    BY <1>2, <2>0 DEF AddWorktree, TypeOK
  <2>2. RunInv'
    BY <1>2, <2>0 DEF AddWorktree, TypeOK, RunInv, At
  <2>3. QED
    BY <2>1, <2>2
<1>3. CASE AddDone(r)
  <2>0. sha[r] \in Heads /\ todo[r] \in Plans /\ todo[r] # <<>>
    BY <1>3, PlanFacts DEF AddDone, RunInv
  <2>1. TypeOK'
    BY <1>3, <2>0, AdvanceFacts DEF AddDone, TypeOK
  <2>2. RunInv'
    <3>1. served[r] # {} => "pack" \notin Elems(todo'[r])
      BY <1>3, <2>0, AdvanceFacts DEF AddDone, RunInv
    <3>2. "worktree" \notin Elems(todo'[r])
      BY <1>3, <2>0, AdvanceFacts, PlanFacts DEF AddDone
    <3>3. ASSUME NEW q \in Runs PROVE RunInv!(q)'
      BY <1>3, <2>0, <3>1, <3>2, AdvanceFacts DEF AddDone, TypeOK, RunInv
    <3>4. QED
      BY <3>3 DEF RunInv
  <2>3. QED
    BY <2>1, <2>2
<1>4. CASE AddFails(r)
  <2>0. sha[r] \in Heads
    BY <1>4 DEF AddFails, RunInv
  <2>1. TypeOK'
    BY <1>4, <2>0 DEF AddFails, TypeOK
  <2>2. RunInv'
    BY <1>4 DEF AddFails, TypeOK, RunInv
  <2>3. QED
    BY <2>1, <2>2
<1>5. ASSUME NEW node, At(r, node), node # "worktree"
      PROVE  entered[r]
  BY <1>5, FirstNode DEF TypeOK
<1>6. CASE DiffMap(r)
  <2>1. TypeOK'
    <3>1. sha[r] \in Heads
      BY <1>6 DEF DiffMap, At, RunInv
    <3>2. QED
      BY <1>6, <3>1, AdvanceFacts DEF DiffMap, TypeOK, At
  <2>2. RunInv'
    BY <1>6, <1>0, <1>5 DEF DiffMap, TypeOK
  <2>3. QED
    BY <2>1, <2>2
<1>7. CASE Codegraph(r)
  <2>1. TypeOK'
    BY <1>7, AdvanceFacts DEF Codegraph, TypeOK, At
  <2>2. RunInv'
    BY <1>7, <1>0, <1>5 DEF Codegraph, TypeOK
  <2>3. QED
    BY <2>1, <2>2
<1>8. CASE Pack(r)
  <2>0. sha[r] \in Heads
    BY <1>8 DEF Pack, At, RunInv
  <2>1. /\ packed' \in [Runs -> 0..MaxBatches] /\ \A q \in Runs : q # r => packed'[q] = packed[q]
        /\ single' \in [Heads -> Runs \cup {None}]
        /\ batch' \in [Heads -> [1..MaxBatches -> Runs \cup {None}]]
    <3>1. PICK k \in 1..MaxBatches :
            /\ packed' = [packed EXCEPT ![r] = k]
            /\ IF k = 1 THEN single' = [single EXCEPT ![sha[r]] = r] /\ UNCHANGED batch
               ELSE /\ batch' = [batch EXCEPT ![sha[r]] =
                                   [n \in 1..MaxBatches |-> IF n <= k THEN r ELSE @[n]]]
                    /\ UNCHANGED single
      BY <1>8 DEF Pack
    <3>2. k \in 0..MaxBatches
      BY <3>1, BatchesAssumption
    <3>3. batch[sha[r]] \in [1..MaxBatches -> Runs \cup {None}]
      BY <2>0 DEF TypeOK
    <3>4. [n \in 1..MaxBatches |-> IF n <= k THEN r ELSE batch[sha[r]][n]]
            \in [1..MaxBatches -> Runs \cup {None}]
      BY <3>3
    <3>5. QED
      BY <2>0, <3>1, <3>2, <3>4 DEF TypeOK
  <2>2. TypeOK'
    BY <1>8, <2>1, AdvanceFacts DEF Pack, TypeOK, At
  <2>3. RunInv'
    BY <1>8, <1>0, <1>5, <2>1 DEF Pack, TypeOK
  <2>4. QED
    BY <2>2, <2>3
<1>9. ASSUME NEW node, NEW items \in SUBSET (Kinds \X Runs), At(r, node), node # "worktree",
             WriteAuto(r, items), Advance(r),
             UNCHANGED <<head, status, sha, local, entered, diffOf, graph, packed, served,
                         tree, single, batch>>
      PROVE  TypeOK' /\ RunInv'
  <2>0. sha[r] \in Heads
    BY <1>9 DEF At, RunInv
  <2>1. TypeOK'
    BY <1>9, <2>0, AdvanceFacts DEF WriteAuto, TypeOK, At
  <2>2. RunInv'
    BY <1>9, <1>0, <1>5 DEF TypeOK
  <2>3. QED
    BY <2>1, <2>2
<1>10. CASE PerfClaims(r) \/ OrBuf(r) \/ StaticLint(r)
  <2>0. sha[r] \in Heads
    BY <1>10 DEF At, RunInv, PerfClaims, OrBuf, StaticLint
  <2>1. auto[sha[r]].items \in SUBSET (Kinds \X Runs)
    BY <2>0 DEF TypeOK
  <2>2. CASE PerfClaims(r)
    <3>1. {<<"MEAS", r>>} \in SUBSET (Kinds \X Runs)
      BY DEF Kinds
    <3>2. QED
      BY <1>9, <2>2, <3>1 DEF PerfClaims
  <2>3. CASE OrBuf(r)
    <3>1. auto[sha[r]].items \cup {<<"OR", r>>} \in SUBSET (Kinds \X Runs)
      BY <2>1 DEF Kinds
    <3>2. QED
      BY <1>9, <2>3, <3>1 DEF OrBuf
  <2>4. CASE StaticLint(r)
    <3>1. (auto[sha[r]].items \ ({"LINT"} \X Runs)) \cup {<<"LINT", r>>} \in SUBSET (Kinds \X Runs)
      BY <2>1 DEF Kinds
    <3>2. QED
      BY <1>9, <2>4, <3>1 DEF StaticLint
  <2>5. QED
    BY <1>10, <2>2, <2>3, <2>4
<1>11. CASE ReviewRequest(r)
  <2>0. sha[r] \in Heads
    BY <1>11 DEF ReviewRequest, At, RunInv
  <2>1. PackBatches(sha[r]) \in SUBSET ((0..MaxBatches) \X Runs)
    BY <2>0, BatchesAssumption DEF PackBatches, TypeOK
  <2>2. /\ served' \in [Runs -> SUBSET ((0..MaxBatches) \X Runs)]
        /\ \A q \in Runs : q # r => served'[q] = served[q]
    BY <1>11, <2>1 DEF ReviewRequest, TypeOK
  <2>3. TypeOK'
    BY <1>11, <2>2, AdvanceFacts DEF ReviewRequest, TypeOK, At
  <2>4. RunInv'
    BY <1>11, <1>0, <1>5, <2>2 DEF ReviewRequest, TypeOK
  <2>5. QED
    BY <2>3, <2>4
<1>12. ASSUME NEW node, Quietly(r, node), node # "worktree" PROVE TypeOK' /\ RunInv'
  <2>1. TypeOK'
    BY <1>12, AdvanceFacts DEF Quietly, TypeOK, At
  <2>2. RunInv'
    BY <1>12, <1>0, <1>5 DEF Quietly, TypeOK
  <2>3. QED
    BY <2>1, <2>2
<1>13. CASE Validate(r)
  BY <1>12, <1>13 DEF Validate, Quietly
<1>14. QED
  BY <1>1, <1>2, <1>3, <1>4, <1>6, <1>7, <1>8, <1>10, <1>11, <1>12, <1>13
     DEF Node, PrRefs, UnitRegress, Arch, Gate, SelfCheck, Report, Episodic

\* TypeOK and RunInv are kept by every step, whether or not the runs overlap.
LEMMA RunStep ==
    ASSUME TypeOK, RunInv, [Next]_vars
    PROVE  TypeOK' /\ RunInv'
<1> USE DEF runVars, outVars, Active, Ended
<1>1. CASE Push
  BY <1>1 DEF Push, TypeOK, RunInv
<1>2. ASSUME NEW r \in Runs, Begin(r) PROVE TypeOK' /\ RunInv'
  <2>1. PICK plan \in Plans : todo' = [todo EXCEPT ![r] = plan]
    BY <1>2 DEF Begin
  <2>2. plan \in Seq(Nodes) /\ Ordered(plan) /\ AutoAhead(Elems(plan))
    BY <2>1, PlanFacts
  <2>3. /\ sha' \in [Runs -> Heads \cup {None}] /\ sha'[r] \in Heads
        /\ \A q \in Runs : q # r => sha'[q] = sha[q]
        /\ local' \in [Runs -> BOOLEAN]
    <3>1. PICK h \in Heads : sha' = [sha EXCEPT ![r] = h]
      BY <1>2 DEF Begin, TypeOK
    <3>2. local' = local \/ local' = [local EXCEPT ![r] = TRUE]
      BY <1>2 DEF Begin
    <3>3. QED
      BY <3>1, <3>2 DEF TypeOK
  <2>4. TypeOK'
    BY <1>2, <2>1, <2>2, <2>3 DEF Begin, TypeOK
  <2>5. ASSUME NEW q \in Runs PROVE RunInv!(q)'
    BY <1>2, <2>1, <2>2, <2>3 DEF Begin, TypeOK, RunInv
  <2>6. QED
    BY <2>4, <2>5 DEF RunInv
<1>3. ASSUME NEW r \in Runs, Node(r) PROVE TypeOK' /\ RunInv'
  BY <1>3, NodeRunStep
<1>4. ASSUME NEW r \in Runs, Raise(r) PROVE TypeOK' /\ RunInv'
  BY <1>4 DEF Raise, TypeOK, RunInv
<1>5. ASSUME NEW r \in Runs, Forget(r), sha' = sha, head' = head, single' = single, batch' = batch,
             NEW s \in Ended, status' = [status EXCEPT ![r] = s],
             status[r] # "idle", tree' \in [Heads -> {"none", "partial", "full"}],
             auto' \in [Heads -> [whole : BOOLEAN, items : SUBSET (Kinds \X Runs)]]
      PROVE  TypeOK' /\ RunInv'
  <2>1. <<>> \in Seq(Nodes) /\ Ordered(<<>>) /\ AutoAhead(Elems(<<>>))
    BY DEF Ordered, AutoAhead, Elems
  <2>2. TypeOK'
    BY <1>5, <2>1, BatchesAssumption DEF Forget, TypeOK
  <2>3. ASSUME NEW q \in Runs PROVE RunInv!(q)'
    BY <1>5, <2>1 DEF Forget, TypeOK, RunInv
  <2>4. QED
    BY <2>2, <2>3 DEF RunInv
<1>6. ASSUME NEW r \in Runs, Leave(r) PROVE TypeOK' /\ RunInv'
  <2>1. sha[r] \in Heads /\ status[r] # "idle"
    BY <1>6 DEF Leave, Leaving, RunInv
  <2>2. tree' \in [Heads -> {"none", "partial", "full"}]
    <3>1. \/ tree' = tree \/ tree' = [tree EXCEPT ![sha[r]] = "none"]
          \/ tree' = [tree EXCEPT ![sha[r]] = "partial"]
      BY <1>6 DEF Leave
    <3>2. QED
      BY <2>1, <3>1 DEF TypeOK
  <2>3. \E s \in Ended : status' = [status EXCEPT ![r] = s]
    BY <1>6 DEF Leave, TypeOK
  <2>4. QED
    BY <1>5, <1>6, <2>1, <2>2, <2>3 DEF Leave, TypeOK
<1>7. ASSUME NEW r \in Runs, Kill(r) PROVE TypeOK' /\ RunInv'
  <2>1. sha[r] \in Heads /\ status[r] # "idle"
    BY <1>7 DEF Kill, RunInv
  <2>2. tree' \in [Heads -> {"none", "partial", "full"}]
    BY <1>7, <2>1 DEF Kill, TypeOK
  <2>3. \E s \in Ended : status' = [status EXCEPT ![r] = s]
    BY <1>7 DEF Kill, TypeOK
  <2>4. auto' \in [Heads -> [whole : BOOLEAN, items : SUBSET (Kinds \X Runs)]]
    <3>1. [whole |-> FALSE, items |-> {}] \in [whole : BOOLEAN, items : SUBSET (Kinds \X Runs)]
      OBVIOUS
    <3>2. UNCHANGED auto \/ auto' = [auto EXCEPT ![sha[r]] = [whole |-> FALSE, items |-> {}]]
      BY <1>7 DEF Kill
    <3>3. QED
      BY <2>1, <3>1, <3>2 DEF TypeOK
  <2>5. QED
    BY <1>5, <1>7, <2>1, <2>2, <2>3, <2>4 DEF Kill
<1>8. CASE UNCHANGED vars
  BY <1>8 DEF vars, TypeOK, RunInv
<1>9. QED
  BY <1>1, <1>2, <1>3, <1>4, <1>6, <1>7, <1>8 DEF Next, AllEnded

-----------------------------------------------------------------------------
(* Runs that do not overlap *)

\* A step of one run leaves the status of the others alone; only Begin makes a run
\* active.
LEMMA OneActiveStep ==
    ASSUME TypeOK, Serial, OneActive, [Next]_vars
    PROVE  OneActive'
<1> USE DEF runVars, outVars
<1>1. ASSUME NEW r \in Runs, Begin(r) PROVE OneActive'
  BY <1>1 DEF Begin, OneActive, TypeOK
<1>2. ASSUME NEW r \in Runs, status[r] \in Active, \A q \in Runs : q # r => status'[q] = status[q]
      PROVE  OneActive'
  BY <1>2 DEF OneActive
<1>3. ASSUME NEW r \in Runs, Node(r) \/ Raise(r) \/ Leave(r) \/ Kill(r) PROVE OneActive'
  <2>1. status[r] \in Active
    BY <1>3 DEF Node, Raise, Leave, Leaving, Kill, ReuseWorktree, AddWorktree, AddDone, AddFails,
         DiffMap, Codegraph, Pack, PerfClaims, OrBuf, StaticLint, PrRefs, UnitRegress, Arch,
         ReviewRequest, Validate, Gate, SelfCheck, Report, Episodic, Quietly, At, Active
  <2>2. \A q \in Runs : q # r => status'[q] = status[q]
    BY <1>3 DEF Node, Raise, Leave, Leaving, Kill, ReuseWorktree, AddWorktree, AddDone, AddFails,
         DiffMap, Codegraph, Pack, PerfClaims, OrBuf, StaticLint, PrRefs, UnitRegress, Arch,
         ReviewRequest, Validate, Gate, SelfCheck, Report, Episodic, Quietly, TypeOK
  <2>3. QED
    BY <1>2, <2>1, <2>2
<1>4. CASE Push \/ UNCHANGED vars
  BY <1>4 DEF Push, vars, OneActive
<1>5. QED
  BY <1>1, <1>3, <1>4 DEF Next, AllEnded

\* The nodes that come after the snapshot, and an exception, leave it alone.
InTree(r) ==
    /\ UNCHANGED <<tree, sha, entered>>
    /\ status[r] \in {"run"} /\ status'[r] \in {"run", "raised"}
    /\ \A q \in Runs : q # r => status'[q] = status[q]

LEMMA InTreeNodes ==
    ASSUME TypeOK, NEW r \in Runs,
           \/ DiffMap(r) \/ Codegraph(r) \/ Pack(r) \/ PerfClaims(r) \/ OrBuf(r) \/ StaticLint(r)
           \/ PrRefs(r) \/ UnitRegress(r) \/ Arch(r) \/ ReviewRequest(r)
           \/ Validate(r) \/ Gate(r) \/ SelfCheck(r) \/ Report(r) \/ Episodic(r) \/ Raise(r)
    PROVE  InTree(r)
  BY DEF InTree, DiffMap, Codegraph, Pack, PerfClaims, OrBuf, StaticLint, PrRefs, UnitRegress,
       Arch, ReviewRequest, Validate, Gate, SelfCheck, Report, Episodic, Quietly, Raise, At,
       TypeOK, outVars

\* A snapshot is there because of an active run, a killed one or a git command cut off or failed, and
\* stays for a run that has entered it.
LEMMA TreeStep ==
    ASSUME TypeOK, RunInv, Serial, OneActive, TreeExplained, EnteredStays, [Next]_vars
    PROVE  TreeExplained' /\ EnteredStays'
<1> USE DEF runVars, outVars, Active
<1>0. ASSUME NEW r \in Runs, sha[r] \in Heads, sha' = sha,
             \A h \in Heads : h # sha[r] => tree'[h] = tree[h],
             \A q \in Runs : q # r => status'[q] = status[q] /\ entered'[q] = entered[q],
             tree'[sha[r]] = "partial" => status'[r] \in {"adding", "cut", "stuck"},
             tree'[sha[r]] = "full" => status'[r] = "stuck" \/ (status'[r] \in Active /\ entered'[r])
      PROVE  TreeExplained'
  <2>1. ASSUME NEW h \in Heads, tree'[h] = "partial"
        PROVE  \E q \in Runs : sha'[q] = h /\ status'[q] \in {"adding", "cut", "stuck"}
    <3>1. CASE h = sha[r]
      BY <1>0, <2>1, <3>1
    <3>2. CASE h # sha[r]
      <4>1. PICK q \in Runs : sha[q] = h /\ status[q] \in {"adding", "cut", "stuck"}
        BY <1>0, <2>1, <3>2 DEF TreeExplained
      <4>2. QED
        BY <1>0, <3>2, <4>1
    <3>3. QED
      BY <3>1, <3>2
  <2>2. ASSUME NEW h \in Heads, tree'[h] = "full"
        PROVE  \E q \in Runs : /\ sha'[q] = h
                               /\ status'[q] \in {"dead", "stuck"} \/ (status'[q] \in Active /\ entered'[q])
    <3>1. CASE h = sha[r]
      BY <1>0, <2>2, <3>1
    <3>2. CASE h # sha[r]
      <4>1. PICK q \in Runs : /\ sha[q] = h
                              /\ status[q] \in {"dead", "stuck"} \/ (status[q] \in Active /\ entered[q])
        BY <1>0, <2>2, <3>2 DEF TreeExplained
      <4>2. QED
        BY <1>0, <3>2, <4>1
    <3>3. QED
      BY <3>1, <3>2
  <2>3. QED
    BY <2>1, <2>2 DEF TreeExplained
<1>1. CASE Push \/ UNCHANGED vars
  BY <1>1 DEF Push, vars, TreeExplained, EnteredStays
<1>2. ASSUME NEW r \in Runs, Begin(r) PROVE TreeExplained' /\ EnteredStays'
  <2>1. /\ tree' = tree /\ entered' = entered /\ status[r] = "idle" /\ ~entered[r]
        /\ \A q \in Runs : q # r => status'[q] = status[q] /\ sha'[q] = sha[q]
    BY <1>2 DEF Begin, TypeOK, RunInv
  <2>2. TreeExplained'
    BY <2>1 DEF TreeExplained
  <2>3. EnteredStays'
    BY <2>1 DEF EnteredStays
  <2>4. QED
    BY <2>2, <2>3
<1>3. ASSUME NEW r \in Runs, InTree(r) PROVE TreeExplained' /\ EnteredStays'
  <2>1. TreeExplained'
    BY <1>3 DEF InTree, TreeExplained
  <2>2. EnteredStays'
    BY <1>3 DEF InTree, EnteredStays
  <2>3. QED
    BY <2>1, <2>2
<1>4. ASSUME NEW r \in Runs, ReuseWorktree(r) PROVE TreeExplained' /\ EnteredStays'
  <2>1. TreeExplained'
    BY <1>4 DEF ReuseWorktree, At, TypeOK, TreeExplained
  <2>2. EnteredStays'
    BY <1>4 DEF ReuseWorktree, At, TypeOK, EnteredStays
  <2>3. QED
    BY <2>1, <2>2
<1>5. ASSUME NEW r \in Runs, AddWorktree(r) PROVE TreeExplained' /\ EnteredStays'
  <2>0. /\ sha[r] \in Heads /\ tree[sha[r]] = "none" /\ tree' = [tree EXCEPT ![sha[r]] = "partial"]
        /\ status[r] = "run" /\ status'[r] = "adding" /\ sha' = sha /\ entered' = entered
        /\ \A q \in Runs : q # r => status'[q] = status[q]
    BY <1>5 DEF AddWorktree, At, TypeOK, RunInv
  <2>1. TreeExplained'
    BY <1>0, <2>0 DEF TypeOK
  <2>2. EnteredStays'
    BY <2>0 DEF TypeOK, EnteredStays
  <2>3. QED
    BY <2>1, <2>2
<1>6. ASSUME NEW r \in Runs, AddDone(r) PROVE TreeExplained' /\ EnteredStays'
  <2>0. /\ sha[r] \in Heads /\ tree' = [tree EXCEPT ![sha[r]] = "full"]
        /\ status[r] = "adding" /\ status'[r] = "run" /\ sha' = sha
        /\ entered' = [entered EXCEPT ![r] = TRUE]
        /\ \A q \in Runs : q # r => status'[q] = status[q]
    BY <1>6 DEF AddDone, TypeOK, RunInv
  <2>1. TreeExplained'
    BY <1>0, <2>0 DEF TypeOK
  <2>2. EnteredStays'
    BY <2>0 DEF TypeOK, EnteredStays
  <2>3. QED
    BY <2>1, <2>2
<1>7. ASSUME NEW r \in Runs, tree' = [tree EXCEPT ![sha[r]] = "none"], sha' = sha, sha[r] \in Heads,
             status[r] \in Active, \A q \in Runs : q # r => status'[q] = status[q],
             ~entered'[r], \A q \in Runs : q # r => entered'[q] = entered[q]
      PROVE  TreeExplained' /\ EnteredStays'
  <2>1. TreeExplained'
    BY <1>0, <1>7 DEF TypeOK
  <2>2. \A q \in Runs : q # r => ~entered[q]
    BY <1>7 DEF OneActive, RunInv
  <2>3. EnteredStays'
    BY <1>7, <2>2 DEF EnteredStays
  <2>4. QED
    BY <2>1, <2>3
<1>8. ASSUME NEW r \in Runs, AddFails(r) PROVE TreeExplained' /\ EnteredStays'
  BY <1>7, <1>8 DEF AddFails, TypeOK, RunInv
<1>9. ASSUME NEW r \in Runs, Leave(r) PROVE TreeExplained' /\ EnteredStays'
  <2>0. /\ sha[r] \in Heads /\ sha' = sha /\ status[r] \in {"run", "raised"}
        /\ \A q \in Runs : q # r => status'[q] = status[q] /\ entered'[q] = entered[q]
        /\ ~entered'[r]
    BY <1>9 DEF Leave, Leaving, Forget, TypeOK, RunInv
  <2>1. CASE entered[r] /\ tree' = [tree EXCEPT ![sha[r]] = "none"]
    BY <1>7, <2>0, <2>1
  <2>2. CASE ~entered[r] /\ UNCHANGED tree
    <3>1. TreeExplained'
      BY <2>0, <2>2 DEF TreeExplained
    <3>2. EnteredStays'
      BY <2>0, <2>2 DEF EnteredStays
    <3>3. QED
      BY <3>1, <3>2
  <2>3. CASE /\ status'[r] = "stuck"
             /\ \/ UNCHANGED tree
                \/ tree[sha[r]] = "full" /\ tree' = [tree EXCEPT ![sha[r]] = "partial"]
    <3>1. TreeExplained'
      BY <1>0, <2>0, <2>3 DEF TypeOK
    <3>2. \A h \in Heads : tree'[h] = tree[h] \/ tree'[h] = "partial"
      BY <2>0, <2>3 DEF TypeOK
    <3>3. EnteredStays'
      <4>1. ASSUME NEW q \in Runs, entered'[q] PROVE tree'[sha'[q]] # "none"
        <5>1. q # r /\ entered[q] /\ sha'[q] = sha[q] /\ sha[q] \in Heads
          BY <2>0, <4>1 DEF RunInv
        <5>2. QED
          BY <3>2, <5>1 DEF EnteredStays
      <4>2. QED
        BY <4>1 DEF EnteredStays
    <3>4. QED
      BY <3>1, <3>3
  <2>4. QED
    BY <1>9, <2>1, <2>2, <2>3 DEF Leave, TypeOK
<1>10. ASSUME NEW r \in Runs, Kill(r) PROVE TreeExplained' /\ EnteredStays'
  <2>0. /\ sha[r] \in Heads /\ sha' = sha /\ status[r] \in Active
        /\ \A q \in Runs : q # r => status'[q] = status[q] /\ entered'[q] = entered[q]
        /\ ~entered'[r]
    BY <1>10 DEF Kill, Forget, TypeOK, RunInv
  <2>1. CASE UNCHANGED tree /\ status'[r] = IF status[r] = "adding" THEN "cut" ELSE "dead"
    <3>1. TreeExplained'
      BY <2>0, <2>1 DEF TreeExplained, RunInv
    <3>2. EnteredStays'
      BY <2>0, <2>1 DEF EnteredStays
    <3>3. QED
      BY <3>1, <3>2
  <2>2. CASE tree' = [tree EXCEPT ![sha[r]] = "partial"] /\ status'[r] = "cut" /\ status[r] # "adding"
    <3>1. TreeExplained'
      BY <1>0, <2>0, <2>2 DEF TypeOK
    <3>2. EnteredStays'
      BY <2>0, <2>2 DEF EnteredStays, TypeOK, RunInv
    <3>3. QED
      BY <3>1, <3>2
  <2>3. QED
    BY <1>10, <2>1, <2>2 DEF Kill, Leaving, At, TypeOK, AutoWriters
<1>11. QED
  BY <1>1, <1>2, <1>3, <1>4, <1>5, <1>6, <1>8, <1>9, <1>10, InTreeNodes
     DEF Next, Node, AllEnded

\* The steps after which a run is still active, or which no run takes.
Stays(r) ==
    \/ ReuseWorktree(r) \/ AddWorktree(r) \/ AddDone(r) \/ AddFails(r) \/ Raise(r)
    \/ DiffMap(r) \/ PrRefs(r) \/ UnitRegress(r) \/ Arch(r)
    \/ Validate(r) \/ Gate(r) \/ SelfCheck(r) \/ Report(r) \/ Episodic(r)

LEMMA StaysFacts ==
    ASSUME TypeOK, NEW r \in Runs, Stays(r)
    PROVE  /\ status[r] \in Active /\ UNCHANGED <<sha, graph, packed, served, batch, single, auto>>
           /\ \A q \in Runs : q # r => status'[q] = status[q] /\ todo'[q] = todo[q]
           /\ \/ todo' = todo /\ status'[r] # "run"
              \/ status[r] = "adding" /\ Advance(r)
              \/ \E node : At(r, node) /\ Advance(r) /\ node \notin AutoWriters \cup {"pack"}
  BY DEF Stays, ReuseWorktree, AddWorktree, AddDone, AddFails, Raise, DiffMap, PrRefs, UnitRegress,
       Arch, Validate, Gate, SelfCheck, Report, Episodic, Quietly, At, Advance, TypeOK,
       Active, AutoWriters, outVars

\* A run that ends keeps nothing of its own; its files and its head stay.
LEMMA EndsFacts ==
    ASSUME TypeOK, NEW r \in Runs, Leave(r) \/ Kill(r)
    PROVE  /\ status[r] \in Active /\ status'[r] \in Ended /\ UNCHANGED <<sha, single, batch>>
           /\ packed'[r] = 0 /\ served'[r] = {} /\ graph'[r] = None
           /\ \A q \in Runs : q # r =>
                /\ status'[q] = status[q] /\ todo'[q] = todo[q] /\ graph'[q] = graph[q]
                /\ packed'[q] = packed[q] /\ served'[q] = served[q]
<1>1. status[r] \in Active /\ UNCHANGED <<sha, single, batch>> /\ Forget(r)
  BY DEF Leave, Leaving, Kill, Active, outVars
<1>2. /\ packed'[r] = 0 /\ served'[r] = {} /\ graph'[r] = None
      /\ \A q \in Runs : q # r => /\ todo'[q] = todo[q] /\ graph'[q] = graph[q]
                                  /\ packed'[q] = packed[q] /\ served'[q] = served[q]
  BY <1>1 DEF Forget, TypeOK
<1>3. status'[r] \in Ended /\ \A q \in Runs : q # r => status'[q] = status[q]
  BY DEF Leave, Kill, Ended, TypeOK
<1>4. QED
  BY <1>1, <1>2, <1>3

\* Nobody else writes the numbered files while a run is active, and pack comes before
\* review_request.
LEMMA PacksStep ==
    ASSUME TypeOK, RunInv, Serial, OneActive, PacksKept, OwnBatchesServed, [Next]_vars
    PROVE  PacksKept' /\ OwnBatchesServed'
<1> USE DEF runVars, outVars
<1>0. Active \cap (Ended \cup {"idle"}) = {}
  BY DEF Active, Ended
<1>1. CASE Push \/ UNCHANGED vars
  BY <1>1 DEF Push, vars, PacksKept, OwnBatchesServed
<1>2. ASSUME NEW r \in Runs, Begin(r) PROVE PacksKept' /\ OwnBatchesServed'
  <2>1. /\ UNCHANGED <<packed, served, batch>> /\ packed[r] = 0
        /\ \A q \in Runs : q # r => status'[q] = status[q] /\ sha'[q] = sha[q]
    BY <1>0, <1>2 DEF Begin, RunInv, TypeOK
  <2>2. PacksKept'
    BY <2>1 DEF PacksKept
  <2>3. OwnBatchesServed'
    BY <2>1 DEF OwnBatchesServed
  <2>4. QED
    BY <2>2, <2>3
<1>3. ASSUME NEW r \in Runs, status[r] \in Active, UNCHANGED <<packed, served, batch, sha>>,
             \A q \in Runs : q # r => status'[q] = status[q]
      PROVE  PacksKept' /\ OwnBatchesServed'
  BY <1>3 DEF PacksKept, OwnBatchesServed
<1>4. ASSUME NEW r \in Runs, Stays(r) \/ Codegraph(r) \/ PerfClaims(r) \/ OrBuf(r) \/ StaticLint(r)
      PROVE  PacksKept' /\ OwnBatchesServed'
  <2>1. CASE Stays(r)
    BY <1>3, <2>1, StaysFacts
  <2>2. CASE Codegraph(r) \/ PerfClaims(r) \/ OrBuf(r) \/ StaticLint(r)
    BY <1>3, <2>2 DEF Codegraph, PerfClaims, OrBuf, StaticLint, At, Active
  <2>3. QED
    BY <1>4, <2>1, <2>2
<1>5. ASSUME NEW r \in Runs, Pack(r) PROVE PacksKept' /\ OwnBatchesServed'
  <2>1. /\ sha[r] \in Heads /\ status[r] \in Active /\ UNCHANGED <<sha, served, status>>
        /\ served[r] = {}
    BY <1>5, TailFacts DEF Pack, At, RunInv, Active, TypeOK
  <2>2. PICK k \in 1..MaxBatches :
          /\ packed' = [packed EXCEPT ![r] = k]
          /\ k # 1 => batch' = [batch EXCEPT ![sha[r]] =
                                 [n \in 1..MaxBatches |-> IF n <= k THEN r ELSE batch[sha[r]][n]]]
    BY <1>5 DEF Pack
  <2>3. packed'[r] = k /\ \A q \in Runs : q # r => packed'[q] = packed[q]
    BY <2>2 DEF TypeOK
  <2>4. k > 1 => \A n \in 1..k : batch'[sha[r]][n] = r
    <3>1. \A n \in 1..k : n \in 1..MaxBatches /\ n <= k
      BY <2>2, BatchesAssumption
    <3>2. ASSUME k > 1
          PROVE  batch'[sha[r]] = [n \in 1..MaxBatches |-> IF n <= k THEN r ELSE batch[sha[r]][n]]
      <4>1. k # 1 /\ DOMAIN batch = Heads
        BY <3>2, <2>2 DEF TypeOK
      <4>2. QED
        BY <2>1, <2>2, <4>1
    <3>3. QED
      BY <3>1, <3>2
  <2>5. PacksKept'
    BY <2>1, <2>3, <2>4 DEF PacksKept, OneActive
  <2>6. OwnBatchesServed'
    BY <2>1, <2>3 DEF OwnBatchesServed
  <2>7. QED
    BY <2>5, <2>6
<1>6. ASSUME NEW r \in Runs, ReviewRequest(r) PROVE PacksKept' /\ OwnBatchesServed'
  <2>1. /\ sha[r] \in Heads /\ status[r] \in Active /\ UNCHANGED <<sha, packed, status, batch>>
        /\ served'[r] = PackBatches(sha[r]) /\ \A q \in Runs : q # r => served'[q] = served[q]
    BY <1>6 DEF ReviewRequest, At, RunInv, Active, TypeOK
  <2>2. PacksKept'
    BY <2>1 DEF PacksKept
  <2>3. ASSUME packed[r] > 1, NEW n \in 1..packed[r] PROVE <<n, r>> \in served'[r]
    <3>1. batch[sha[r]][n] = r /\ n \in 1..MaxBatches /\ r # None
      BY <2>1, <2>3, BatchesAssumption, NoneAssumption DEF PacksKept, TypeOK
    <3>2. QED
      BY <2>1, <3>1 DEF PackBatches
  <2>4. OwnBatchesServed'
    BY <2>1, <2>3 DEF OwnBatchesServed
  <2>5. QED
    BY <2>2, <2>4
<1>7. ASSUME NEW r \in Runs, Leave(r) \/ Kill(r) PROVE PacksKept' /\ OwnBatchesServed'
  BY <1>0, <1>7, EndsFacts DEF PacksKept, OwnBatchesServed
<1>8. QED
  BY <1>1, <1>2, <1>4, <1>5, <1>6, <1>7 DEF Next, Node, AllEnded, Stays

\* A code graph that lacks files has a git worktree cut off or failed behind it.
LEMMA LackingStep ==
    ASSUME TypeOK, RunInv, Serial, OneActive, TreeExplained, EnteredStays, LackingOnlyAfterCut,
           [Next]_vars
    PROVE  LackingOnlyAfterCut'
<1> USE DEF runVars, outVars
<1>0. /\ Active \cap (Ended \cup {"idle"}) = {} /\ {"cut", "stuck"} \cap (Active \cup {"idle"}) = {}
      /\ {"run", "adding"} \subseteq Active
  BY DEF Active, Ended
<1>1. CASE Push \/ UNCHANGED vars
  BY <1>1 DEF Push, vars, LackingOnlyAfterCut
<1>2. ASSUME NEW r \in Runs, status[r] \notin {"cut", "stuck"},
             graph'[r] # "lacking" \/ (graph'[r] = graph[r] /\ sha'[r] = sha[r]),
             \A q \in Runs : q # r => /\ status'[q] = status[q] /\ sha'[q] = sha[q]
                                      /\ graph'[q] = graph[q]
      PROVE  LackingOnlyAfterCut'
  BY <1>2 DEF LackingOnlyAfterCut
<1>3. ASSUME NEW r \in Runs, Begin(r) PROVE LackingOnlyAfterCut'
  <2>1. graph'[r] = None /\ status[r] = "idle"
    BY <1>0, <1>3 DEF Begin, RunInv
  <2>2. \A q \in Runs : q # r => /\ status'[q] = status[q] /\ sha'[q] = sha[q]
                               /\ graph'[q] = graph[q]
    BY <1>3 DEF Begin, TypeOK
  <2>3. graph'[r] # "lacking" /\ status[r] \notin {"cut", "stuck"}
    BY <2>1, NoneAssumption
  <2>4. QED
    BY <2>2, <2>3 DEF LackingOnlyAfterCut
<1>4. ASSUME NEW r \in Runs, Stays(r) PROVE LackingOnlyAfterCut'
  BY <1>0, <1>2, <1>4, StaysFacts
<1>5. ASSUME NEW r \in Runs, Pack(r) \/ PerfClaims(r) \/ OrBuf(r) \/ StaticLint(r) \/ ReviewRequest(r)
      PROVE  LackingOnlyAfterCut'
  BY <1>0, <1>2, <1>5 DEF Pack, PerfClaims, OrBuf, StaticLint, ReviewRequest, At
<1>6. ASSUME NEW r \in Runs, Codegraph(r) PROVE LackingOnlyAfterCut'
  <2>1. /\ sha[r] \in Heads /\ status[r] = "run" /\ UNCHANGED <<status, sha>>
        /\ \A q \in Runs : q # r => graph'[q] = graph[q]
        /\ graph'[r] = IF tree[sha[r]] = "full" THEN "whole" ELSE "lacking"
    BY <1>6 DEF Codegraph, At, RunInv, TypeOK
  <2>2. entered[r]
    BY <1>6, FirstNode DEF Codegraph, TypeOK
  <2>3. tree[sha[r]] \in {"partial", "full"}
    BY <2>1, <2>2 DEF EnteredStays, TypeOK
  <2>4. CASE tree[sha[r]] = "partial"
    <3>1. PICK q \in Runs : sha[q] = sha[r] /\ status[q] \in {"adding", "cut", "stuck"}
      BY <2>1, <2>4 DEF TreeExplained
    <3>2. q # r /\ status[q] \in {"cut", "stuck"}
      BY <1>0, <2>1, <3>1 DEF OneActive
    <3>3. QED
      BY <2>1, <3>1, <3>2 DEF LackingOnlyAfterCut
  <2>5. CASE tree[sha[r]] = "full"
    BY <1>2, <2>1, <2>5
  <2>6. QED
    BY <2>3, <2>4, <2>5
<1>7. ASSUME NEW r \in Runs, Leave(r) \/ Kill(r) PROVE LackingOnlyAfterCut'
  BY <1>0, <1>2, <1>7, EndsFacts, NoneAssumption
<1>8. QED
  BY <1>1, <1>3, <1>4, <1>5, <1>6, <1>7 DEF Next, Node, AllEnded, Stays

\* What a run has written, told from what it has left to do.
WrittenWith(E, r) ==
    {f \in Kinds \X {r} : \/ f[1] = "MEAS" /\ "perf_claims" \notin E
                          \/ f[1] = "OR" /\ "or_buf" \notin E
                          \/ f[1] = "LINT" /\ "static_lint" \notin E}

LEMMA WrittenIs ==
    ASSUME TypeOK, NEW r \in Runs
    PROVE  Written(r) = WrittenWith(Elems(todo[r]), r)
<1>1. todo[r] \in Seq(Nodes)
  BY DEF TypeOK
<1>2. Left(r) = Elems(todo[r])
  BY <1>1 DEF Left, Elems
<1>3. QED
  BY <1>2 DEF Written, WrittenWith

\* The three nodes add their findings one after the other.
LEMMA WrittenValues ==
    ASSUME NEW E, NEW r
    PROVE  /\ {"perf_claims", "or_buf", "static_lint"} \subseteq E => WrittenWith(E, r) = {}
           /\ "perf_claims" \notin E /\ {"or_buf", "static_lint"} \subseteq E =>
                WrittenWith(E, r) = {<<"MEAS", r>>}
           /\ {"perf_claims", "or_buf"} \cap E = {} /\ "static_lint" \in E =>
                WrittenWith(E, r) = {<<"MEAS", r>>, <<"OR", r>>}
           /\ {"perf_claims", "or_buf", "static_lint"} \cap E = {} =>
                WrittenWith(E, r) = {<<"MEAS", r>>, <<"OR", r>>, <<"LINT", r>>}
  BY DEF WrittenWith, Kinds

\* The other nodes add none.
LEMMA WrittenSame ==
    ASSUME NEW E, NEW r, NEW node, node \notin AutoWriters
    PROVE  WrittenWith(E \ {node}, r) = WrittenWith(E, r)
<1>1. \A n \in AutoWriters : n \in E \ {node} <=> n \in E
  OBVIOUS
<1>2. QED
  BY <1>1 DEF WrittenWith, AutoWriters

\* While the only active run proceeds, findings.auto.json holds what it has written.
LEMMA AutoStep ==
    ASSUME TypeOK, RunInv, TypeOK', Serial, OneActive, AutoIsOwn, [Next]_vars
    PROVE  AutoIsOwn'
<1> USE DEF runVars, outVars
<1>0. Active \cap (Ended \cup {"idle"}) = {} /\ {"run", "adding"} \subseteq Active
  BY DEF Active, Ended
<1>1. CASE Push \/ UNCHANGED vars
  BY <1>1 DEF Push, vars, AutoIsOwn, Written, Left
<1>2. ASSUME NEW r \in Runs, status[r] \in Active,
             \A q \in Runs : q # r => status'[q] = status[q],
             status'[r] = "run" /\ packed'[r] > 0 /\ Written(r)' # {} =>
               auto'[sha'[r]] = [whole |-> TRUE, items |-> Written(r)']
      PROVE  AutoIsOwn'
  <2>1. ASSUME NEW q \in Runs, status'[q] = "run" PROVE q = r
    BY <1>0, <1>2, <2>1 DEF OneActive
  <2>2. QED
    BY <1>2, <2>1 DEF AutoIsOwn
<1>3. ASSUME NEW r \in Runs, Begin(r) PROVE AutoIsOwn'
  <2>1. packed'[r] = 0
    BY <1>0, <1>3 DEF Begin, RunInv
  <2>2. \A q \in Runs : q # r => status'[q] # "run"
    BY <1>0, <1>3 DEF Begin, TypeOK
  <2>3. QED
    BY <2>1, <2>2 DEF AutoIsOwn
<1>4. ASSUME NEW r \in Runs, NEW node, At(r, node), Advance(r)
      PROVE  /\ Written(r) = WrittenWith(Elems(todo[r]), r)
             /\ Written(r)' = WrittenWith(Elems(todo'[r]), r)
             /\ Elems(todo'[r]) = Elems(todo[r]) \ {node} /\ node \in Elems(todo[r])
             /\ AutoAhead(Elems(todo[r]))
             /\ \A n \in Elems(todo'[r]) : Rank[node] < Rank[n]
  <2>1. Written(r) = WrittenWith(Elems(todo[r]), r)
    BY WrittenIs
  <2>2. Written(r)' = WrittenWith(Elems(todo'[r]), r)
    <3>1. todo'[r] \in Seq(Nodes)
      BY DEF TypeOK
    <3>2. Left(r)' = Elems(todo'[r])
      BY <3>1 DEF Left, Elems
    <3>3. QED
      BY <3>2 DEF Written, WrittenWith
  <2>3. QED
    BY <1>4, <2>1, <2>2, AdvanceFacts DEF At, RunInv
<1>5. ASSUME NEW r \in Runs, NEW node, At(r, node), Advance(r), node \notin AutoWriters \cup {"pack"},
             UNCHANGED <<status, sha, packed, auto>>
      PROVE  AutoIsOwn'
  <2>1. Written(r)' = Written(r)
    BY <1>4, <1>5, WrittenSame
  <2>2. status[r] \in Active
    BY <1>0, <1>5 DEF At
  <2>3. QED
    BY <1>2, <1>5, <2>1, <2>2 DEF AutoIsOwn
<1>6. ASSUME NEW r \in Runs, Stays(r) PROVE AutoIsOwn'
  <2>1. /\ status[r] \in Active /\ UNCHANGED <<sha, packed, auto>>
        /\ \A q \in Runs : q # r => status'[q] = status[q]
    BY <1>6, StaysFacts
  <2>2. CASE status'[r] # "run"
    BY <1>2, <2>1, <2>2
  <2>3. CASE status[r] = "adding"
    <3>1. ~(packed'[r] > 0)
      BY <2>1, <2>3 DEF RunInv, TypeOK
    <3>2. QED
      BY <1>2, <2>1, <3>1
  <2>4. CASE \E node : At(r, node) /\ Advance(r) /\ node \notin AutoWriters \cup {"pack"}
    <3>1. PICK node : At(r, node) /\ Advance(r) /\ node \notin AutoWriters \cup {"pack"}
      BY <2>4
    <3>2. Written(r)' = Written(r)
      BY <1>4, <3>1, WrittenSame
    <3>3. status[r] = "run"
      BY <3>1 DEF At
    <3>4. QED
      BY <1>2, <2>1, <3>2, <3>3 DEF AutoIsOwn
  <2>5. QED
    BY <1>6, <2>2, <2>3, <2>4, StaysFacts
<1>7. ASSUME NEW r \in Runs, Codegraph(r) \/ ReviewRequest(r) PROVE AutoIsOwn'
  <2>1. CASE Codegraph(r)
    BY <1>5, <2>1 DEF Codegraph, AutoWriters
  <2>2. CASE ReviewRequest(r)
    BY <1>5, <2>2 DEF ReviewRequest, AutoWriters
  <2>3. QED
    BY <1>7, <2>1, <2>2
<1>8. ASSUME NEW r \in Runs, Pack(r) PROVE AutoIsOwn'
  <2>1. At(r, "pack") /\ Advance(r) /\ status[r] \in Active /\ status' = status
    BY <1>0, <1>8 DEF Pack, At
  <2>2. {"perf_claims", "or_buf", "static_lint"} \subseteq Elems(todo'[r])
    BY <1>4, <2>1 DEF AutoAhead
  <2>3. Written(r)' = {}
    BY <1>4, <2>1, <2>2, WrittenValues
  <2>4. QED
    BY <1>2, <2>1, <2>3
<1>9. ASSUME NEW r \in Runs, NEW items, WriteAuto(r, items), sha' = sha, status' = status,
             status[r] = "run", packed[r] > 0 => items = Written(r)', packed' = packed
      PROVE  AutoIsOwn'
  <2>1. sha[r] \in Heads
    BY <1>9 DEF RunInv
  <2>2. auto'[sha[r]] = [whole |-> TRUE, items |-> items]
    BY <1>9, <2>1 DEF WriteAuto, TypeOK
  <2>3. QED
    BY <1>0, <1>2, <1>9, <2>2
<1> DEFINE Ranks == /\ Rank["perf_claims"] = 5 /\ Rank["or_buf"] = 7 /\ Rank["static_lint"] = 8
<1>10. Ranks
  BY DEF Rank, Nodes
<1>11. ASSUME NEW r \in Runs, PerfClaims(r) PROVE AutoIsOwn'
  <2>1. At(r, "perf_claims") /\ Advance(r) /\ status[r] = "run"
    BY <1>11 DEF PerfClaims, At
  <2>2. "perf_claims" \notin Elems(todo'[r]) /\ {"or_buf", "static_lint"} \subseteq Elems(todo'[r])
    BY <1>4, <2>1 DEF AutoAhead
  <2>3. Written(r)' = {<<"MEAS", r>>}
    BY <1>4, <2>1, <2>2, WrittenValues
  <2>4. QED
    BY <1>9, <1>11, <2>1, <2>3 DEF PerfClaims
<1>12. ASSUME NEW r \in Runs, OrBuf(r) PROVE AutoIsOwn'
  <2>1. At(r, "or_buf") /\ Advance(r) /\ status[r] = "run"
    BY <1>12 DEF OrBuf, At
  <2>2. /\ {"perf_claims", "or_buf"} \cap Elems(todo'[r]) = {} /\ "static_lint" \in Elems(todo'[r])
        /\ "perf_claims" \notin Elems(todo[r]) /\ {"or_buf", "static_lint"} \subseteq Elems(todo[r])
    BY <1>4, <1>10, <2>1 DEF AutoAhead
  <2>3. Written(r)' = {<<"MEAS", r>>, <<"OR", r>>} /\ Written(r) = {<<"MEAS", r>>}
    BY <1>4, <2>1, <2>2, WrittenValues
  <2>4. packed[r] > 0 => auto[sha[r]].items = {<<"MEAS", r>>}
    <3>1. Written(r) # {}
      BY <2>3
    <3>2. packed[r] > 0 => auto[sha[r]] = [whole |-> TRUE, items |-> Written(r)]
      BY <2>1, <3>1 DEF AutoIsOwn
    <3>3. QED
      BY <2>3, <3>2
  <2>5. packed[r] > 0 => auto[sha[r]].items \cup {<<"OR", r>>} = Written(r)'
    BY <2>3, <2>4
  <2>6. QED
    BY <1>9, <1>12, <2>1, <2>5 DEF OrBuf
<1>13. ASSUME NEW r \in Runs, StaticLint(r) PROVE AutoIsOwn'
  <2>1. At(r, "static_lint") /\ Advance(r) /\ status[r] = "run"
    BY <1>13 DEF StaticLint, At
  <2>2. /\ {"perf_claims", "or_buf", "static_lint"} \cap Elems(todo'[r]) = {}
        /\ {"perf_claims", "or_buf"} \cap Elems(todo[r]) = {} /\ "static_lint" \in Elems(todo[r])
    BY <1>4, <1>10, <2>1
  <2>3. /\ Written(r)' = {<<"MEAS", r>>, <<"OR", r>>, <<"LINT", r>>}
        /\ Written(r) = {<<"MEAS", r>>, <<"OR", r>>}
    BY <1>4, <2>1, <2>2, WrittenValues
  <2>4. packed[r] > 0 => auto[sha[r]].items = {<<"MEAS", r>>, <<"OR", r>>}
    <3>1. Written(r) # {}
      BY <2>3
    <3>2. packed[r] > 0 => auto[sha[r]] = [whole |-> TRUE, items |-> Written(r)]
      BY <2>1, <3>1 DEF AutoIsOwn
    <3>3. QED
      BY <2>3, <3>2
  <2>5. packed[r] > 0 =>
          (auto[sha[r]].items \ ({"LINT"} \X Runs)) \cup {<<"LINT", r>>} = Written(r)'
    BY <2>3, <2>4
  <2>6. QED
    BY <1>9, <1>13, <2>1, <2>5 DEF StaticLint
<1>14. ASSUME NEW r \in Runs, Leave(r) \/ Kill(r) PROVE AutoIsOwn'
  BY <1>0, <1>2, <1>14, EndsFacts
<1>15. QED
  BY <1>1, <1>3, <1>6, <1>7, <1>8, <1>11, <1>12, <1>13, <1>14 DEF Next, Node, AllEnded, Stays

-----------------------------------------------------------------------------
(* The theorems *)

\* The first state: no run has begun.
LEMMA InitInd == Init => IndInv
<1> SUFFICES ASSUME Init PROVE IndInv
  OBVIOUS
<1>1. TypeOK
  <2>1. <<>> \in Seq(Nodes) /\ 0 \in 0..MaxBatches
    BY BatchesAssumption
  <2>2. QED
    BY <2>1 DEF Init, TypeOK
<1>2. RunInv
  <2>1. Ordered(<<>>) /\ AutoAhead(Elems(<<>>))
    BY DEF Ordered, AutoAhead, Elems
  <2>2. ASSUME NEW r \in Runs PROVE RunInv!(r)
    <3>1. /\ todo[r] = <<>> /\ status[r] = "idle" /\ ~entered[r] /\ graph[r] = None
          /\ packed[r] = 0 /\ served[r] = {}
      BY DEF Init
    <3>2. QED
      BY <2>1, <3>1 DEF Active
  <2>3. QED
    BY <2>2 DEF RunInv
<1>3. SerialInv
  BY DEF Init, SerialInv, OneActive, TreeExplained, EnteredStays, PacksKept, Active
<1>4. AutoIsOwn /\ LackingOnlyAfterCut /\ OwnBatchesServed
  BY NoneAssumption DEF Init, AutoIsOwn, LackingOnlyAfterCut, OwnBatchesServed
<1>5. QED
  BY <1>1, <1>2, <1>3, <1>4 DEF IndInv

\* IndInv holds in every state of every behaviour of the runs.
THEOREM Inductive == Spec => []IndInv
<1>1. ASSUME IndInv, [Next]_vars PROVE IndInv'
  <2>0. /\ TypeOK /\ RunInv /\ SerialInv /\ AutoIsOwn /\ LackingOnlyAfterCut /\ OwnBatchesServed
    BY <1>1 DEF IndInv
  <2>1. TypeOK' /\ RunInv'
    BY <1>1, <2>0, RunStep
  <2>2. CASE Serial
    <3>1. OneActive /\ TreeExplained /\ EnteredStays /\ PacksKept
      BY <2>0, <2>2 DEF SerialInv
    <3>2. OneActive'
      BY <1>1, <2>0, <2>2, <3>1, OneActiveStep
    <3>3. TreeExplained' /\ EnteredStays'
      BY <1>1, <2>0, <2>2, <3>1, TreeStep
    <3>4. PacksKept' /\ OwnBatchesServed'
      BY <1>1, <2>0, <2>2, <3>1, PacksStep
    <3>5. LackingOnlyAfterCut'
      BY <1>1, <2>0, <2>2, <3>1, LackingStep
    <3>6. AutoIsOwn'
      BY <1>1, <2>0, <2>1, <2>2, <3>1, AutoStep
    <3>7. QED
      BY <2>1, <3>2, <3>3, <3>4, <3>5, <3>6 DEF IndInv, SerialInv
  <2>3. CASE ~Serial
    BY <2>1, <2>3 DEF IndInv, SerialInv, AutoIsOwn, LackingOnlyAfterCut, OwnBatchesServed
  <2>4. QED
    BY <2>2, <2>3
<1>2. QED
  BY <1>1, InitInd, PTL DEF Spec

\* The fields of every run and of the shared directory keep their types, whether or
\* not the runs overlap.
THEOREM TypeCorrect == Spec => []TypeOK
<1>1. IndInv => TypeOK
  BY DEF IndInv
<1>2. QED
  BY <1>1, Inductive, PTL

\* From perf_claims on, findings.auto.json holds exactly the findings of the run that
\* is under way, however many runs on the head came before and however they ended.
THEOREM AutoOwn == Spec => []AutoIsOwn
<1>1. IndInv => AutoIsOwn
  BY DEF IndInv
<1>2. QED
  BY <1>1, Inductive, PTL

\* A code graph lacks files only on a head where git worktree add or remove was cut off
\* by a kill, or where git failed to remove the snapshot of an earlier run.
THEOREM LackingAfterCut == Spec => []LackingOnlyAfterCut
<1>1. IndInv => LackingOnlyAfterCut
  BY DEF IndInv
<1>2. QED
  BY <1>1, Inductive, PTL

\* A snapshot without an active run was left by a killed one or by a git that failed to
\* remove it, never by an exception of a node.
THEOREM LeftoverAfterKill == Spec => []LeftoverOnlyAfterKill
<1>1. ASSUME IndInv PROVE LeftoverOnlyAfterKill
  <2>1. ASSUME Serial, NEW h \in Heads, tree[h] # "none"
        PROVE  \E r \in Runs : sha[r] = h /\ status[r] \in Active \cup {"dead", "cut", "stuck"}
    <3>1. TreeExplained /\ tree[h] \in {"partial", "full"}
      BY <1>1, <2>1 DEF IndInv, SerialInv, TypeOK
    <3>2. QED
      BY <3>1 DEF TreeExplained, Active
  <2>2. QED
    BY <2>1 DEF LeftoverOnlyAfterKill
<1>2. QED
  BY <1>1, Inductive, PTL

\* Every batch a run packed is in its request as this run wrote it.
THEOREM BatchesServed == Spec => []OwnBatchesServed
<1>1. IndInv => OwnBatchesServed
  BY DEF IndInv
<1>2. QED
  BY <1>1, Inductive, PTL

=============================================================================
