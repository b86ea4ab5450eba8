------------------------------- MODULE Pipeline -------------------------------
(***************************************************************************)
(* tools/harness/pipeline.py and run_support.py: the runs of the review     *)
(* harness on one pull request.  A run asks GitHub for the head, then       *)
(* executes the nodes of its YAML graph in order; the nodes share the       *)
(* directory out/<pr>/<sha> with all the runs on the same head, and the     *)
(* snapshot base/wt-<sha>.  The author may push at any moment, any node may *)
(* raise, and a run may be killed.                                          *)
(***************************************************************************)
EXTENDS Integers, Sequences

CONSTANTS
    Runs,           \* the invocations of tools.harness.run
    Heads,          \* the commits the PR's branch points to, over time
    MaxBatches,     \* bound on the number of batches of a context pack
    Serial,         \* are the runs started one after the other
    None

ASSUME BatchesAssumption == MaxBatches \in Nat \ {0}
ASSUME SerialAssumption == Serial \in BOOLEAN
ASSUME NoneAssumption == None \notin Runs \cup Heads \cup {"whole", "lacking"}

VARIABLES
    head,       \* GitHub: the head of the PR
    status,     \* how far each run is
    todo,       \* the nodes each run still has to execute
    sha,        \* the head each run reviews
    local,      \* is it a local revision (--sha) rather than the PR's head
    entered,    \* 'wt' in c: has the run entered the snapshot
    diffOf,     \* the head whose diff the run works with
    graph,      \* did the code graph see the whole tree
    packed,     \* n_batches
    served,     \* the packs in the review request: <<number, run that wrote it>>
    tree,       \* base/wt-<sha>: "none", "partial" or "full"
    single,     \* context_pack.md: the run that wrote it
    batch,      \* context_pack.batch<n>.md: the run that wrote it
    auto        \* findings.auto.json: is it whole, and whose findings are in it

runVars == <<status, todo, sha, local, entered, diffOf, graph, packed, served>>
outVars == <<single, batch, auto>>
vars == <<head, runVars, tree, outVars>>

Active == {"run", "adding", "raised"}
Ended == {"done", "failed", "stuck", "dead", "cut"}

-----------------------------------------------------------------------------
(* harness/pipelines: the nodes of each graph, in order.                    *)

Initialize == <<"worktree", "diff_map", "codegraph">>
Context == <<"pack", "perf_claims", "pr_refs", "or_buf", "static_lint">>
Verify == <<"validate", "gate", "self_check">>

Plans == {
    Initialize \o Context,                                          \* review
    Initialize \o Context \o <<"arch">>,                            \* design
    Initialize \o Verify \o <<"episodic">>,                         \* adjudicate
    Initialize \o Context \o <<"unit_regress", "arch", "review_request">>,
    Initialize \o Context \o <<"unit_regress", "arch", "review_request">>
        \o Verify \o <<"report", "episodic">> }                     \* full --findings

Nodes == {"worktree", "diff_map", "codegraph", "pack", "perf_claims", "pr_refs",
          "or_buf", "static_lint", "unit_regress", "arch", "review_request",
          "validate", "gate", "self_check", "report", "episodic"}

AutoWriters == {"perf_claims", "or_buf", "static_lint"}

\* The findings a node of a run puts into findings.auto.json: one element <<kind, run>>.
Kinds == {"MEAS", "OR", "LINT"}

TypeOK ==
    /\ head \in Heads
    /\ status \in [Runs -> {"idle"} \cup Active \cup Ended]
    /\ todo \in [Runs -> Seq(Nodes)]
    /\ sha \in [Runs -> Heads \cup {None}]
    /\ local \in [Runs -> BOOLEAN]
    /\ entered \in [Runs -> BOOLEAN]
    /\ diffOf \in [Runs -> Heads \cup {None}]
    /\ graph \in [Runs -> {None, "whole", "lacking"}]
    /\ packed \in [Runs -> 0..MaxBatches]
    /\ served \in [Runs -> SUBSET ((0..MaxBatches) \X Runs)]
    /\ tree \in [Heads -> {"none", "partial", "full"}]
    /\ single \in [Heads -> Runs \cup {None}]
    /\ batch \in [Heads -> [1..MaxBatches -> Runs \cup {None}]]
    /\ auto \in [Heads -> [whole : BOOLEAN, items : SUBSET (Kinds \X Runs)]]

Init ==
    /\ head \in Heads
    /\ status = [r \in Runs |-> "idle"]
    /\ todo = [r \in Runs |-> <<>>]
    /\ sha = [r \in Runs |-> None]
    /\ local = [r \in Runs |-> FALSE]
    /\ entered = [r \in Runs |-> FALSE]
    /\ diffOf = [r \in Runs |-> None]
    /\ graph = [r \in Runs |-> None]
    /\ packed = [r \in Runs |-> 0]
    /\ served = [r \in Runs |-> {}]
    /\ tree = [h \in Heads |-> "none"]
    /\ single = [h \in Heads |-> None]
    /\ batch = [h \in Heads |-> [n \in 1..MaxBatches |-> None]]
    /\ auto = [h \in Heads |-> [whole |-> TRUE, items |-> {}]]

-----------------------------------------------------------------------------
(* run: one node after the other *)

\* The author pushes (or force-pushes) the branch.
Push ==
    /\ head' \in Heads \ {head}
    /\ UNCHANGED <<runVars, tree, outVars>>

\* Load the graph, ask for the head (or resolve --sha), make out/<pr>/<sha>.
Begin(r) ==
    /\ status[r] = "idle"
    /\ Serial => \A q \in Runs : status[q] \notin Active
    /\ \E plan \in Plans : todo' = [todo EXCEPT ![r] = plan]
    /\ \/ sha' = [sha EXCEPT ![r] = head] /\ UNCHANGED local
       \/ \E h \in Heads : sha' = [sha EXCEPT ![r] = h] /\ local' = [local EXCEPT ![r] = TRUE]
    /\ status' = [status EXCEPT ![r] = "run"]
    /\ UNCHANGED <<head, entered, diffOf, graph, packed, served, tree, outVars>>

At(r, node) == status[r] = "run" /\ todo[r] # <<>> /\ Head(todo[r]) = node
Advance(r) == todo' = [todo EXCEPT ![r] = Tail(@)]

\* Mutant of ReuseWorktree: the directory is not looked for.
EnterUnseen(r) ==
    /\ At(r, "worktree")
    /\ entered' = [entered EXCEPT ![r] = TRUE]
    /\ Advance(r)
    /\ UNCHANGED <<head, status, sha, local, diffOf, graph, packed, served, tree, outVars>>

\* n_worktree: the directory is there already and is taken as it is.
ReuseWorktree(r) ==
    /\ At(r, "worktree")
    /\ tree[sha[r]] # "none"
    /\ entered' = [entered EXCEPT ![r] = TRUE]
    /\ Advance(r)
    /\ UNCHANGED <<head, status, sha, local, diffOf, graph, packed, served, tree, outVars>>

\* git worktree add begins: the directory appears before its files.
AddWorktree(r) ==
    /\ At(r, "worktree")
    /\ tree[sha[r]] = "none"
    /\ tree' = [tree EXCEPT ![sha[r]] = "partial"]
    /\ status' = [status EXCEPT ![r] = "adding"]
    /\ UNCHANGED <<head, todo, sha, local, entered, diffOf, graph, packed, served, outVars>>

AddDone(r) ==
    /\ status[r] = "adding"
    /\ tree' = [tree EXCEPT ![sha[r]] = "full"]
    /\ status' = [status EXCEPT ![r] = "run"]
    /\ entered' = [entered EXCEPT ![r] = TRUE]
    /\ Advance(r)
    /\ UNCHANGED <<head, sha, local, diffOf, graph, packed, served, outVars>>

\* It fails, also after the fetch: git removes what it made, n_worktree raises.
AddFails(r) ==
    /\ status[r] = "adding"
    /\ tree' = [tree EXCEPT ![sha[r]] = "none"]
    /\ status' = [status EXCEPT ![r] = "raised"]
    /\ UNCHANGED <<head, todo, sha, local, entered, diffOf, graph, packed, served, outVars>>

\* n_diff_map: gh pr diff is the diff of the head GitHub has now; --sha takes git's.
DiffMap(r) ==
    /\ At(r, "diff_map")
    /\ diffOf' = [diffOf EXCEPT ![r] = IF local[r] THEN sha[r] ELSE head]
    /\ Advance(r)
    /\ UNCHANGED <<head, status, sha, local, entered, graph, packed, served, tree, outVars>>

\* n_codegraph: files that are not in the tree are passed over.  A cached graph is
\* taken only for the same commit and the same `git status`: it saw the same tree.
Codegraph(r) ==
    /\ At(r, "codegraph")
    /\ graph' = [graph EXCEPT ![r] = IF tree[sha[r]] = "full" THEN "whole" ELSE "lacking"]
    /\ Advance(r)
    /\ UNCHANGED <<head, status, sha, local, entered, diffOf, packed, served, tree, outVars>>

\* Mutant of Pack: the numbers of the files start at 0.
PackFromZero(r) ==
    /\ At(r, "pack")
    /\ \E k \in 2..MaxBatches :
         /\ packed' = [packed EXCEPT ![r] = k]
         /\ batch' = [batch EXCEPT ![sha[r]] = [n \in 0..MaxBatches |-> IF n < k THEN r ELSE None]]
    /\ Advance(r)
    /\ UNCHANGED <<head, status, sha, local, entered, diffOf, graph, served, tree, single, auto>>

\* n_pack: one batch goes to context_pack.md, several to the numbered files; what an
\* earlier run left under the other names stays.
Pack(r) ==
    /\ At(r, "pack")
    /\ \E k \in 1..MaxBatches :
         /\ packed' = [packed EXCEPT ![r] = k]
         /\ IF k = 1
            THEN single' = [single EXCEPT ![sha[r]] = r] /\ UNCHANGED batch
            ELSE /\ batch' = [batch EXCEPT ![sha[r]] =
                                [n \in 1..MaxBatches |-> IF n <= k THEN r ELSE @[n]]]
                 /\ UNCHANGED single
    /\ Advance(r)
    /\ UNCHANGED <<head, status, sha, local, entered, diffOf, graph, served, tree, auto>>

WriteAuto(r, items) == auto' = [auto EXCEPT ![sha[r]] = [whole |-> TRUE, items |-> items]]

\* Mutant of PerfClaims: the node appends, as its successors do.
PerfClaimsAppends(r) ==
    /\ At(r, "perf_claims")
    /\ WriteAuto(r, auto[sha[r]].items \cup {<<"MEAS", r>>})
    /\ Advance(r)
    /\ UNCHANGED <<head, status, sha, local, entered, diffOf, graph, packed, served, tree, single, batch>>

\* n_perf_claims starts findings.auto.json afresh; n_or_buf appends; static_lint.node
\* replaces its own findings.
PerfClaims(r) ==
    /\ At(r, "perf_claims")
    /\ WriteAuto(r, {<<"MEAS", r>>})
    /\ Advance(r)
    /\ UNCHANGED <<head, status, sha, local, entered, diffOf, graph, packed, served, tree, single, batch>>

OrBuf(r) ==
    /\ At(r, "or_buf")
    /\ auto[sha[r]].whole
    /\ WriteAuto(r, auto[sha[r]].items \cup {<<"OR", r>>})
    /\ Advance(r)
    /\ UNCHANGED <<head, status, sha, local, entered, diffOf, graph, packed, served, tree, single, batch>>

StaticLint(r) ==
    /\ At(r, "static_lint")
    /\ auto[sha[r]].whole
    /\ WriteAuto(r, (auto[sha[r]].items \ ({"LINT"} \X Runs)) \cup {<<"LINT", r>>})
    /\ Advance(r)
    /\ UNCHANGED <<head, status, sha, local, entered, diffOf, graph, packed, served, tree, single, batch>>

\* Mutant of PackBatches: context_pack.md wins when there is one.
PackBatchesSingleFirst(h) ==
    IF single[h] # None THEN {<<0, single[h]>>}
    ELSE {<<n, batch[h][n]>> : n \in {m \in 1..MaxBatches : batch[h][m] # None}}

\* _pack_batches: the numbered files if there are any, else context_pack.md.
PackBatches(h) ==
    LET numbered == {n \in 1..MaxBatches : batch[h][n] # None}
    IN  IF numbered # {} THEN {<<n, batch[h][n]>> : n \in numbered}
        ELSE IF single[h] # None THEN {<<0, single[h]>>} ELSE {}

\* n_review_request: the packs there are, with the automatic findings.
ReviewRequest(r) ==
    /\ At(r, "review_request")
    /\ auto[sha[r]].whole
    /\ served' = [served EXCEPT ![r] = PackBatches(sha[r])]
    /\ Advance(r)
    /\ UNCHANGED <<head, status, sha, local, entered, diffOf, graph, packed, tree, outVars>>

\* n_validate reads the findings and findings.auto.json.
Validate(r) ==
    /\ At(r, "validate")
    /\ auto[sha[r]].whole
    /\ Advance(r)
    /\ UNCHANGED <<head, status, sha, local, entered, diffOf, graph, packed, served, tree, outVars>>

\* The nodes whose outputs, a value of the run or a file it writes whole each time,
\* no property is about.
Quietly(r, node) ==
    /\ At(r, node)
    /\ Advance(r)
    /\ UNCHANGED <<head, status, sha, local, entered, diffOf, graph, packed, served, tree, outVars>>

PrRefs(r) == Quietly(r, "pr_refs")
UnitRegress(r) == Quietly(r, "unit_regress")
Arch(r) == Quietly(r, "arch")
Gate(r) == Quietly(r, "gate")
SelfCheck(r) == Quietly(r, "self_check")
Report(r) == Quietly(r, "report")
Episodic(r) == Quietly(r, "episodic")

\* A node raises: what it needs from outside fails, or findings.auto.json is broken.
Raise(r) ==
    /\ status[r] = "run" /\ todo[r] # <<>>
    /\ status' = [status EXCEPT ![r] = "raised"]
    /\ UNCHANGED <<head, todo, sha, local, entered, diffOf, graph, packed, served, tree, outVars>>

\* The process is gone, and the context c with it.
Forget(r) ==
    /\ todo' = [todo EXCEPT ![r] = <<>>]
    /\ local' = [local EXCEPT ![r] = FALSE]
    /\ entered' = [entered EXCEPT ![r] = FALSE]
    /\ diffOf' = [diffOf EXCEPT ![r] = None]
    /\ graph' = [graph EXCEPT ![r] = None]
    /\ packed' = [packed EXCEPT ![r] = 0]
    /\ served' = [served EXCEPT ![r] = {}]

Leaving(r) == status[r] = "raised" \/ (status[r] = "run" /\ todo[r] = <<>>)

\* Mutant of Leave: the snapshot is removed after the last node only.
LeaveOnSuccessOnly(r) ==
    /\ Leaving(r)
    /\ status' = [status EXCEPT ![r] = IF @ = "run" THEN "done" ELSE "failed"]
    /\ tree' = [tree EXCEPT ![sha[r]] =
                  IF status[r] = "run" /\ @ = "full" THEN "none" ELSE @]
    /\ Forget(r)
    /\ UNCHANGED <<head, sha, outVars>>

\* The finally clause, after the last node or an exception: git worktree remove
\* --force, whose return code Worktree.__exit__ does not look at, and manifest.json.
\* Git may fail, before or after it has begun to delete, and refuses a tree whose
\* worktree add was cut off or that has lost its .git file: the run ends "stuck".
Leave(r) ==
    /\ Leaving(r)
    /\ \/ /\ tree' = IF entered[r] THEN [tree EXCEPT ![sha[r]] = "none"] ELSE tree
          /\ status' = [status EXCEPT ![r] = IF @ = "run" THEN "done" ELSE "failed"]
       \/ /\ entered[r]
          /\ \/ UNCHANGED tree
             \/ tree[sha[r]] = "full" /\ tree' = [tree EXCEPT ![sha[r]] = "partial"]
          /\ status' = [status EXCEPT ![r] = "stuck"]
    /\ Forget(r)
    /\ UNCHANGED <<head, sha, outVars>>

\* SIGKILL or a power failure: no finally clause.  A git worktree add or remove, or a
\* file being written, is left halfway.
Kill(r) ==
    /\ status[r] \in Active
    /\ \/ /\ status' = [status EXCEPT ![r] = IF @ = "adding" THEN "cut" ELSE "dead"]
          /\ UNCHANGED <<tree, auto>>
       \/ /\ Leaving(r) /\ entered[r]
          /\ status' = [status EXCEPT ![r] = "cut"]
          /\ tree' = [tree EXCEPT ![sha[r]] = "partial"]
          /\ UNCHANGED auto
       \/ /\ \E node \in AutoWriters : At(r, node)
          /\ status' = [status EXCEPT ![r] = "dead"]
          /\ auto' = [auto EXCEPT ![sha[r]] = [whole |-> FALSE, items |-> {}]]
          /\ UNCHANGED tree
    /\ Forget(r)
    /\ UNCHANGED <<head, sha, single, batch>>

Node(r) ==
    \/ ReuseWorktree(r) \/ AddWorktree(r) \/ AddDone(r) \/ AddFails(r)
    \/ DiffMap(r) \/ Codegraph(r) \/ Pack(r)
    \/ PerfClaims(r) \/ OrBuf(r) \/ StaticLint(r)
    \/ PrRefs(r) \/ UnitRegress(r) \/ Arch(r) \/ ReviewRequest(r)
    \/ Validate(r) \/ Gate(r) \/ SelfCheck(r) \/ Report(r) \/ Episodic(r)

AllEnded == (\A r \in Runs : status[r] \in Ended) /\ UNCHANGED vars

Next ==
    \/ Push
    \/ \E r \in Runs : Begin(r) \/ Node(r) \/ Raise(r) \/ Leave(r) \/ Kill(r)
    \/ AllEnded

Spec == Init /\ [][Next]_vars

-----------------------------------------------------------------------------
(* Properties of runs started one after the other, killed or not.           *)

\* The automatic findings a run has written so far.
Left(r) == {todo[r][i] : i \in DOMAIN todo[r]}
Written(r) ==
    {f \in Kinds \X {r} : \/ f[1] = "MEAS" /\ "perf_claims" \notin Left(r)
                          \/ f[1] = "OR" /\ "or_buf" \notin Left(r)
                          \/ f[1] = "LINT" /\ "static_lint" \notin Left(r)}

\* From perf_claims on, findings.auto.json is whole and holds exactly what this run's
\* nodes have found so far, however an earlier run on the same head ended: no stale
\* automatic finding reaches the request or the gate, and none is lost.
AutoIsOwn ==
    Serial => \A r \in Runs :
        status[r] = "run" /\ packed[r] > 0 /\ Written(r) # {} =>
            auto[sha[r]] = [whole |-> TRUE, items |-> Written(r)]

\* A code graph lacks files only on a head where an earlier run was killed in the
\* middle of git worktree add or remove, or left with a removal that git failed:
\* reusing a directory that exists is otherwise safe.
LackingOnlyAfterCut ==
    Serial => \A r \in Runs : graph[r] = "lacking" =>
        \E q \in Runs \ {r} : sha[q] = sha[r] /\ status[q] \in {"cut", "stuck"}

\* The snapshot of a head outlives the runs on it only when one of them was killed or
\* git failed to remove it: the finally clause of run comes after an exception too.
LeftoverOnlyAfterKill ==
    Serial => \A h \in Heads : tree[h] # "none" =>
        \E r \in Runs : sha[r] = h /\ status[r] \in Active \cup {"dead", "cut", "stuck"}

\* A run that packs several batches asks for the review of every one of them, in the
\* state this run wrote it, whatever packs earlier runs left in the directory.
OwnBatchesServed ==
    Serial => \A r \in Runs : served[r] # {} /\ packed[r] > 1 =>
        \A n \in 1..packed[r] : <<n, r>> \in served[r]

\* The request consists of this run's packs: review_request.md when the pack is one
\* batch, review_request.batch<N>.md for its batches otherwise.
RequestIsOwn ==
    \A r \in Runs : served[r] # {} =>
        served[r] = IF packed[r] = 1 THEN {<<0, r>>}
                    ELSE {<<n, r>> : n \in 1..packed[r]}

\* The diff a run maps onto its snapshot is the diff of the head it records.
DiffIsOfHead ==
    \A r \in Runs : diffOf[r] # None => diffOf[r] = sha[r]

=============================================================================
