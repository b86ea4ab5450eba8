------------------------------ MODULE HashMerge -------------------------------
(***************************************************************************)
(* The scenarios of src/unit/query/k_query_executor.hash_merge_errors: the   *)
(* hash merge of a GROUP BY's leftovers, over fakes that count the list ids  *)
(* handed out and taken back.  The merge opens the two sort lists of its job *)
(* before the first partition, splits the rows over the partitions, folds    *)
(* each partition into the sort lists and frees it, and hands the sorted     *)
(* partials over at the very end; a tuple write may fail, as that of an      *)
(* interrupted query does.  The scenarios share the fakes' globals, and none *)
(* of them resets all.  The four server functions are external: modelled     *)
(* from the fakes they are run over and from the suite's contracts.          *)
(***************************************************************************)
EXTENDS Integers, FiniteSets

CONSTANTS MergeRows,    \* tuples of the unsorted list a merge may be given
          MergeParts,   \* partitions of a merge; those of an open, at most
          SampleRows,   \* tuples a sample may read
          Estimates,    \* k_groups a merge may be given
          MaxMerges     \* scenarios of a behaviour

ASSUME HashMergeAssumption ==
    /\ MergeRows \in Nat /\ MergeParts \in Nat \ {0} /\ SampleRows \in Nat
    /\ MaxMerges \in Nat
    \* keys of a sample are distinct as long as the hash has that many values
    /\ \A g \in Estimates : g \in Nat /\ g >= SampleRows

VARIABLES
    mat,    \* where the running scenario is; "idle" between two
    marg,   \* the arguments of the last scenario
    k,      \* the fakes' globals: scan_end, scan_limit, add_fail_at, add_calls,
            \* groups, opened, open_fail_at, errid, live
    job,    \* lists the merge holds: sort, parts, and folded, the ones done
    part,   \* k_ctx.part_list_id; 0 is &k_partials, never a list of the fake
    mres,   \* what the last scenario handed back
    mran    \* scenarios run so far

mvars == <<mat, marg, k, job, part, mres, mran>>

NoJob == [sort |-> {}, parts |-> {}, folded |-> 0, split |-> 0, rc |-> "NO_ERROR"]

MInit ==
    /\ mat = "idle" /\ marg = [kind |-> "none"] /\ mres = [kind |-> "none"] /\ mran = 0
    /\ k = [scan_end |-> "S_END", scan_limit |-> -1, add_fail_at |-> 0, add_calls |-> 0,
            groups |-> SampleRows, opened |-> 0, open_fail_at |-> 0, errid |-> "NO_ERROR",
            live |-> {}]
    /\ job = NoJob /\ part = 0

\* Mutant: the lists the scenarios before have left stay in the books.
LiveResetKeepsLive(f) ==
    [f EXCEPT !.opened = 0, !.open_fail_at = 0, !.errid = "NO_ERROR"]

k_live_reset(f) ==
    [f EXCEPT !.live = {}, !.opened = 0, !.open_fail_at = 0, !.errid = "NO_ERROR"]

\* qfile_open_list: the k-th one may fail; a list's id is its number.
OpenFails(f) == f.open_fail_at > 0 /\ f.opened + 1 = f.open_fail_at
qfile_open_list(f) ==
    IF OpenFails(f)
    THEN [f EXCEPT !.opened = @ + 1, !.errid = "ER_OUT_OF_VIRTUAL_MEMORY"]
    ELSE [f EXCEPT !.opened = @ + 1, !.live = @ \cup {f.opened + 1}]

qfile_free_list_ids(f, L) == [f EXCEPT !.live = @ \ L]

\* qfile_add_tuple_to_list: the write of call add_fail_at fails.
AddFails(f) == f.add_fail_at > 0 /\ f.add_calls + 1 = f.add_fail_at
qfile_add_tuple_to_list(f) ==
    [f EXCEPT !.add_calls = @ + 1, !.errid = IF AddFails(f) THEN "ER_INTERRUPTED" ELSE @]

MBegin(kind) ==
    /\ mat = "idle" /\ mran < MaxMerges
    /\ mat' = kind /\ mres' = [kind |-> "none"]

\* Every scenario begins with k_setup: the state the functions read is built
\* anew, the partial list is k_partials again.
k_setup == job' = NoJob /\ part' = 0

MReturn(r) == mat' = "idle" /\ mres' = r /\ mran' = mran + 1 /\ UNCHANGED marg

------------------------------------------------------------------------------
\* k_sample_scenario: the sample ends on anything but S_SUCCESS.  A scan ended by
\* S_ERROR gives NO_ERROR as well: that is defect K-02 of the suite's header,
\* kept here as the code behaves and stated by no property.  The limit is
\* taken away again, the end code stays.

k_sample_scenario(rows, end) ==
    /\ mat = "idle" /\ mran < MaxMerges
    /\ k_setup /\ marg' = [kind |-> "sample", rows |-> rows, end |-> end]
    /\ k' = [k EXCEPT !.scan_end = end, !.scan_limit = -1]
    /\ mat' = "idle" /\ mran' = mran + 1
    /\ mres' = [kind |-> "sample", rc |-> "NO_ERROR",
                groups |-> IF rows < k.groups THEN rows ELSE k.groups]

------------------------------------------------------------------------------
\* k_open_parts_scenario: 2 n lists opened one after the other until one fails,
\* then all of them freed.  The failure the test case has asked for survives
\* the reset.

\* Mutant: the reset takes the failure away.
OpenPartsSetupForgets(n, fail_at) ==
    /\ MBegin("open") /\ k_setup
    /\ marg' = [kind |-> "open", n |-> n, fail_at |-> fail_at]
    /\ k' = k_live_reset([k EXCEPT !.open_fail_at = fail_at])
    /\ UNCHANGED mran

OpenPartsSetup(n, fail_at) ==
    /\ MBegin("open") /\ k_setup
    /\ marg' = [kind |-> "open", n |-> n, fail_at |-> fail_at]
    /\ k' = [k_live_reset(k) EXCEPT !.open_fail_at = fail_at]
    /\ UNCHANGED mran

OpenPart ==
    /\ mat = "open" /\ job.rc = "NO_ERROR" /\ Cardinality(job.parts) < 2 * marg.n
    /\ k' = qfile_open_list(k)
    /\ job' = IF OpenFails(k) THEN [job EXCEPT !.rc = "ER_FAILED"]
              ELSE [job EXCEPT !.parts = @ \cup {k.opened + 1}]
    /\ UNCHANGED <<mat, marg, part, mres, mran>>

OpenPartsReadBack ==
    /\ mat = "open" /\ (job.rc # "NO_ERROR" \/ Cardinality(job.parts) = 2 * marg.n)
    /\ LET f == qfile_free_list_ids(k, job.parts)
       IN k' = f /\ MReturn([kind |-> "open", rc |-> job.rc, opened |-> k.opened,
                             live |-> Cardinality(f.live)])
    /\ job' = NoJob /\ UNCHANGED part

------------------------------------------------------------------------------
\* k_hash_merge_scenario: order reaches the result, so the merge collapses.

MergeSetup(rows, groups, fail_at) ==
    /\ MBegin("merge") /\ k_setup
    /\ marg' = [kind |-> "merge", rows |-> rows, fail_at |-> fail_at]
    /\ k' = [k_live_reset(k) EXCEPT !.groups = groups, !.add_fail_at = fail_at,
                                    !.add_calls = 0, !.scan_end = "S_END", !.scan_limit = -1]
    /\ UNCHANGED mran

\* The job's two sort lists, before the first partition.
OpenSortLists ==
    /\ mat = "merge" /\ mat' = "parts"
    /\ k' = qfile_open_list(qfile_open_list(k))
    /\ job' = [job EXCEPT !.sort = {k.opened + 1, k.opened + 2}]
    /\ UNCHANGED <<marg, part, mres, mran>>

\* The two lists of one partition.
OpenPartition ==
    /\ mat = "parts"
    /\ k' = qfile_open_list(qfile_open_list(k))
    /\ job' = [job EXCEPT !.parts = @ \cup {k.opened + 1, k.opened + 2}]
    /\ mat' = IF Cardinality(job'.parts) < 2 * MergeParts THEN "parts" ELSE "split"
    /\ UNCHANGED <<marg, part, mres, mran>>

\* A failed write ends the merge: it returns having freed the partitions; the
\* sort lists, which only the hand-over gives to a variable that is freed, go
\* with the merge's own variables and stay in the books (defect K-01).
FailMerge ==
    /\ k' = qfile_free_list_ids(qfile_add_tuple_to_list(k), job.parts)
    /\ job' = [job EXCEPT !.sort = {}, !.parts = {}, !.rc = "ER_FAILED"]
    /\ mat' = "merged"

\* The split writes one row to its partition.
SplitRow ==
    /\ mat = "split" /\ job.split < marg.rows
    /\ IF AddFails(k) THEN FailMerge
       ELSE /\ k' = qfile_add_tuple_to_list(k)
            /\ job' = [job EXCEPT !.split = @ + 1]
            /\ UNCHANGED mat
    /\ UNCHANGED <<marg, part, mres, mran>>

\* A partition is folded, its groups written to the sort list, and freed.
FoldPartition ==
    /\ mat = "split" /\ job.split = marg.rows /\ job.folded < MergeParts
    /\ IF AddFails(k) THEN FailMerge
       ELSE \E a, b \in job.parts :
              /\ a < b /\ \A c \in job.parts : c >= a /\ (c # a => c >= b)
              /\ k' = qfile_free_list_ids(qfile_add_tuple_to_list(k), {a, b})
              /\ job' = [job EXCEPT !.parts = @ \ {a, b}, !.folded = @ + 1]
              /\ UNCHANGED mat
    /\ UNCHANGED <<marg, part, mres, mran>>

\* The sorted partials become the context's partial list, the rows are freed.
HandOver ==
    /\ mat = "split" /\ job.folded = MergeParts /\ mat' = "merged"
    /\ \E rows_out, partials_out \in job.sort :
         /\ rows_out < partials_out
         /\ k' = qfile_free_list_ids(k, {rows_out})
         /\ part' = partials_out
    /\ job' = [job EXCEPT !.sort = {}]
    /\ UNCHANGED <<marg, mres, mran>>

MergeReadBack ==
    /\ mat = "merged"
    /\ MReturn([kind |-> "merge", rc |-> job.rc,
                result |-> IF job.rc = "NO_ERROR" THEN "COLLAPSED" ELSE "NONE",
                opened |-> k.opened, live |-> Cardinality(k.live),
                part_list_live |-> part \in k.live])
    /\ UNCHANGED <<k, job, part>>

MNext ==
    \/ \E rows \in 0 .. SampleRows, end \in {"S_END", "S_ERROR"} : k_sample_scenario(rows, end)
    \/ \E n \in 1 .. MergeParts, fail_at \in 0 .. 2 * MergeParts + 1 : OpenPartsSetup(n, fail_at)
    \/ OpenPart \/ OpenPartsReadBack
    \/ \E rows \in 1 .. MergeRows, g \in Estimates, f \in 0 .. MergeRows + MergeParts + 1 :
         MergeSetup(rows, g, f)
    \/ OpenSortLists \/ OpenPartition \/ SplitRow \/ FoldPartition \/ HandOver \/ MergeReadBack

------------------------------------------------------------------------------
\* Properties.

\* The lists somebody will free: those of the running open or merge, and the
\* context's partial list once the sorted partials are handed over.
Held == job.sort \cup job.parts \cup ({part} \ {0})

\* In every step of a scenario a held list is live (none is freed twice or too
\* early) and a live list is held, so that it will be freed.  The one exception
\* is K-01: after a failed write the merge has returned and its two sort lists,
\* the first two it opened, are live with nobody to free them.
LiveListsHeld ==
    mat # "idle" =>
        /\ Held \subseteq k.live
        /\ k.live \ Held = IF mat = "merged" /\ job.rc = "ER_FAILED" THEN {1, 2} ELSE {}

\* Whatever ran before, an open or a merge scenario reports its own lists, and
\* the failure that happened: an open gives all its lists back; a merge keeps
\* the handed over partials, or, when a write failed, exactly its two sort
\* lists (the leak of K-01).
MergeOwnResult ==
    /\ (mat = "idle" /\ mres.kind = "open") =>
         LET fails == marg.fail_at \in 1 .. 2 * marg.n
         IN /\ mres.live = 0
            /\ mres.opened = IF fails THEN marg.fail_at ELSE 2 * marg.n
            /\ (mres.rc = "ER_FAILED") = fails
    /\ (mat = "idle" /\ mres.kind = "merge") =>
         LET fails == marg.fail_at \in 1 .. marg.rows + MergeParts
         IN /\ mres.opened = 2 + 2 * MergeParts
            /\ mres.live = IF fails THEN 2 ELSE 1
            /\ mres.part_list_live = ~fails
            /\ (mres.result = "COLLAPSED") = ~fails
            /\ (mres.rc = "ER_FAILED") = fails
            /\ (k.errid = "ER_INTERRUPTED") = fails

==============================================================================
