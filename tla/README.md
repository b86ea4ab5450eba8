# Verification of the review workspace

The repository is a workspace for reviewing pull requests of the CUBRID engine. Its
programs are the Python harness in `tools/harness` (about 8000 lines), shell scripts around
it, a Jepsen client, and its C++: the Catch2 suites in `unit/`, each a `test.cpp` and mostly a
`hooks.cpp` that is compiled into the engine's translation unit. The rest is rules, skills and
agent instructions. This directory holds TLA+ modules of the harness's stateful parts and of the
suites whose hooks build and drive state, the TLC configurations that check them on small
instances, and TLAPS proofs.

## 1. Inventory

| component | state it keeps | operations | interacts with |
|---|---|---|---|
| `unitseam.py` | per revision a shared git worktree, its lock file and ready marker; per `--out`/revision object files, `unit.bin`, `result.xml`; `catch_main.o` | `worktree`, `mutation_worktree`, `build_and_run`, `catch_main` | `git`, the compiler, other unitseam processes, `unit_regress.py` |
| `post_review.py` | nothing of its own: the comments on the PR are its memory | `batches_by_file`, `post_once`, `confirm_created`, `post_inline`, `post_issue_comment` | the GitHub server, the user who repeats the command |
| `pipeline.py`, `run_support.py`, `harness/pipelines/*.yaml` | the context of a run; `out/<pr>/<sha>`; the snapshot `wt-<sha>` | one function per node, `run` | GitHub, git, all the modules below |
| `adjudicate.py`, `rule_ids.py` | findings with obligations, status, severity, importance | `validate_findings`, `dedup`, `adjudicate`, `repro_obligation`, `requery` | `pipeline.py`, the code graph, the records directory |
| `codegraph.py`, `reachability.py` | an sqlite file per head, keyed by the fingerprint of the tree | `build`, `_resolve`, queries, `latch_pairing` | the snapshot |
| `context_pack.py` | sections under a token budget | `build`, `batches` | code graph, rules, episodic memory |
| `perf_claims.py`, `or_buf.py`, `static_lint.py` | `findings.auto.json`, shared by the three | one node each | `pipeline.py` |
| `unit_regress.py` | `unit_regress.md`, `.json` | `select`, `verdict`, `run` | `unitseam.py` |
| `episodic.py`, `review_threads.py`, `review_reply.py`, `missed_review.py` | `examples/episodic/PR-<n>.json`, the threads on GitHub | `collect`, classification, replies | GitHub |
| `session.py` | a copy of CUBRID's configuration, a started server | `__enter__`, `__exit__`, `cleanup_leftovers` | the CUBRID installation |
| `review_watch.sh`, `headless_review.sh` | `.seen`, `.todo`, `cost.jsonl` | `once`, one review | the board, the language model |
| `unit/compat/db_vdb.kept_tree_registry` | the client's list of kept prepared trees, trees an EXECUTE holds | `unitseam_exec_checkout`, `_return_ok`, `_stale`, `unitseam_remove`, `_register` | the engine's `db_prepared_tree_*` functions, nested SQL |
| `unit/query/query_executor.h_gby_flush_replay`, `.gby_cache_evicted` | a hand-built batch cache of a hash GROUP BY; static records of the fakes | `h_flush_scenario`, `h_cache_add_scenario`, `h_cache_same_group_scenario`, `unitseam_gby_evict_scenario_keep` | the engine's flush, add, find, clear, remove and evict |
| `unit/query/k_query_executor.hash_merge_errors` | the fakes' books of open lists, their failure knobs | `k_sample_scenario`, `k_open_parts_scenario`, `k_hash_merge_scenario` | the engine's hash merge |
| `unit/query/query_hash_join.bloom_filter` | views of four layouts of the filter's struct | `unitseam_bloom_view_of`, `_fill_now`, `_skip_bound`, `_check_bound`, `_early_key`, `_stats_of`, `unitseam_hj_join_pair`, ... | the engine's filter, its owner thread, the workers of a parallel scan, both inputs |
| other suites in `unit/` | none between calls | forward one static function or compute one value | the engine |
| `implement_gate.py`, `precheck.py`, `repro_check.py`, ... | none between calls | checks | git, the compiler |
| `annotate.py`, `md_lint.py`, `merge_notes.py`, `source_facts_check.py` | none | text checks | - |
| `review_board_gen.py`, `review_recommend.py` | a generated page | ranking | GitHub |
| `tools/jepsen-cubrid`, `tools/difftest`, `tools/ab`, `tools/perf` | none | drive the engine | CUBRID |

What is hard here, and what makes each part correct:

- *Processes that share files.* Several unitseam runs, started by people, by agents and by
  `unit_regress`, meet in one worktree and one output directory. Correct: nobody builds from
  half a checkout, nobody executes another's binary or reports another's cases, locks are
  always given back, private worktrees go away.
- *A server that does not say what it did.* A review that was answered with 5xx may exist.
  Correct: whatever is repeated, no comment appears twice and none is lost, and exit code 0
  means that everything is there.
- *Leftovers.* Runs on the same head share a directory. They may raise or be killed
  anywhere, and the author pushes meanwhile. Correct: what a run reads was written for it.
- *Hand-built engine state.* The suites' hooks build the state of engine functions that rely on
  invariants nobody writes down: probe tables with backward-shift deletion, ownership of a tree
  while SQL runs inside it, a filter shared by threads that see it a batch late. The fakes keep
  static records across scenarios. Correct: whatever scenario ran before and in whatever order
  the actors move, the hooks report what happened, and what happened is what the row by row, or
  the sequential, definition says.
- *Order of derived values* in adjudication, *snapshot and restore* of a configuration,
  *marking before doing* in the watch script. They come later in the plan.

`PROJECT.json` lists each of these at its line under `hazards`.

## 2. Modules

| module | role |
|---|---|
| `Unitseam` | `unitseam.py` as concurrent, killable processes; properties and inductive invariant |
| `UnitseamProofs` | TLAPS proofs about `Unitseam` |
| `PostReview` | `post_review.py --post` against an unreliable server, run repeatedly |
| `Publication` | what `post_review` promises its user, in one action |
| `PostReviewProofs` | proofs about `PostReview`, and that it implements `Publication` |
| `Pipeline` | `pipeline.py` and `run_support.py`: runs on one PR, their files and snapshots |
| `PipelineProofs` | proofs about `Pipeline` |
| `KeptTrees` | the registry of kept trees under nested EXECUTEs, in both of its shapes |
| `KeptTreesProofs` | proofs about `KeptTrees` |
| `GbyCache` | the batch cache of a hash GROUP BY and its flush, as operators on a world record |
| `GbyCacheProofs` | lemmas about the operators of `GbyCache`: what each leaves of the table, the values and the fakes |
| `GbyScenarios` | the scenarios of the flush suite and the eviction suite |
| `GbyScenariosProofs` | proofs about `GbyScenarios`, as `GroupBySuites` runs it |
| `HashMerge` | the scenarios of the hash merge suite |
| `HashMergeProofs` | proofs about `HashMerge`, as `GroupBySuites` runs it |
| `GroupBySuites` | the three suites above, one process of one of them |
| `HjoinBloom` | the hash join's Bloom filter in its four layouts, as the suite's hooks see it |
| `HjoinBloomProofs` | proofs about `HjoinBloom`, with lemmas about sums over a finite set |
| `MC...` | symmetry sets, input lists and tables for TLC |

Definitions whose comment begins with "Mutant" are altered forms of the definition
below them; no specification uses them. They record which bug each property would catch.

### Unitseam

A run is a process with a program counter; each label is a place where another process may
act or where the run may be killed: between the git commands of `worktree()`, while `git
worktree add` checks out, between compiling, linking, executing and parsing. `wtLock` and
`outLock` are the two flocks; the kernel releases them when a process dies (`Crash`), while
every file stays. `tree`, `reg` and `marker` are the directory, git's registration and
`unitseam-ready` in git's admin directory, so that removing a registration removes the marker
with it. A `git worktree add` that is killed cleans up (SIGTERM), leaves its registration
*initializing* (SIGKILL; also the 1800 s timeout of `sh`, in `AddFailed`), or lives on as an
`orphan` and ends later (`OrphanEnds`). What `remove --force`, `prune` and `add` do with an
initializing registration was taken from the behaviour of git 2.39 and is marked external.
With `--patch` a run has, per revision, a worktree of its own, `mut`: made by `MutationWorktree`,
patched by `ApplyPatch`, removed by `RemoveMutation` in the `finally` block. Each of these git
commands may fail or be cut off by `sh`. A removal that fails is ignored (`check=False`) and one
that is cut off raises; both leave the worktree `stuck`, and a later `--rev` of the same run and
revision is then refused. A worktree that is still `made` when the run is over is one whose removal
nobody asked for; `MutationRemoved` says when that happens: after a kill, after `os.makedirs` failed,
and after a cut off `git worktree add` or `git apply`, all of which lie before the `try`.
Compiler, linker and test outcomes are nondeterministic. Object files carry the run that wrote
them; that is all the properties tell apart. The source copy `<stem>.unitseam.<pid>` and the
compile database have names of their own per process, or are renamed into place, and are left
out.

### PostReview and Publication

A comment is the pair the program compares, `(path, body)`; the list is an input, `Init`
chooses it. A batch is a set of positions of the list: `BatchesByFile` cuts the positions of
a file into slices by their place in it, and orders the slices by the file's first position and
their own. `late` numbers the reviews it holds, so that the same batch can be due twice. `pc` is the step of the running command or how the last one ended. `inline` and
`issue` are the server's comments, counted. `PostUnknown` is every answer that leaves the
outcome open: created, not created, or `late` (written by `LateWrite` at some later time).
`ConfirmSeen` is `confirm_created` as written: one key of the batch is enough. `Run` is the
user starting the command, first or again, with any `--per-review` of `Caps`. Two history
variables say what a late write can spoil. `raced`: a run read the list while a write was still due,
so that it may post a comment again. `recut`: it also cut the list across the review that was due,
into a batch with some of that review's comments and others besides (`Crosses`). Such a batch can be
confirmed by comments it did not create; the run `post_late` shows a comment lost by it, and the
properties about lost comments except it by name. The refusals before anything
is submitted (a missing draft, an unbalanced code fence, a dry run) are left out.

`Publication` says it in one action: comments only appear, never more often than asked, and the
job is closed only when nothing is missing. A second action ends the promise: the server has let a
run read a list that lacked what it was about to write. `PostReview` implements it under the mapping
`board <- inline, note <- issue, closed <- pc = "ok", excused <- raced`.

### Pipeline

A run has a list of nodes (`Plans`, from the four YAML files), and each node is an action.
`sha` is the head the run read at its start, `head` GitHub's now (`Push` changes it).
`tree[h]` is the snapshot directory, `single`, `batch` and `auto` the files of the output
directory with the run that wrote them. `Raise` ends any node with an exception, `Leave` is the
`finally` clause, `Kill` skips it and may leave a git command or `findings.auto.json` halfway.
`Worktree.__exit__` does not look at git's return code, so `Leave` may also end with the snapshot
still there, whole or in part (status `stuck`), although the docstring at `run_support.py:7` says
that it is always removed; the two snapshot properties except that case.
Nodes whose output no property is about only advance. One node is one step, also where it
writes several files. A cached code graph is used only for the same commit and the same `git
status` of the tree, so `Codegraph` depends on the tree alone.

### KeptTrees

`reg` is the registry: the list, front first, what each tree was compiled for, the trees kept
beside it for other bind signatures, and how often it was closed. `stack` holds the EXECUTEs in
progress. In shape 1 an EXECUTE takes its tree off the list, in shape 0 it stays there; the hooks
tell the shape by which function exists, and so does the model. The steps are those of the
suite's random test (KT-I1), but all sequences of them. `outdated` and `spared` are history: trees
compiled before a PREPARE of their name, and those of them that were executing then. The latter
come back to the list (the latent defect U1 of the suite), and `OutdatedOnlyIfExecuting` says
that nothing else does. The list is one thread's; the suite's thread cases are not modelled.

### GbyCache, GbyScenarios, HashMerge, GroupBySuites

The engine's functions are external: `GbyCache` gives them as operators from a world to a world,
taken from the state the hooks hand over, what they read back and the contracts in the two
`test.cpp`. The fakes are the suite's own. `GbyScenarios` takes each scenario function apart into
set-up, engine call and read-back, and lets a process run scenarios in any order with any
arguments; only what a scenario resets is reset, so a record that survives by mistake shows up in
the next one's result. The reference of the flush is the row path, written as a function over rows
(`RowPath`). Key and slot of an entry are numbers, accumulators are the row lists handed to them;
`e->count` and `e->placed`, scratch fields of the flush, and memory are left out. The size of the
table is a power of two (the hooks take `hash & (SIZE - 1)` for a slot), and no scenario uses more
groups than the pool has buffers; both are assumptions of the modules. `HashMerge` does
the same for the merge: lists are numbers, the fakes' books a set, and a merge opens its sort
lists, opens partitions, splits, folds and hands over in steps that a failing write may end.
The suite's header records two defects of the engine, and the model behaves as they do. K-01: a merge
that returns after a failed write leaves its two sort lists open with nobody to free them;
`LiveListsHeld` and `MergeOwnResult` except exactly these two lists. K-02: a sample whose scan ends by
`S_ERROR` answers `NO_ERROR`; `k_sample_scenario` does so and no property calls that correct.

### HjoinBloom

`b` is the raw struct, with the members of all revisions; `layout` picks the revision. A member that
the revision does not have, as the hooks find out by SFINAE, keeps the value attach gives it and no
operator reads it: each use is behind `Staged`, `has_first_done` or `has_key_regus`. The views, decisions and key functions of
`hooks.cpp` are operators over it; the views' struct types are the sets the type invariant uses.
The engine's functions are external and take an outcome `o`: which of set-up, fill and key fetch
fails. Actors: the owner (`OwnerRow`, `hjoin_bloom_prepare`, `hjoin_bloom_poll`), a thread that is
not, workers with a cached state and a batch of rows not handed over (a worker whose clone of the
output list gives no plain key begins disabled: it counts and checks nothing), and the first input's thread,
which writes its count in one step and `first_done` in another. Values are of the list column's
domain or are stored as another value; two keys share a hash. `g` is history: rows given, checked
and skipped, fills, the first reason the filter was turned off for, a joining row lost. A partial
filter (F3 of the suite) is possible in the earlier layout and excepted by name there.
Not in the model: records not bound to a layout (F1), the quality of the hash (F4), strings in
another codeset (F5, excluded by the assumption on `Store`). The assumptions say no more than that:
a value of the column's domain is stored as it is, a first row's key has a hash or is NULL, first
inputs and workers are finitely many, and the thresholds, the batch and the sample are at least 1.

## 3. Runs

| run | instance | shows |
|---|---|---|
| `unitseam_runs` | 2 runs with 1 `--rev` each, 2 revisions, 1 output directory, fair | `IndInv`, `NoHalfCheckout`, `OwnBinary`, `MutationRemoved`, `EveryRunEnds`, `MarkedStays` |
| `unitseam_rebuild` | 2 runs | violated: a killed creation is not always made again |
| `unitseam_cases` | 2 runs | violated: a stale `result.xml` is reported |
| `post_resume` | 4 lists, batches of 2 or 3, 2 late writes, fair | no duplicates without a raced late write; unless a due review was cut across, nothing dropped and exit 0 honest; repetition completes; `PostReview` implements `Publication` |
| `post_late` | 3 different comments in one file, batches of 2 or 3, 1 late write | violated: a late review confirms a batch of another size, a comment is lost with exit code 0 |
| `post_partial` | `<<b, a, a, d>>` in one file, batches of 2 | violated: a comment is lost with exit code 0 |
| `pipeline_serial` | 3 runs, 2 heads, at most 2 batches | what a run leaves does to the next only what is allowed |
| `pipeline_stale` | 2 runs | violated: old packs are requested |
| `pipeline_race` | 2 runs | violated: the diff of another head |
| `kept_nested` | 2 names, 2 texts, 3 signatures, 3 trees, 2 sessions, EXECUTEs nested 3 deep | one owner per tree, one entry per name, no EXECUTE served by an outdated tree |
| `group_by_suites` | 8 slots, 4 pending rows, 3 groups, 6 adds, clusters of 4; 3 rows and 2 partitions of a merge; 2 or 3 scenarios in a row | the cache stays a probe table, flush equals row path, evicted groups are gone, lists are accounted for |
| `bloom_layouts` | 4 layouts, 4 rows of 5 values, first inputs of 0 to 3 rows, 2 workers, batches and samples of 2 | no joining row skipped, exact counts and outcome, one fill when due, off stays off |

Bounds. Two unitseam runs are one that works and one that waits, enters next or was killed
before; the proofs remove the bound for the safety properties. A second revision matters only to
`prune`, which acts on all of them. One `--rev` per run does not reach the refusal of a mutation
worktree that an earlier `--rev` could not remove; the proofs, for any number of them, do. The lists of `post_resume` have a file that
comes back, a file longer than a batch, one that fills batches unevenly, and repeated words;
two late writes are one for each of two runs; batches of 2 and 3 let a run cut across what another
has sent. Three pipeline runs are one that leaves
something, one that meets it and leaves more, and one that meets both. `CONFIRM_TRIES` is the
code's 3, or 2 where the state space asks for it. Eight slots of the cache are enough for
a cluster of half of them at any home slot, across the last slot too; the selectivity check falls
before, inside and after a batch of rows; six adds start a cache of four over once. A trace in
which a worker is stale needs one fill, one sample and one batch: four rows with thresholds of 1
and 2. Three first rows are one more than `MAX_FIRST_ROWS`. Deadlock checking is off in
`group_by_suites` only: a test process ends after its scenarios. Elsewhere final states stutter
by `AllEnded` and `Done`, or the system never stops.

Fairness. `Unitseam`: weak fairness of the steps of a run - a live process goes on, and a free
flock is taken by someone. Nothing obliges a run to start or to be killed. The commands it runs
have time limits in `sh()`, which is why they end. Weak fairness of `RunStep(r)` as a whole
does not promise a flock to a given waiter while others keep taking it, but each run takes it
only finitely often. `PostReview`: the user repeats the command until it exits with 0, and
GitHub does not fail or reject the same request for ever (strong fairness of the successful
reads and posts). Without the second assumption the docstring's promise cannot hold.

### Disagreements found

`PROJECT.json` quotes the lines. In short: (1) a `git worktree add` killed with SIGKILL leaves a
registration that no step of `worktree()` removes, so that revision fails until it is unlocked by
hand; (2) `result.xml` is not removed before the binary runs; (3) one key of a batch confirms
all of it, also when the key is there for another reason: the same words in another batch
(`post_partial`), or a late review of a run with another `--per-review` (`post_late`); (4) old `context_pack.batch<N>.md`
files win over the new `context_pack.md`; (5) the diff and the snapshot of a run may belong to
different heads.

## 4. Proofs

Every theorem holds for all values of the constants under the assumptions named in the modules
(bounds are numbers, `None` is not one of the values it stands beside, lists are sequences of
keys); `PROJECT.json` lists them. None of the properties is inductive as it stands. Each module
below has an inductive invariant, a lemma per part of it with one step per action, and the
properties as consequences. The invariants were model-checked on the runs' instances first.

`UnitseamProofs`: `Inductive`, `TypeCorrect`, `CheckoutComplete`, `BinaryOwned`,
`MutationCleaned`, `MarkedForEver`. `NoHalfCheckout` speaks of runs that already have their
worktree; to see that no other run removes it, one must know what a run inside `worktree()` knows
at each label. `IndInv` has these parts:

- `LockInv`: whoever is inside a critical section holds its flock. It is what excludes two
  runs at `clean`, `add` or `mark` of one revision.
- `TreeInv`: complete means registered, marked means complete, and an orphan git works only on
  an initializing registration. So neither an orphan nor `prune` touches a marked tree.
- `StepInv`: on the path that removes, the marker is absent; at `mark` the tree is complete; who
  uses a tree has its marker. With `LockInv`, the marker cannot appear while another run is on the
  removing path.
- `BuildInv`: which of the files in the output directory are this run's at each label.
- `MutInv`, `DidInv`: where a run may be while its private worktree exists and git has not been
  asked to remove it, and how often it has returned.

`OutExclusion` is the fact that two runs inside the build section work in different directories;
`BuildQuiet` and `BuildOwn` use it for steps outside and inside the section. `MarkedForEver` is an
action property proved from the invariant in both states.

`PostReviewProofs`: `PublisherInductive`, `PublisherTypes`, `NoDuplicates`, `NothingDropped`,
`ExitCodeHonest`, and the refinement `ImplementsPublication`.

- `ServerInv`: until a run reads the list while a write is due, the comments on the PR are those
  at some set `S` of positions, each once; what the server has still to write and what has not been
  submitted are disjoint from `S` and from each other; and the batch being confirmed is inside `S`
  or outside of it. That is why one comment seen stands for the batch (`SeenStandsForAll`).
- `BatchInv`: the batches are disjoint, of one file and within the limit. It rests on `Batches`: what
  `batches_by_file` returns contains each position once. Its proof needs that the places in a file,
  and the ranks in the order of slices, are a numbering (`Ranks`), and that a slice, a set of
  places with one quotient by n, has at most n members.
- `KeepsInv`, `IssueInv`: nothing is dropped between the steps; the issue comment.
- `WholeInv`: unless a due review was cut across, each batch of the run is on the PR as a whole or not
  at all, and a review the server has still to write contains all of the batch or none of it; so one
  comment seen still stands for its batch after a late write. `RecutInv`: `recut` implies `raced`.

`NothingDropped` and `ExitCodeHonest` hold on a server that writes late, for any `--per-review` in
each run, unless `recut`; `post_late` shows that this exception is needed. They and
`ImplementsPublication` are about lists without repetitions; `post_partial` shows why.

`PipelineProofs`: `Inductive`, `TypeCorrect`, `AutoOwn`, `LackingAfterCut`, `LeftoverAfterKill`,
`BatchesServed`. The graphs run their nodes in one order (`Ordered`, a fact about `Plans`), so that
what is still to do tells what has been done (`RunInv`). `SerialInv` holds when runs do not overlap:
`OneActive`; `TreeExplained`, the run that is the reason for each snapshot; `EnteredStays`, a run
keeps the snapshot it entered; `PacksKept`, the numbered files of an active run are its own.

`KeptTreesProofs`: `KeptInductive`, `KeptTypes`, `TreesOwnedOnce`, `NamesOnce`,
`PrepareInvalidates`, and the action property `ExecuteServesCurrent`. `Sound(r, H, m)` describes a
registry in the middle of a function, with the trees `H` in the caller's hands: every open tree has
one owner, list, plans or hand (`Own`); entries have different names; no sequence repeats a tree.
Each function has a lemma from `Sound` to `Sound` that says what moves. `TakenOnce` adds that nested
EXECUTEs of shape 1 hold different trees, `OutdatedInv` what `spared` records. The proof showed that
an earlier form of `db_prepared_tree_register` was wrong for two or more plans, a bound
the run does not reach; it was corrected.

`HashMergeProofs`: `MergeInductive`, `ListsHeld`, `OwnResult`. The fake numbers the lists it opens;
`Stages` gives for each stage of a scenario the interval of numbers the job holds and the number of
writes done, from which the write that fails, and who must close what then, follow: the partitions
are freed, and lists 1 and 2 are the leak K-01.

`HjoinBloomProofs`: `InvHolds`, `TypeHolds`, `JoiningRowHolds`, `DecisionsHold`, `CountsHold`,
`OutcomeHolds`, `FilledOnceHolds`, `StaleHolds` and the action property `OffStays`, so every property
of the run, for any number of workers, rows and values, any batch and sample, and every layout.
The invariant `Inv` ties four things together:

- `Filter`: the struct to its history - the reason it shows is the first one noted, waiting means
  no bits and no fill, ready means one fill, and the bits hold the keys of all first rows that were
  read. `Passes` and `Follows` say what a call of the server may make of a struct; each function has a
  lemma from a good struct to `Follows`, and `FilterNote` takes it to `Filter` of the next state.
- `Phase`: what the two inputs have published to the members they write.
- `WorkersOK`: a worker's stale copy to the filter. `late` is not above `seen_unflushed` while the
  copy says ready, which is why a stale worker stops before its batch is full; a copy that says ready
  is of a filter that has bits, on or off.
- `Counts`: what the owner has counted plus the sum over the workers is the rows given.

A sum over the workers is a recursive function on sets, for which the library's induction theorems
cannot be used here (they take an operator as parameter). The lemmas on `SumOver` do without: they
take a smallest set for which the claim fails (`WFMin` and the well-founded order of finite subsets)
and derive a contradiction from the set without one element. `SumChange`, a change at one place
changes the sum by as much, is what `WorkerBegin`, `WorkerRow` and `WorkerEnd` need.

`GbyScenariosProofs`: `GTypeCorrect`, `CacheStaysConsistent`, `FlushAsRowPath`, `AddsDocumented` and
`EvictionComplete`, the five invariants of the flush and the eviction suites, for every table size,
hash function, number of rows, groups and keys, and every sequence of scenarios. The parts of the
argument:

- Loops. The shift of a removal, the eviction of the noted entries, the set-up and the loops of the
  flush and the row path are recursive functions over 0 .. n. `Recursion` shows that such a function
  exists (`Iterates`), and `Induction` carries a set closed under the step along it, again by a
  least counterexample.
- Distances. Slots are compared by `Dist`, how far one is after the other around the table. In it
  the modulus is gone: a probe's order is linear and the wrap at the end needs no case of its own.
- Removal. `Removal` is the invariant of the backward shift: one more free slot, the hole
  (`HoleOpen`); the entries are those of before less one, and their values name their slots
  (`Shifted`); no probe passes a free slot but the hole, and none of an entry already looked at
  passes the hole (`HolePassed`). It
  ends at a free slot, which exists because at most half of the slots are used. So a removal,
  wherever the cluster lies, leaves a table in which every probe still succeeds.
- `InOrder` is that table together with its values, counter and pool. `Removed`, `Cleared`,
  `Placed`, `Added` and `Dropped` say what each function of the cache leaves, as a set of entries
  (`Contents`), in which shifted slots do not appear; eviction is then a difference of sets.
- Flush. `Evaluated` and `Touched` describe the calls and touches after each pending row as the list
  of the first, or last, rows of their groups (`Listed`); `PathAt` describes the row path by the
  same rows, and `FlushAsRowPath` compares the two. The groups of a flush have slots of their own
  because 37 is odd, hence has an inverse modulo a power of two (`InverseOf37`, `FlushSlotsDiffer`).

`GInv`, the inductive invariant, has one conjunct per stage of a scenario (`FlushStage`,
`FlushedStage`, `AddStage`, `SameStage`, `EvictStage`, `EvictedStage`), `IdleStage` for the cache
freed between two, and `HandedBack` for the last result, so that what an earlier scenario left in the
fakes can be seen not to matter. It was model-checked on the run's instance first. The theorems
are about the external functions as `GbyCache` gives them, not about the server's code.

Only model-checked:

- liveness (`EveryRunEnds`, `ResumeCompletes`): fairness is out of the prover's reach;
- concurrent pipeline runs on one head, and a tree's reuse by several threads: not in the models.

## 5. Not modelled

The text analyses (`static_lint`, `or_buf`, `perf_claims`, `arch_infer`, `md_lint`,
`source_facts_check`), the generation of reports and pages, the external engine and its drivers,
and imported skills. Of the suites, those whose hooks forward one call or compute one value have
no state to model: a model of them would be a model of the engine function, which is not in the
repository (`having_selectivity`, `char_keys`, `num_step_scale`, `num_leaf_constant`,
`parallel_cost`, ...). `query_hash_join.rtf_clone` builds a filter with an open-addressing insert
and is a candidate beside `GbyCache`. `PROJECT.json` gives the reason for each component.

## 6. Plan

In this order, most important first; done so far: `Unitseam`, `PostReview` with
`Publication`, `Pipeline`, `KeptTrees`, the GROUP BY suites, `HjoinBloom`.

1. `Adjudicate`: obligations to status, withheld comment suggestions, `dedup`,
   `repro_obligation` and `fill_importance` in the order `n_gate` runs them. Properties: status
   against obligations over all inputs, no blocking finding demoted without a look at the records,
   importance against final severity, what deduplication may drop.
2. `UnitRegress`: the verdict table over cases of head and base, composed with what `Unitseam`
   says a run returns (a suite that fails does not stop the review; a missing base is no regression).
3. `ServerSession`: snapshot and restore, nested or overlapping sessions, a kill between the two.
   Abstract specification: the configuration after the last session is the one before the first.
4. `ReviewWatch`: the seen list, the limit per round, failing and killed reviews.
5. `Threads`: classification of threads, replies and their repetition, episodic outcomes.
6. `ContextPack` and `CodeGraph`: batching under a budget and call resolution as functions against
   reference definitions; `Pipeline` with concurrent runs on one head (`Serial = FALSE`).
7. The implementation gate: order of checks and release conditions.

Theorems next: the gate's status facts of `Adjudicate`; the invariants of items 2 to 4 as they are modelled.
