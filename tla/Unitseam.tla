------------------------------- MODULE Unitseam -------------------------------
(***************************************************************************)
(* Concurrent runs of tools/harness/unitseam.py.  A run compiles one        *)
(* translation unit of a revision together with a Catch2 test, executes it  *)
(* and reports the cases.  All runs share, per revision, one git worktree   *)
(* (created on demand under a per-revision flock) and, per output           *)
(* directory, the object files, the binary and result.xml (under a second   *)
(* flock).  A run is a process: it may be killed between any two steps,     *)
(* which releases its flocks but leaves every file it wrote.                *)
(***************************************************************************)
EXTENDS Naturals

CONSTANTS
    Runs,       \* processes that execute unitseam.py or unit_regress.py
    Revs,       \* revisions (commit ids)
    Outs,       \* values of --out
    MaxRevs,    \* bound on the number of --rev arguments of one run
    None        \* "no run"

ASSUME NoneAssumption == None \notin Runs
ASSUME RevsAssumption == Revs # {} /\ Outs # {}
ASSUME MaxRevsAssumption == MaxRevs \in Nat \ {0}

VARIABLES
    pc,         \* where each run is
    cur,        \* the revision a run works on
    out,        \* the --out argument of a run
    patch,      \* was the run given --patch
    did,        \* revisions a run has finished (the summary list)
    why,        \* the exception that ended a run, or "ok"
    wtLock,     \* holder of wt-unit-<rev9>.lock
    tree,       \* the directory wt-unit-<rev9>
    reg,        \* git's registration of that worktree
    marker,     \* is unitseam-ready in the worktree's admin directory
    orphan,     \* is a `git worktree add` still running whose parent was killed
    mut,        \* a run's mutation worktree of a revision, wt-unit-<rev9>-mut-<pid>
    outLock,    \* holder of .unitseam.lock of an output directory
    tu, test,   \* writers of tu.o and test.o in an output directory
    bin,        \* the objects unit.bin was linked from
    xml,        \* the execution result.xml comes from
    catch,      \* is catch_main.o baked
    res         \* the last result a run returned

treeVars == <<wtLock, tree, reg, marker, orphan>>
outVars  == <<outLock, tu, test, bin, xml>>
vars == <<pc, cur, out, patch, did, why, treeVars, mut, outVars, catch, res>>

Dirs == Outs \X Revs
Dir(r) == <<out[r], cur[r]>>
MutDir(r) == <<r, cur[r]>>

\* "stuck": git was asked to remove it and did not.
MutStates == {"none", "made", "stuck"}

WtSteps  == {"check", "clean", "prune", "add", "adding", "mark"}
OutSteps == {"compile_tu", "compile_test", "link", "bake", "execute", "parse", "unlock"}
Ended    == {"done", "failed", "dead"}
Labels   == {"new", "rev", "wt_lock", "tree", "apply", "mkout", "out_lock", "unmut"}
              \cup WtSteps \cup OutSteps \cup Ended

Reasons  == {"ok", "rev-parse", "add-refused", "add-failed", "patch", "mkdir",
             "build", "timeout", "mut-timeout"}

Unread == [by |-> None, whole |-> FALSE]    \* no result.xml
Xml    == [by : Runs \cup {None}, whole : BOOLEAN]
Bin    == [tu : Runs \cup {None}, test : Runs \cup {None}]
NoBin  == [tu |-> None, test |-> None]
Status == {"none", "no-file", "compile-error", "link-error", "ran"}
Result == [status : Status, src : Runs \cup {None}]
NoResult == [status |-> "none", src |-> None]

RunTypes ==
    /\ pc \in [Runs -> Labels]
    /\ cur \in [Runs -> Revs]
    /\ out \in [Runs -> Outs]
    /\ patch \in [Runs -> BOOLEAN]
    /\ did \in [Runs -> 0..MaxRevs]
    /\ why \in [Runs -> Reasons]
    /\ mut \in [Runs \X Revs -> MutStates]
    /\ res \in [Runs -> Result]

TreeTypes ==
    /\ wtLock \in [Revs -> Runs \cup {None}]
    /\ tree \in [Revs -> {"absent", "partial", "complete"}]
    /\ reg \in [Revs -> {"none", "initializing", "registered"}]
    /\ marker \in [Revs -> BOOLEAN]
    /\ orphan \in [Revs -> BOOLEAN]

OutTypes ==
    /\ outLock \in [Dirs -> Runs \cup {None}]
    /\ tu \in [Dirs -> Runs \cup {None}]
    /\ test \in [Dirs -> Runs \cup {None}]
    /\ bin \in [Dirs -> Bin]
    /\ xml \in [Dirs -> Xml]
    /\ catch \in BOOLEAN

\* Every variable has its type; a run never reports more revisions than it was given.
TypeOK == RunTypes /\ TreeTypes /\ OutTypes

(***************************************************************************)
(* The worktree directory a run may meet: none; one of before the ready     *)
(* marker existed (complete, unmarked); a marked one; a bare half-made      *)
(* directory that git does not know.  Output directories start empty.       *)
(***************************************************************************)
Init ==
    /\ pc = [r \in Runs |-> "new"]
    /\ cur = [r \in Runs |-> CHOOSE v \in Revs : TRUE]
    /\ out = [r \in Runs |-> CHOOSE o \in Outs : TRUE]
    /\ patch = [r \in Runs |-> FALSE]
    /\ did = [r \in Runs |-> 0]
    /\ why = [r \in Runs |-> "ok"]
    /\ wtLock = [v \in Revs |-> None]
    /\ tree \in [Revs -> {"absent", "partial", "complete"}]
    /\ reg = [v \in Revs |-> IF tree[v] = "complete" THEN "registered" ELSE "none"]
    /\ marker \in [Revs -> BOOLEAN]
    /\ \A v \in Revs : marker[v] => tree[v] = "complete"
    /\ orphan = [v \in Revs |-> FALSE]
    /\ mut = [m \in Runs \X Revs |-> "none"]
    /\ outLock = [d \in Dirs |-> None]
    /\ tu = [d \in Dirs |-> None]
    /\ test = [d \in Dirs |-> None]
    /\ bin = [d \in Dirs |-> NoBin]
    /\ xml = [d \in Dirs |-> Unread]
    /\ catch \in BOOLEAN
    /\ res = [r \in Runs |-> NoResult]

Goto(r, label) == pc' = [pc EXCEPT ![r] = label]

\* The run ends with an exception e; the caller prints it or records it.
Raise(r, e) == Goto(r, "failed") /\ why' = [why EXCEPT ![r] = e]

-----------------------------------------------------------------------------
(* main, run_suite: the command line and the loop over the revisions *)

Start(r) ==
    /\ pc[r] = "new"
    /\ \E o \in Outs, p \in BOOLEAN :
         /\ out' = [out EXCEPT ![r] = o]
         /\ patch' = [patch EXCEPT ![r] = p]
    /\ Goto(r, "rev")
    /\ UNCHANGED <<cur, did, why, treeVars, mut, outVars, catch, res>>

\* build_and_run for the next --rev; rev-parse fails on a name git does not know.
TakeRev(r) ==
    /\ pc[r] = "rev"
    /\ did[r] < MaxRevs
    /\ \/ \E v \in Revs : cur' = [cur EXCEPT ![r] = v] /\ Goto(r, "wt_lock") /\ UNCHANGED why
       \/ Raise(r, "rev-parse") /\ UNCHANGED cur
    /\ UNCHANGED <<out, patch, did, treeVars, mut, outVars, catch, res>>

\* Every --rev is done: write summary.json and print it.
Finish(r) ==
    /\ pc[r] = "rev"
    /\ did[r] > 0
    /\ Goto(r, "done")
    /\ UNCHANGED <<cur, out, patch, did, why, treeVars, mut, outVars, catch, res>>

-----------------------------------------------------------------------------
(* worktree: make or reuse the shared worktree of the revision *)

\* Mutant of AcquireWtLock: no flock.
EnterWithoutWtLock(r) ==
    /\ pc[r] = "wt_lock"
    /\ wtLock' = [wtLock EXCEPT ![cur[r]] = r]
    /\ Goto(r, "check")
    /\ UNCHANGED <<cur, out, patch, did, why, tree, reg, marker, orphan, mut, outVars, catch, res>>

AcquireWtLock(r) ==
    /\ pc[r] = "wt_lock"
    /\ wtLock[cur[r]] = None
    /\ wtLock' = [wtLock EXCEPT ![cur[r]] = r]
    /\ Goto(r, "check")
    /\ UNCHANGED <<cur, out, patch, did, why, tree, reg, marker, orphan, mut, outVars, catch, res>>

ReleaseWtLock(r) == wtLock' = [wtLock EXCEPT ![cur[r]] = None]

\* Mutant of Ready: what worktree() did before the marker, any directory will do.
ReadyIfPresent(v) == tree[v] # "absent"

\* Registered with git and marked, or unmarked with every tracked file in place.
Ready(v) ==
    /\ tree[v] # "absent"
    /\ reg[v] # "none"
    /\ marker[v] \/ tree[v] = "complete"

\* Use the worktree as it is; an unmarked one is adopted (the marker is written).
UseReady(r) ==
    /\ pc[r] = "check"
    /\ Ready(cur[r])
    /\ marker' = [marker EXCEPT ![cur[r]] = TRUE]
    /\ ReleaseWtLock(r)
    /\ Goto(r, "tree")
    /\ UNCHANGED <<cur, out, patch, did, why, tree, reg, orphan, mut, outVars, catch, res>>

NotReady(r) ==
    /\ pc[r] = "check"
    /\ ~Ready(cur[r])
    /\ Goto(r, IF tree[cur[r]] = "absent" THEN "prune" ELSE "clean")
    /\ UNCHANGED <<cur, out, patch, did, why, treeVars, mut, outVars, catch, res>>

(***************************************************************************)
(* `git worktree remove --force` deletes a registered worktree, directory,  *)
(* registration and marker, but refuses one that is still initializing.     *)
(* What is left of the directory goes with rmtree, whose errors are         *)
(* ignored: a directory somebody is still writing into may survive it.      *)
(***************************************************************************)
Clean(r) ==
    LET v == cur[r] IN
    /\ pc[r] = "clean"
    /\ \/ /\ reg[v] = "registered"
          /\ tree' = [tree EXCEPT ![v] = "absent"]
          /\ reg' = [reg EXCEPT ![v] = "none"]
          /\ marker' = [marker EXCEPT ![v] = FALSE]
       \/ /\ reg[v] # "registered"
          /\ \E t \in {"absent"} \cup (IF orphan[v] THEN {"partial"} ELSE {}) :
               tree' = [tree EXCEPT ![v] = t]
          /\ UNCHANGED <<reg, marker>>
    /\ Goto(r, "prune")
    /\ UNCHANGED <<cur, out, patch, did, why, wtLock, orphan, mut, outVars, catch, res>>

\* `git worktree prune` forgets every worktree of the repository whose directory
\* is gone, except those still initializing; their admin directory holds the marker.
Prune(r) ==
    LET gone == {v \in Revs : tree[v] = "absent" /\ reg[v] = "registered"} IN
    /\ pc[r] = "prune"
    /\ reg' = [v \in Revs |-> IF v \in gone THEN "none" ELSE reg[v]]
    /\ marker' = [v \in Revs |-> v \notin gone /\ marker[v]]
    /\ Goto(r, "add")
    /\ UNCHANGED <<cur, out, patch, did, why, wtLock, tree, orphan, mut, outVars, catch, res>>

\* Mutant of AddBegin: the marker is written before the checkout instead of after it.
MarkThenAdd(r) ==
    LET v == cur[r] IN
    /\ pc[r] = "add"
    /\ tree[v] = "absent" /\ reg[v] = "none"
    /\ tree' = [tree EXCEPT ![v] = "partial"]
    /\ reg' = [reg EXCEPT ![v] = "initializing"]
    /\ marker' = [marker EXCEPT ![v] = TRUE]
    /\ Goto(r, "adding")
    /\ UNCHANGED <<cur, out, patch, did, why, wtLock, orphan, mut, outVars, catch, res>>

\* `git worktree add` registers the worktree as initializing, then checks it out.
AddBegin(r) ==
    LET v == cur[r] IN
    /\ pc[r] = "add"
    /\ tree[v] = "absent" /\ reg[v] = "none"
    /\ tree' = [tree EXCEPT ![v] = "partial"]
    /\ reg' = [reg EXCEPT ![v] = "initializing"]
    /\ Goto(r, "adding")
    /\ UNCHANGED <<cur, out, patch, did, why, wtLock, marker, orphan, mut, outVars, catch, res>>

\* It refuses a directory that exists and a path that is still registered.
AddRefused(r) ==
    LET v == cur[r] IN
    /\ pc[r] = "add"
    /\ tree[v] # "absent" \/ reg[v] # "none"
    /\ ReleaseWtLock(r)
    /\ Raise(r, "add-refused")
    /\ UNCHANGED <<cur, out, patch, did, tree, reg, marker, orphan, mut, outVars, catch, res>>

AddDone(r) ==
    LET v == cur[r] IN
    /\ pc[r] = "adding"
    /\ tree' = [tree EXCEPT ![v] = "complete"]
    /\ reg' = [reg EXCEPT ![v] = "registered"]
    /\ Goto(r, "mark")
    /\ UNCHANGED <<cur, out, patch, did, why, wtLock, marker, orphan, mut, outVars, catch, res>>

\* The checkout fails (disk full...): git removes its junk and reports the error.  Or
\* it takes longer than the 1800 s of sh(), which then kills git where it is.
AddFailed(r) ==
    LET v == cur[r] IN
    /\ pc[r] = "adding"
    /\ \/ /\ tree' = [tree EXCEPT ![v] = "absent"]
          /\ reg' = [reg EXCEPT ![v] = "none"]
          /\ Raise(r, "add-failed")
       \/ /\ UNCHANGED <<tree, reg>>
          /\ Raise(r, "timeout")
    /\ ReleaseWtLock(r)
    /\ UNCHANGED <<cur, out, patch, did, marker, orphan, mut, outVars, catch, res>>

WriteMarker(r) ==
    /\ pc[r] = "mark"
    /\ marker' = [marker EXCEPT ![cur[r]] = TRUE]
    /\ ReleaseWtLock(r)
    /\ Goto(r, "tree")
    /\ UNCHANGED <<cur, out, patch, did, why, tree, reg, orphan, mut, outVars, catch, res>>

\* The `git worktree add` of a killed run comes to its end.  When another run
\* emptied the directory meanwhile, what it leaves is incomplete.
OrphanEnds(v) ==
    /\ orphan[v]
    /\ orphan' = [orphan EXCEPT ![v] = FALSE]
    /\ \/ /\ tree' = [tree EXCEPT ![v] = IF @ = "partial" THEN "complete" ELSE @]
          /\ reg' = [reg EXCEPT ![v] = "registered"]
       \/ /\ tree' = [tree EXCEPT ![v] = "partial"]
          /\ reg' = [reg EXCEPT ![v] = "registered"]
       \/ /\ tree' = [tree EXCEPT ![v] = "absent"]
          /\ reg' = [reg EXCEPT ![v] = "none"]
    /\ UNCHANGED <<pc, cur, out, patch, did, why, wtLock, marker, mut, outVars, catch, res>>

-----------------------------------------------------------------------------
(* mutation_worktree, build_and_run *)

SetMut(r, state) == mut' = [mut EXCEPT ![MutDir(r)] = state]

(***************************************************************************)
(* With --patch the run works in a worktree of its own, named after its     *)
(* pid.  `git worktree add` makes it; or it refuses a directory that an     *)
(* earlier --rev of this run could not remove, or fails and removes what it *)
(* made; or it is cut off after the 1800 s of sh(), which leaves it there.  *)
(***************************************************************************)
MutationWorktree(r) ==
    /\ pc[r] = "tree"
    /\ \/ /\ ~patch[r]
          /\ Goto(r, "mkout")
          /\ UNCHANGED <<mut, why>>
       \/ /\ patch[r] /\ mut[MutDir(r)] = "none"
          /\ SetMut(r, "made")
          /\ \/ Goto(r, "apply") /\ UNCHANGED why
             \/ Raise(r, "mut-timeout")
       \/ /\ patch[r]
          /\ Raise(r, "add-failed")
          /\ UNCHANGED mut
    /\ UNCHANGED <<cur, out, patch, did, treeVars, outVars, catch, res>>

\* `git apply`.  A patch that does not apply has the worktree removed again, by a
\* command whose failure is ignored; sh() may cut off either command.
ApplyPatch(r) ==
    /\ pc[r] = "apply"
    /\ \/ Goto(r, "mkout") /\ UNCHANGED <<mut, why>>
       \/ \E state \in {"none", "stuck"} : SetMut(r, state) /\ Raise(r, "patch")
       \/ SetMut(r, "stuck") /\ Raise(r, "timeout")
       \/ UNCHANGED mut /\ Raise(r, "mut-timeout")
    /\ UNCHANGED <<cur, out, patch, did, treeVars, outVars, catch, res>>

\* os.makedirs(out) stands before the try block that removes the mutation worktree.
MakeOut(r) ==
    /\ pc[r] = "mkout"
    /\ \/ Goto(r, "out_lock") /\ UNCHANGED why
       \/ Raise(r, "mkdir")
    /\ UNCHANGED <<cur, out, patch, did, treeVars, mut, outVars, catch, res>>

\* Mutant of AcquireOutLock: no flock.
EnterWithoutOutLock(r) ==
    /\ pc[r] = "out_lock"
    /\ outLock' = [outLock EXCEPT ![Dir(r)] = r]
    /\ Goto(r, "compile_tu")
    /\ UNCHANGED <<cur, out, patch, did, why, treeVars, mut, tu, test, bin, xml, catch, res>>

AcquireOutLock(r) ==
    /\ pc[r] = "out_lock"
    /\ outLock[Dir(r)] = None
    /\ outLock' = [outLock EXCEPT ![Dir(r)] = r]
    /\ Goto(r, "compile_tu")
    /\ UNCHANGED <<cur, out, patch, did, why, treeVars, mut, tu, test, bin, xml, catch, res>>

-----------------------------------------------------------------------------
(* _build_and_run, under the output directory's lock *)

\* Write result.json, return the record to the caller.
Return(r, status, src) ==
    /\ res' = [res EXCEPT ![r] = [status |-> status, src |-> src]]
    /\ did' = [did EXCEPT ![r] = @ + 1]
    /\ Goto(r, "unlock")
    /\ UNCHANGED why

\* A checked command fails, or a subprocess times out: the exception unwinds
\* through the lock and the finally block.
Unwind(r, e) ==
    /\ why' = [why EXCEPT ![r] = e]
    /\ Goto(r, "unlock")
    /\ UNCHANGED <<res, did>>

CompileTU(r) ==
    /\ pc[r] = "compile_tu"
    /\ \/ Return(r, "no-file", None) /\ UNCHANGED tu
       \/ Return(r, "compile-error", None) /\ UNCHANGED tu
       \/ Unwind(r, "build") /\ UNCHANGED tu     \* no compile flags for the file
       \/ /\ tu' = [tu EXCEPT ![Dir(r)] = r]
          /\ Goto(r, "compile_test")
          /\ UNCHANGED <<res, did, why>>
    /\ UNCHANGED <<cur, out, patch, treeVars, mut, outLock, test, bin, xml, catch>>

\* The test, then the extra engine files, the stub runtime and the prelude.
CompileTest(r) ==
    /\ pc[r] = "compile_test"
    /\ \/ Return(r, "compile-error", None) /\ UNCHANGED test
       \/ Unwind(r, "build") /\ UNCHANGED test
       \/ /\ test' = [test EXCEPT ![Dir(r)] = r]
          /\ Goto(r, IF catch THEN "link" ELSE "bake")
          /\ UNCHANGED <<res, did, why>>
    /\ UNCHANGED <<cur, out, patch, treeVars, mut, outLock, tu, bin, xml, catch>>

\* catch_main: compile under a private name, then rename into place.
BakeCatchMain(r) ==
    /\ pc[r] = "bake"
    /\ \/ /\ catch' = TRUE
          /\ Goto(r, "link")
          /\ UNCHANGED <<res, did, why>>
       \/ Unwind(r, "build") /\ UNCHANGED catch
    /\ UNCHANGED <<cur, out, patch, treeVars, mut, outVars>>

Link(r) ==
    /\ pc[r] = "link"
    /\ \/ Return(r, "link-error", None) /\ UNCHANGED bin
       \/ Unwind(r, "build") /\ UNCHANGED bin
       \/ /\ bin' = [bin EXCEPT ![Dir(r)] = [tu |-> tu[Dir(r)], test |-> test[Dir(r)]]]
          /\ Goto(r, "execute")
          /\ UNCHANGED <<res, did, why>>
    /\ UNCHANGED <<cur, out, patch, treeVars, mut, outLock, tu, test, xml, catch>>

\* The binary runs to its end, dies while the tests run, dies before Catch opens
\* result.xml (in a static initializer), or is killed after --timeout seconds.
Execute(r) ==
    LET Opened(whole) == xml' = [xml EXCEPT ![Dir(r)] = [by |-> r, whole |-> whole]] IN
    /\ pc[r] = "execute"
    /\ \/ /\ (\E w \in BOOLEAN : Opened(w)) \/ UNCHANGED xml
          /\ Goto(r, "parse")
          /\ UNCHANGED <<res, did, why>>
       \/ /\ Opened(FALSE) \/ UNCHANGED xml
          /\ Unwind(r, "timeout")
    /\ UNCHANGED <<cur, out, patch, treeVars, mut, outLock, tu, test, bin, catch>>

\* Read the cases from result.xml; one that does not parse yields a failed case.
Parse(r) ==
    LET x == xml[Dir(r)] IN
    /\ pc[r] = "parse"
    /\ Return(r, "ran", IF x.whole THEN x.by ELSE None)
    /\ UNCHANGED <<cur, out, patch, treeVars, mut, outVars, catch>>

\* Mutant of ReleaseOutLock: an exception leaves without giving the lock back.
ReleaseOnlyOnReturn(r) ==
    /\ pc[r] = "unlock"
    /\ outLock' = IF why[r] = "ok" THEN [outLock EXCEPT ![Dir(r)] = None] ELSE outLock
    /\ Goto(r, "unmut")
    /\ UNCHANGED <<cur, out, patch, did, why, treeVars, mut, tu, test, bin, xml, catch, res>>

ReleaseOutLock(r) ==
    /\ pc[r] = "unlock"
    /\ outLock' = [outLock EXCEPT ![Dir(r)] = None]
    /\ Goto(r, "unmut")
    /\ UNCHANGED <<cur, out, patch, did, why, treeVars, mut, tu, test, bin, xml, catch, res>>

\* Where the finally block leads: on to the next --rev, or the exception goes out.
Leave(r) == Goto(r, IF why[r] = "ok" THEN "rev" ELSE "failed") /\ UNCHANGED why

\* Mutant of RemoveMutation: removal after a return only, not in a finally block.
RemoveOnlyOnReturn(r) ==
    /\ pc[r] = "unmut"
    /\ \/ patch[r] /\ why[r] = "ok" /\ SetMut(r, "none") /\ Leave(r)
       \/ ~(patch[r] /\ why[r] = "ok") /\ UNCHANGED mut /\ Leave(r)
    /\ UNCHANGED <<cur, out, patch, did, treeVars, outVars, catch, res>>

\* finally: remove the mutation worktree.  A failure of the command is ignored; when
\* sh() cuts it off, its exception takes the place of a return or of another one.
RemoveMutation(r) ==
    /\ pc[r] = "unmut"
    /\ \/ ~patch[r] /\ UNCHANGED mut /\ Leave(r)
       \/ patch[r] /\ \E state \in {"none", "stuck"} : SetMut(r, state) /\ Leave(r)
       \/ patch[r] /\ SetMut(r, "stuck") /\ Raise(r, "timeout")
    /\ UNCHANGED <<cur, out, patch, did, treeVars, outVars, catch, res>>

-----------------------------------------------------------------------------
(***************************************************************************)
(* A run is killed.  The kernel drops its flocks, its files stay.  A git    *)
(* process that is checking out dies with it and cleans up (SIGINT,         *)
(* SIGTERM), dies leaving the initializing registration (SIGKILL, power     *)
(* loss), or lives on as an orphan.  A `git worktree add` of the run's      *)
(* mutation worktree that was under way may leave that on disk.             *)
(***************************************************************************)
Crash(r) ==
    LET v == cur[r] IN
    /\ pc[r] \notin Ended \cup {"new"}
    /\ Goto(r, "dead")
    /\ wtLock' = [w \in Revs |-> IF wtLock[w] = r THEN None ELSE wtLock[w]]
    /\ outLock' = [d \in Dirs |-> IF outLock[d] = r THEN None ELSE outLock[d]]
    /\ \/ pc[r] # "adding" /\ UNCHANGED <<tree, reg, orphan>>
       \/ /\ pc[r] = "adding"
          /\ tree' = [tree EXCEPT ![v] = "absent"]
          /\ reg' = [reg EXCEPT ![v] = "none"]
          /\ UNCHANGED orphan
       \/ pc[r] = "adding" /\ UNCHANGED <<tree, reg, orphan>>
       \/ /\ pc[r] = "adding"
          /\ orphan' = [orphan EXCEPT ![v] = TRUE]
          /\ UNCHANGED <<tree, reg>>
    /\ \/ UNCHANGED mut
       \/ pc[r] = "tree" /\ patch[r] /\ mut[MutDir(r)] = "none" /\ SetMut(r, "made")
    /\ UNCHANGED <<cur, out, patch, did, why, marker, tu, test, bin, xml, catch, res>>

\* Every process has ended: nothing more happens.
AllEnded ==
    /\ \A r \in Runs : pc[r] \in Ended
    /\ \A v \in Revs : ~orphan[v]
    /\ UNCHANGED vars

RunStep(r) ==
    \/ TakeRev(r) \/ Finish(r)
    \/ AcquireWtLock(r) \/ UseReady(r) \/ NotReady(r) \/ Clean(r) \/ Prune(r)
    \/ AddBegin(r) \/ AddRefused(r) \/ AddDone(r) \/ AddFailed(r) \/ WriteMarker(r)
    \/ MutationWorktree(r) \/ ApplyPatch(r) \/ MakeOut(r) \/ AcquireOutLock(r)
    \/ CompileTU(r) \/ CompileTest(r) \/ BakeCatchMain(r) \/ Link(r)
    \/ Execute(r) \/ Parse(r) \/ ReleaseOutLock(r) \/ RemoveMutation(r)

Next ==
    \/ \E r \in Runs : Start(r) \/ RunStep(r) \/ Crash(r)
    \/ \E v \in Revs : OrphanEnds(v)
    \/ AllEnded

Spec == Init /\ [][Next]_vars

\* A live process keeps executing; nothing obliges anybody to start or kill one.
Fairness == \A r \in Runs : WF_vars(RunStep(r))
FairSpec == Spec /\ Fairness

-----------------------------------------------------------------------------
(* Properties *)

\* Labels at which a run holds the path worktree() returned.
UsesTree == {"tree", "apply", "mkout", "out_lock"} \cup (OutSteps \ {"unlock"})

\* A run that got a worktree from worktree() has a complete, marked checkout for
\* as long as it builds in it, whoever else creates, is killed or cleans up
\* meanwhile (the race H-13 of the module's docstring and of worktree()'s).
NoHalfCheckout ==
    \A r \in Runs : pc[r] \in UsesTree => tree[cur[r]] = "complete" /\ marker[cur[r]]

\* What unit.bin executes was linked from the objects this very run compiled: two
\* runs with the same --out and revision do not mix tu.o, test.o and unit.bin.
OwnBinary ==
    \A r \in Runs : pc[r] = "execute" => bin[Dir(r)] = [tu |-> r, test |-> r]

\* Once the ready marker is written no step of any run, not the cleaning of
\* another run and not `git worktree prune`, takes the worktree away again.
MarkedStays ==
    [][\A v \in Revs : marker[v] => marker'[v] /\ tree'[v] = "complete"]_vars

\* A run has removed the mutation worktree of a revision, or has had git try to, when
\* it goes on to the next revision or ends.  It never tried only if it was killed, if
\* sh() cut off the `git worktree add` or `git apply` that prepare it, or if
\* os.makedirs failed: the three ways past the try block of build_and_run.
MutationRemoved ==
    \A r \in Runs, v \in Revs :
        mut[<<r, v>>] = "made" /\ pc[r] \in Ended \cup {"rev"} =>
            pc[r] = "dead" \/ why[r] \in {"mkdir", "mut-timeout"}

\* A started run ends - with its summary, with an exception or killed: no run
\* waits for ever at the two flocks, and no two runs wait for each other.
EveryRunEnds == \A r \in Runs : pc[r] = "rev" ~> pc[r] \in Ended

\* What the docstring promises of a creation that died half-way: its leftovers
\* are removed and the worktree is made again.  `git worktree add` is then refused
\* only while the dead run's own git process is still working in the directory.
RebuiltAfterDeath ==
    [][\A r \in Runs : AddRefused(r) => orphan[cur[r]]]_vars

\* The cases a run reports come from its own execution of unit.bin (or the report
\* says that result.xml was unreadable).
CasesAreOwn ==
    \A r \in Runs : res[r].status = "ran" => res[r].src \in {r, None}

-----------------------------------------------------------------------------
(* The inductive invariant behind NoHalfCheckout, OwnBinary and MutationRemoved *)

Busy == {"wt_lock"} \cup WtSteps \cup UsesTree

\* Who is inside a critical section holds its flock.
LockInv ==
    \A r \in Runs : /\ pc[r] \in WtSteps => wtLock[cur[r]] = r
                    /\ pc[r] \in OutSteps => outLock[Dir(r)] = r

\* A complete directory is a registered one; a marked one is complete; an orphan
\* git process works in an initializing, unmarked one.
TreeInv ==
    \A v \in Revs : /\ tree[v] = "complete" => reg[v] = "registered"
                    /\ marker[v] => tree[v] = "complete"
                    /\ orphan[v] => reg[v] = "initializing"

\* What a run knows of its revision's worktree at each step of worktree().
StepInv ==
    \A r \in Runs :
      /\ pc[r] \in {"clean", "prune", "add", "adding"} => ~marker[cur[r]]
      /\ pc[r] = "adding" => reg[cur[r]] = "initializing" /\ ~orphan[cur[r]]
      /\ pc[r] = "mark" => tree[cur[r]] = "complete"
      /\ pc[r] \in UsesTree => marker[cur[r]]

\* What a run knows of the output directory's files at each step of the build.
BuildInv ==
    \A r \in Runs :
      /\ pc[r] \in {"compile_test", "bake", "link"} => tu[Dir(r)] = r
      /\ pc[r] \in {"bake", "link"} => test[Dir(r)] = r
      /\ pc[r] = "execute" => bin[Dir(r)] = [tu |-> r, test |-> r]

\* Where a run can be while its mutation worktree is on disk and not yet given to
\* git for removal.
MutInv ==
    \A r \in Runs, v \in Revs : mut[<<r, v>>] = "made" =>
        /\ cur[r] = v /\ patch[r]
        /\ \/ pc[r] \in {"apply", "mkout", "out_lock", "unmut", "dead"} \cup OutSteps
           \/ pc[r] = "failed" /\ why[r] \in {"mkdir", "mut-timeout"}

DidInv == \A r \in Runs : pc[r] \in Busy => did[r] < MaxRevs

IndInv ==
    TypeOK /\ LockInv /\ TreeInv /\ StepInv /\ BuildInv /\ MutInv /\ DidInv

=============================================================================
