--------------------------- MODULE UnitseamProofs ---------------------------
(***************************************************************************)
(* Proofs about Unitseam for every set of runs, revisions and output        *)
(* directories.  The argument: the two flocks exclude (LockInv); under the  *)
(* per-revision lock only one run at a time can change an unmarked          *)
(* worktree, and nobody changes a marked one (TreeInv, StepInv); under the  *)
(* output lock a run's object files stay its own (BuildInv).                *)
(***************************************************************************)
EXTENDS Unitseam, TLAPS

-----------------------------------------------------------------------------
(* Types *)

\* Returning a result keeps the types of what belongs to a run.
LEMMA ReturnTypes ==
    ASSUME RunTypes, DidInv, NEW r \in Runs, NEW s \in Status, NEW x \in Runs \cup {None},
           pc[r] \in Busy, Return(r, s, x), UNCHANGED <<cur, out, patch, mut>>
    PROVE  RunTypes' /\ DidInv'
<1>1. did[r] \in 0..MaxRevs /\ did[r] < MaxRevs
  BY DEF RunTypes, DidInv
<1>2. did[r] + 1 \in 0..MaxRevs
  BY <1>1, MaxRevsAssumption
<1>3. did' \in [Runs -> 0..MaxRevs] /\ \A q \in Runs : q # r => did'[q] = did[q]
  BY <1>2 DEF RunTypes, Return
<1>4. "unlock" \in Labels /\ "unlock" \notin Busy
  BY DEF Labels, OutSteps, Busy, WtSteps, UsesTree
<1>5. pc' \in [Runs -> Labels] /\ pc'[r] = "unlock" /\ \A q \in Runs : q # r => pc'[q] = pc[q]
  BY <1>4 DEF RunTypes, Return, Goto
<1>6. [status |-> s, src |-> x] \in Result
  BY DEF Result
<1>7. res' \in [Runs -> Result] /\ why' = why
  BY <1>6 DEF RunTypes, Return
<1>8. RunTypes'
  BY <1>3, <1>5, <1>7 DEF RunTypes
<1>9. DidInv'
  BY <1>3, <1>4, <1>5 DEF DidInv
<1>10. QED
  BY <1>8, <1>9

\* So does a step that moves run r, sets its exception and leaves its count alone.
LEMMA MoveTypes ==
    ASSUME RunTypes, DidInv, NEW r \in Runs, NEW l \in Labels, NEW e \in Reasons,
           l \in Busy => did[r] < MaxRevs,
           Goto(r, l), why' = why \/ why' = [why EXCEPT ![r] = e],
           cur' \in [Runs -> Revs], out' \in [Runs -> Outs], patch' \in [Runs -> BOOLEAN],
           mut' \in [Runs \X Revs -> MutStates], UNCHANGED <<did, res>>
    PROVE  RunTypes' /\ DidInv'
<1>1. pc' \in [Runs -> Labels] /\ pc'[r] = l /\ \A q \in Runs : q # r => pc'[q] = pc[q]
  BY DEF RunTypes, Goto
<1>2. why' \in [Runs -> Reasons]
  BY DEF RunTypes
<1>3. RunTypes'
  BY <1>1, <1>2 DEF RunTypes
<1>4. DidInv'
  BY <1>1 DEF DidInv
<1>5. QED
  BY <1>3, <1>4

\* Writing the state of a run's mutation worktree touches that one only.
LEMMA SetMutOwn ==
    ASSUME RunTypes, NEW r \in Runs, NEW s \in MutStates, SetMut(r, s)
    PROVE  /\ mut' \in [Runs \X Revs -> MutStates]
           /\ \A q \in Runs, v \in Revs :
                mut'[<<q, v>>] = IF q = r /\ v = cur[r] THEN s ELSE mut[<<q, v>>]
<1>1. MutDir(r) \in Runs \X Revs
  BY DEF RunTypes, MutDir
<1>2. QED
  BY <1>1 DEF RunTypes, SetMut, MutDir

\* The directory <out>/<rev9> of a run is one of Dirs.
LEMMA DirType ==
    ASSUME RunTypes, NEW r \in Runs
    PROVE  Dir(r) \in Dirs
  BY DEF RunTypes, Dir, Dirs

\* What belongs to a run keeps its type, and no run counts past MaxRevs.
LEMMA RunTypeStep ==
    ASSUME TypeOK, DidInv, [Next]_vars
    PROVE  (RunTypes /\ DidInv)'
<1> USE DEF TypeOK, treeVars, outVars
<1>1. ASSUME NEW r \in Runs, Start(r) PROVE (RunTypes /\ DidInv)'
  <2>1. /\ Goto(r, "rev") /\ UNCHANGED <<cur, did, why, mut, res>>
        /\ out' \in [Runs -> Outs] /\ patch' \in [Runs -> BOOLEAN]
    BY <1>1 DEF Start, RunTypes
  <2>2. "rev" \in Labels \ Busy /\ "ok" \in Reasons
    BY DEF Labels, Busy, WtSteps, UsesTree, OutSteps, Reasons
  <2> QED
    BY <2>1, <2>2, MoveTypes DEF RunTypes
<1>2. ASSUME NEW r \in Runs, TakeRev(r) PROVE (RunTypes /\ DidInv)'
  <2>1. CASE Raise(r, "rev-parse") /\ UNCHANGED cur
    BY <1>2, <2>1, MoveTypes DEF TakeRev, Raise, RunTypes, Labels, Ended, Reasons, Busy, UsesTree, WtSteps, OutSteps
  <2>2. ASSUME NEW v \in Revs, cur' = [cur EXCEPT ![r] = v], Goto(r, "wt_lock"), UNCHANGED why
        PROVE  (RunTypes /\ DidInv)'
    BY <1>2, <2>2, MoveTypes DEF TakeRev, RunTypes, Labels, Reasons
  <2> QED
    BY <1>2, <2>1, <2>2 DEF TakeRev
<1>3. ASSUME NEW r \in Runs, Finish(r) PROVE (RunTypes /\ DidInv)'
  BY <1>3, MoveTypes DEF Finish, RunTypes, DidInv, Labels, WtSteps, OutSteps, Ended, Reasons, Busy, UsesTree
<1>4. ASSUME NEW r \in Runs, AcquireWtLock(r) PROVE (RunTypes /\ DidInv)'
  BY <1>4, MoveTypes DEF AcquireWtLock, RunTypes, DidInv, Labels, WtSteps, OutSteps, Ended, Reasons, Busy, UsesTree
<1>5. ASSUME NEW r \in Runs, UseReady(r) PROVE (RunTypes /\ DidInv)'
  BY <1>5, MoveTypes DEF UseReady, Ready, ReleaseWtLock, RunTypes, DidInv, Labels, WtSteps, OutSteps, Ended, Reasons, Busy, UsesTree
<1>6. ASSUME NEW r \in Runs, NotReady(r) PROVE (RunTypes /\ DidInv)'
  BY <1>6, MoveTypes DEF NotReady, Ready, RunTypes, DidInv, Labels, WtSteps, OutSteps, Ended, Reasons, Busy, UsesTree
<1>7. ASSUME NEW r \in Runs, Clean(r) PROVE (RunTypes /\ DidInv)'
  BY <1>7, MoveTypes DEF Clean, RunTypes, DidInv, Labels, WtSteps, OutSteps, Ended, Reasons, Busy, UsesTree
<1>8. ASSUME NEW r \in Runs, Prune(r) PROVE (RunTypes /\ DidInv)'
  BY <1>8, MoveTypes DEF Prune, RunTypes, DidInv, Labels, WtSteps, OutSteps, Ended, Reasons, Busy, UsesTree
<1>9. ASSUME NEW r \in Runs, AddBegin(r) PROVE (RunTypes /\ DidInv)'
  BY <1>9, MoveTypes DEF AddBegin, RunTypes, DidInv, Labels, WtSteps, OutSteps, Ended, Reasons, Busy, UsesTree
<1>10. ASSUME NEW r \in Runs, AddRefused(r) PROVE (RunTypes /\ DidInv)'
  BY <1>10, MoveTypes DEF AddRefused, ReleaseWtLock, Raise, RunTypes, DidInv, Labels, WtSteps, OutSteps, Ended, Reasons, Busy, UsesTree
<1>11. ASSUME NEW r \in Runs, AddDone(r) PROVE (RunTypes /\ DidInv)'
  BY <1>11, MoveTypes DEF AddDone, RunTypes, DidInv, Labels, WtSteps, OutSteps, Ended, Reasons, Busy, UsesTree
<1>12. ASSUME NEW r \in Runs, AddFailed(r) PROVE (RunTypes /\ DidInv)'
  BY <1>12, MoveTypes DEF AddFailed, ReleaseWtLock, Raise, RunTypes, DidInv, Labels, WtSteps, OutSteps, Ended, Reasons, Busy, UsesTree
<1>13. ASSUME NEW r \in Runs, WriteMarker(r) PROVE (RunTypes /\ DidInv)'
  BY <1>13, MoveTypes DEF WriteMarker, ReleaseWtLock, RunTypes, DidInv, Labels, WtSteps, OutSteps, Ended, Reasons, Busy, UsesTree
<1>14. ASSUME NEW r \in Runs, MutationWorktree(r) PROVE (RunTypes /\ DidInv)'
  <2>1. UNCHANGED mut \/ \E st \in MutStates : SetMut(r, st)
    BY <1>14 DEF MutationWorktree, MutStates
  <2>2. mut' \in [Runs \X Revs -> MutStates]
    BY <2>1, SetMutOwn DEF RunTypes
  <2> QED
    BY <1>14, <2>2, MoveTypes DEF MutationWorktree, Raise, RunTypes, DidInv, Labels, WtSteps, OutSteps, Ended, Reasons, Busy, UsesTree
<1>15. ASSUME NEW r \in Runs, ApplyPatch(r) PROVE (RunTypes /\ DidInv)'
  <2>1. UNCHANGED mut \/ \E st \in MutStates : SetMut(r, st)
    BY <1>15 DEF ApplyPatch, MutStates
  <2>2. mut' \in [Runs \X Revs -> MutStates]
    BY <2>1, SetMutOwn DEF RunTypes
  <2> QED
    BY <1>15, <2>2, MoveTypes DEF ApplyPatch, Raise, RunTypes, DidInv, Labels, WtSteps, OutSteps, Ended, Reasons, Busy, UsesTree
<1>16. ASSUME NEW r \in Runs, MakeOut(r) PROVE (RunTypes /\ DidInv)'
  BY <1>16, MoveTypes DEF MakeOut, Raise, RunTypes, DidInv, Labels, WtSteps, OutSteps, Ended, Reasons, Busy, UsesTree
<1>17. ASSUME NEW r \in Runs, AcquireOutLock(r) PROVE (RunTypes /\ DidInv)'
  BY <1>17, MoveTypes DEF AcquireOutLock, RunTypes, DidInv, Labels, WtSteps, OutSteps, Ended, Reasons, Busy, UsesTree
<1>18. ASSUME NEW r \in Runs, CompileTU(r) PROVE (RunTypes /\ DidInv)'
  <2>1. pc[r] \in Busy /\ UNCHANGED <<cur, out, patch, mut>>
    BY <1>18 DEF CompileTU, Busy, UsesTree, OutSteps
  <2>2. ASSUME NEW s \in Status, Return(r, s, None) PROVE (RunTypes /\ DidInv)'
    BY <2>1, <2>2, ReturnTypes
  <2>3. ASSUME NEW l \in Labels, NEW e \in Reasons, Goto(r, l), UNCHANGED <<did, res>>,
               why' = why \/ why' = [why EXCEPT ![r] = e]
        PROVE  (RunTypes /\ DidInv)'
    BY <2>1, <2>3, MoveTypes DEF RunTypes, DidInv
  <2> QED
    BY <1>18, <2>2, <2>3 DEF CompileTU, Unwind, Status, Labels, OutSteps, Reasons
<1>19. ASSUME NEW r \in Runs, CompileTest(r) PROVE (RunTypes /\ DidInv)'
  <2>1. pc[r] \in Busy /\ UNCHANGED <<cur, out, patch, mut>>
    BY <1>19 DEF CompileTest, Busy, UsesTree, OutSteps
  <2>2. ASSUME NEW s \in Status, Return(r, s, None) PROVE (RunTypes /\ DidInv)'
    BY <2>1, <2>2, ReturnTypes
  <2>3. ASSUME NEW l \in Labels, NEW e \in Reasons, Goto(r, l), UNCHANGED <<did, res>>,
               why' = why \/ why' = [why EXCEPT ![r] = e]
        PROVE  (RunTypes /\ DidInv)'
    BY <2>1, <2>3, MoveTypes DEF RunTypes, DidInv
  <2> QED
    BY <1>19, <2>2, <2>3 DEF CompileTest, Unwind, Status, Labels, OutSteps, Reasons
<1>20. ASSUME NEW r \in Runs, BakeCatchMain(r) PROVE (RunTypes /\ DidInv)'
  BY <1>20, MoveTypes DEF BakeCatchMain, Unwind, RunTypes, DidInv, Labels, WtSteps, OutSteps, Ended, Reasons, Busy, UsesTree
<1>21. ASSUME NEW r \in Runs, Link(r) PROVE (RunTypes /\ DidInv)'
  <2>1. pc[r] \in Busy /\ UNCHANGED <<cur, out, patch, mut>>
    BY <1>21 DEF Link, Busy, UsesTree, OutSteps
  <2>2. ASSUME NEW s \in Status, Return(r, s, None) PROVE (RunTypes /\ DidInv)'
    BY <2>1, <2>2, ReturnTypes
  <2>3. ASSUME NEW l \in Labels, NEW e \in Reasons, Goto(r, l), UNCHANGED <<did, res>>,
               why' = why \/ why' = [why EXCEPT ![r] = e]
        PROVE  (RunTypes /\ DidInv)'
    BY <2>1, <2>3, MoveTypes DEF RunTypes, DidInv
  <2> QED
    BY <1>21, <2>2, <2>3 DEF Link, Unwind, Status, Labels, OutSteps, Reasons
<1>22. ASSUME NEW r \in Runs, Execute(r) PROVE (RunTypes /\ DidInv)'
  BY <1>22, MoveTypes DEF Execute, Unwind, RunTypes, DidInv, Labels, WtSteps, OutSteps, Ended, Reasons, Busy, UsesTree
<1>23. ASSUME NEW r \in Runs, Parse(r) PROVE (RunTypes /\ DidInv)'
  <2>1. pc[r] \in Busy /\ UNCHANGED <<cur, out, patch, mut>> /\ \E x \in Runs \cup {None} : Return(r, "ran", x)
    BY <1>23, DirType DEF Parse, Busy, UsesTree, OutSteps, OutTypes, Xml
  <2> QED
    BY <2>1, ReturnTypes DEF Status
<1>24. ASSUME NEW r \in Runs, ReleaseOutLock(r) PROVE (RunTypes /\ DidInv)'
  BY <1>24, MoveTypes DEF ReleaseOutLock, RunTypes, DidInv, Labels, WtSteps, OutSteps, Ended, Reasons, Busy, UsesTree
<1>25. ASSUME NEW r \in Runs, RemoveMutation(r) PROVE (RunTypes /\ DidInv)'
  <2>1. UNCHANGED mut \/ \E st \in MutStates : SetMut(r, st)
    BY <1>25 DEF RemoveMutation, MutStates
  <2>2. mut' \in [Runs \X Revs -> MutStates]
    BY <2>1, SetMutOwn DEF RunTypes
  <2> QED
    BY <1>25, <2>2, MoveTypes DEF RemoveMutation, Leave, Raise, RunTypes, DidInv, Labels, WtSteps, OutSteps, Ended, Reasons, Busy, UsesTree
<1>26. ASSUME NEW r \in Runs, Crash(r) PROVE (RunTypes /\ DidInv)'
  <2>1. UNCHANGED mut \/ \E st \in MutStates : SetMut(r, st)
    BY <1>26 DEF Crash, MutStates
  <2>2. mut' \in [Runs \X Revs -> MutStates]
    BY <2>1, SetMutOwn DEF RunTypes
  <2> QED
    BY <1>26, <2>2, MoveTypes DEF Crash, RunTypes, DidInv, Labels, WtSteps, OutSteps, Ended, Reasons, Busy, UsesTree
<1>27. ASSUME NEW v \in Revs, OrphanEnds(v) PROVE (RunTypes /\ DidInv)'
  BY <1>27 DEF OrphanEnds, RunTypes, DidInv
<1>28. CASE UNCHANGED vars
  BY <1>28 DEF vars, RunTypes, DidInv
<1>29. QED
  BY <1>1, <1>2, <1>3, <1>4, <1>5, <1>6, <1>7, <1>8, <1>9, <1>10,
     <1>11, <1>12, <1>13, <1>14, <1>15, <1>16, <1>17, <1>18, <1>19,
     <1>20, <1>21, <1>22, <1>23, <1>24, <1>25, <1>26, <1>27, <1>28
     DEF Next, RunStep, AllEnded

\* The worktree variables keep their types.
LEMMA TreeTypeStep ==
    ASSUME TypeOK, [Next]_vars
    PROVE  TreeTypes'
<1> USE DEF TypeOK
<1>1. ASSUME NEW r \in Runs, Start(r) PROVE TreeTypes'
  BY <1>1 DEF Start, TreeTypes, treeVars
<1>2. ASSUME NEW r \in Runs, TakeRev(r) PROVE TreeTypes'
  BY <1>2 DEF TakeRev, Raise, TreeTypes, treeVars
<1>3. ASSUME NEW r \in Runs, Finish(r) PROVE TreeTypes'
  BY <1>3 DEF Finish, TreeTypes, treeVars
<1>4. ASSUME NEW r \in Runs, AcquireWtLock(r) PROVE TreeTypes'
  BY <1>4 DEF AcquireWtLock, TreeTypes, treeVars
<1>5. ASSUME NEW r \in Runs, UseReady(r) PROVE TreeTypes'
  BY <1>5 DEF UseReady, Ready, ReleaseWtLock, TreeTypes, treeVars
<1>6. ASSUME NEW r \in Runs, NotReady(r) PROVE TreeTypes'
  BY <1>6 DEF NotReady, Ready, TreeTypes, treeVars
<1>7. ASSUME NEW r \in Runs, Clean(r) PROVE TreeTypes'
  <2>1. /\ tree' \in [Revs -> {"absent", "partial", "complete"}]
        /\ reg' \in [Revs -> {"none", "initializing", "registered"}]
        /\ marker' \in [Revs -> BOOLEAN]
    BY <1>7 DEF Clean, TreeTypes
  <2> QED
    BY <1>7, <2>1 DEF Clean, TreeTypes
<1>8. ASSUME NEW r \in Runs, Prune(r) PROVE TreeTypes'
  BY <1>8 DEF Prune, TreeTypes, treeVars
<1>9. ASSUME NEW r \in Runs, AddBegin(r) PROVE TreeTypes'
  BY <1>9 DEF AddBegin, TreeTypes, treeVars
<1>10. ASSUME NEW r \in Runs, AddRefused(r) PROVE TreeTypes'
  BY <1>10 DEF AddRefused, ReleaseWtLock, Raise, TreeTypes, treeVars
<1>11. ASSUME NEW r \in Runs, AddDone(r) PROVE TreeTypes'
  BY <1>11 DEF AddDone, TreeTypes, treeVars
<1>12. ASSUME NEW r \in Runs, AddFailed(r) PROVE TreeTypes'
  BY <1>12 DEF AddFailed, ReleaseWtLock, Raise, TreeTypes, treeVars
<1>13. ASSUME NEW r \in Runs, WriteMarker(r) PROVE TreeTypes'
  BY <1>13 DEF WriteMarker, ReleaseWtLock, TreeTypes, treeVars
<1>14. ASSUME NEW r \in Runs, MutationWorktree(r) PROVE TreeTypes'
  BY <1>14 DEF MutationWorktree, Raise, SetMut, TreeTypes, treeVars
<1>15. ASSUME NEW r \in Runs, ApplyPatch(r) PROVE TreeTypes'
  BY <1>15 DEF ApplyPatch, Raise, SetMut, TreeTypes, treeVars
<1>16. ASSUME NEW r \in Runs, MakeOut(r) PROVE TreeTypes'
  BY <1>16 DEF MakeOut, Raise, TreeTypes, treeVars
<1>17. ASSUME NEW r \in Runs, AcquireOutLock(r) PROVE TreeTypes'
  BY <1>17 DEF AcquireOutLock, TreeTypes, treeVars
<1>18. ASSUME NEW r \in Runs, CompileTU(r) PROVE TreeTypes'
  BY <1>18 DEF CompileTU, Return, Unwind, TreeTypes, treeVars
<1>19. ASSUME NEW r \in Runs, CompileTest(r) PROVE TreeTypes'
  BY <1>19 DEF CompileTest, Return, Unwind, TreeTypes, treeVars
<1>20. ASSUME NEW r \in Runs, BakeCatchMain(r) PROVE TreeTypes'
  BY <1>20 DEF BakeCatchMain, Unwind, TreeTypes, treeVars
<1>21. ASSUME NEW r \in Runs, Link(r) PROVE TreeTypes'
  BY <1>21 DEF Link, Return, Unwind, TreeTypes, treeVars
<1>22. ASSUME NEW r \in Runs, Execute(r) PROVE TreeTypes'
  BY <1>22 DEF Execute, Unwind, TreeTypes, treeVars
<1>23. ASSUME NEW r \in Runs, Parse(r) PROVE TreeTypes'
  BY <1>23 DEF Parse, Return, TreeTypes, treeVars
<1>24. ASSUME NEW r \in Runs, ReleaseOutLock(r) PROVE TreeTypes'
  BY <1>24 DEF ReleaseOutLock, TreeTypes, treeVars
<1>25. ASSUME NEW r \in Runs, RemoveMutation(r) PROVE TreeTypes'
  BY <1>25 DEF RemoveMutation, Leave, SetMut, Raise, TreeTypes, treeVars
<1>26. ASSUME NEW r \in Runs, Crash(r) PROVE TreeTypes'
  <2>1. wtLock' \in [Revs -> Runs \cup {None}]
    BY <1>26 DEF Crash, SetMut, TreeTypes
  <2>2. /\ tree' \in [Revs -> {"absent", "partial", "complete"}]
        /\ reg' \in [Revs -> {"none", "initializing", "registered"}]
        /\ orphan' \in [Revs -> BOOLEAN]
    BY <1>26 DEF Crash, SetMut, TreeTypes
  <2> QED
    BY <1>26, <2>1, <2>2 DEF Crash, SetMut, TreeTypes
<1>27. ASSUME NEW v \in Revs, OrphanEnds(v) PROVE TreeTypes'
  BY <1>27 DEF OrphanEnds, TreeTypes
<1>28. CASE UNCHANGED vars
  BY <1>28 DEF vars, TreeTypes, treeVars
<1>29. QED
  BY <1>1, <1>2, <1>3, <1>4, <1>5, <1>6, <1>7, <1>8, <1>9, <1>10,
     <1>11, <1>12, <1>13, <1>14, <1>15, <1>16, <1>17, <1>18, <1>19,
     <1>20, <1>21, <1>22, <1>23, <1>24, <1>25, <1>26, <1>27, <1>28
     DEF Next, RunStep, AllEnded

\* The output directories keep their types.
LEMMA OutTypeStep ==
    ASSUME TypeOK, [Next]_vars
    PROVE  OutTypes'
<1> USE NoneAssumption DEF TypeOK
<1>1. ASSUME NEW r \in Runs, Start(r) PROVE OutTypes'
  BY <1>1 DEF Start, OutTypes, outVars
<1>2. ASSUME NEW r \in Runs, TakeRev(r) PROVE OutTypes'
  BY <1>2 DEF TakeRev, Raise, OutTypes, outVars
<1>3. ASSUME NEW r \in Runs, Finish(r) PROVE OutTypes'
  BY <1>3 DEF Finish, OutTypes, outVars
<1>4. ASSUME NEW r \in Runs, AcquireWtLock(r) PROVE OutTypes'
  BY <1>4 DEF AcquireWtLock, OutTypes, outVars
<1>5. ASSUME NEW r \in Runs, UseReady(r) PROVE OutTypes'
  BY <1>5 DEF UseReady, Ready, ReleaseWtLock, OutTypes, outVars
<1>6. ASSUME NEW r \in Runs, NotReady(r) PROVE OutTypes'
  BY <1>6 DEF NotReady, Ready, OutTypes, outVars
<1>7. ASSUME NEW r \in Runs, Clean(r) PROVE OutTypes'
  BY <1>7 DEF Clean, OutTypes, outVars
<1>8. ASSUME NEW r \in Runs, Prune(r) PROVE OutTypes'
  BY <1>8 DEF Prune, OutTypes, outVars
<1>9. ASSUME NEW r \in Runs, AddBegin(r) PROVE OutTypes'
  BY <1>9 DEF AddBegin, OutTypes, outVars
<1>10. ASSUME NEW r \in Runs, AddRefused(r) PROVE OutTypes'
  BY <1>10 DEF AddRefused, ReleaseWtLock, Raise, OutTypes, outVars
<1>11. ASSUME NEW r \in Runs, AddDone(r) PROVE OutTypes'
  BY <1>11 DEF AddDone, OutTypes, outVars
<1>12. ASSUME NEW r \in Runs, AddFailed(r) PROVE OutTypes'
  BY <1>12 DEF AddFailed, ReleaseWtLock, Raise, OutTypes, outVars
<1>13. ASSUME NEW r \in Runs, WriteMarker(r) PROVE OutTypes'
  BY <1>13 DEF WriteMarker, ReleaseWtLock, OutTypes, outVars
<1>14. ASSUME NEW r \in Runs, MutationWorktree(r) PROVE OutTypes'
  BY <1>14 DEF MutationWorktree, Raise, SetMut, OutTypes, outVars
<1>15. ASSUME NEW r \in Runs, ApplyPatch(r) PROVE OutTypes'
  BY <1>15 DEF ApplyPatch, Raise, SetMut, OutTypes, outVars
<1>16. ASSUME NEW r \in Runs, MakeOut(r) PROVE OutTypes'
  BY <1>16 DEF MakeOut, Raise, OutTypes, outVars
<1>17. ASSUME NEW r \in Runs, AcquireOutLock(r) PROVE OutTypes'
  BY <1>17, DirType DEF AcquireOutLock, OutTypes, outVars
<1>18. ASSUME NEW r \in Runs, CompileTU(r) PROVE OutTypes'
  BY <1>18, DirType DEF CompileTU, Return, Unwind, OutTypes, outVars
<1>19. ASSUME NEW r \in Runs, CompileTest(r) PROVE OutTypes'
  BY <1>19, DirType DEF CompileTest, Return, Unwind, OutTypes, outVars
<1>20. ASSUME NEW r \in Runs, BakeCatchMain(r) PROVE OutTypes'
  BY <1>20, DirType DEF BakeCatchMain, Unwind, OutTypes, outVars
<1>21. ASSUME NEW r \in Runs, Link(r) PROVE OutTypes'
  BY <1>21, DirType DEF Link, Return, Unwind, OutTypes, outVars, Bin
<1>22. ASSUME NEW r \in Runs, Execute(r) PROVE OutTypes'
  <2>1. ASSUME NEW w \in BOOLEAN, xml' = [xml EXCEPT ![Dir(r)] = [by |-> r, whole |-> w]]
        PROVE  xml' \in [Dirs -> Xml]
    <3>1. [by |-> r, whole |-> w] \in Xml
      BY DEF Xml
    <3> QED
      BY <2>1, <3>1, DirType DEF OutTypes
  <2>2. xml' \in [Dirs -> Xml]
    BY <1>22, <2>1 DEF Execute, OutTypes
  <2> QED
    BY <1>22, <2>2 DEF Execute, OutTypes
<1>23. ASSUME NEW r \in Runs, Parse(r) PROVE OutTypes'
  BY <1>23 DEF Parse, Return, OutTypes, outVars
<1>24. ASSUME NEW r \in Runs, ReleaseOutLock(r) PROVE OutTypes'
  BY <1>24, DirType DEF ReleaseOutLock, OutTypes, outVars
<1>25. ASSUME NEW r \in Runs, RemoveMutation(r) PROVE OutTypes'
  BY <1>25 DEF RemoveMutation, Leave, SetMut, Raise, OutTypes, outVars
<1>26. ASSUME NEW r \in Runs, Crash(r) PROVE OutTypes'
  BY <1>26 DEF Crash, SetMut, OutTypes, outVars
<1>27. ASSUME NEW v \in Revs, OrphanEnds(v) PROVE OutTypes'
  BY <1>27 DEF OrphanEnds, OutTypes, outVars
<1>28. CASE UNCHANGED vars
  BY <1>28 DEF vars, OutTypes, outVars
<1>29. QED
  BY <1>1, <1>2, <1>3, <1>4, <1>5, <1>6, <1>7, <1>8, <1>9, <1>10,
     <1>11, <1>12, <1>13, <1>14, <1>15, <1>16, <1>17, <1>18, <1>19,
     <1>20, <1>21, <1>22, <1>23, <1>24, <1>25, <1>26, <1>27, <1>28
     DEF Next, RunStep, AllEnded

-----------------------------------------------------------------------------
(* The locks *)

\* The two flocks exclude: whoever is in a critical section keeps its lock.
LEMMA LockStep ==
    ASSUME TypeOK, LockInv, [Next]_vars
    PROVE  LockInv'
<1> USE NoneAssumption
    DEF TypeOK, RunTypes, TreeTypes, OutTypes, LockInv, Labels, WtSteps, OutSteps, Ended, Dirs, Dir, Goto, treeVars, outVars
<1>1. ASSUME NEW r \in Runs, Start(r) PROVE LockInv'
  BY <1>1 DEF Start
<1>2. ASSUME NEW r \in Runs, TakeRev(r) PROVE LockInv'
  BY <1>2 DEF TakeRev, Raise
<1>3. ASSUME NEW r \in Runs, Finish(r) PROVE LockInv'
  BY <1>3 DEF Finish
<1>4. ASSUME NEW r \in Runs, AcquireWtLock(r) PROVE LockInv'
  BY <1>4 DEF AcquireWtLock
<1>5. ASSUME NEW r \in Runs, UseReady(r) PROVE LockInv'
  <2>1. \A q \in Runs \ {r} : pc'[q] = pc[q] /\ (pc[q] \in WtSteps => cur[q] # cur[r])
    BY <1>5 DEF UseReady
  <2>2. pc'[r] = "tree"
    BY <1>5 DEF UseReady
  <2> QED
    BY <1>5, <2>1, <2>2 DEF UseReady, ReleaseWtLock
<1>6. ASSUME NEW r \in Runs, NotReady(r) PROVE LockInv'
  BY <1>6 DEF NotReady, Ready
<1>7. ASSUME NEW r \in Runs, Clean(r) PROVE LockInv'
  BY <1>7 DEF Clean
<1>8. ASSUME NEW r \in Runs, Prune(r) PROVE LockInv'
  BY <1>8 DEF Prune
<1>9. ASSUME NEW r \in Runs, AddBegin(r) PROVE LockInv'
  BY <1>9 DEF AddBegin
<1>10. ASSUME NEW r \in Runs, AddRefused(r) PROVE LockInv'
  BY <1>10 DEF AddRefused, ReleaseWtLock, Raise
<1>11. ASSUME NEW r \in Runs, AddDone(r) PROVE LockInv'
  BY <1>11 DEF AddDone
<1>12. ASSUME NEW r \in Runs, AddFailed(r) PROVE LockInv'
  <2>1. pc[r] = "adding" /\ pc' = [pc EXCEPT ![r] = "failed"] /\ cur' = cur /\ out' = out
    BY <1>12 DEF AddFailed, Raise, Goto
  <2>2. wtLock' = [wtLock EXCEPT ![cur[r]] = None] /\ outLock' = outLock
    BY <1>12 DEF AddFailed, ReleaseWtLock, outVars
  <2>3. QED
    BY <2>1, <2>2
<1>13. ASSUME NEW r \in Runs, WriteMarker(r) PROVE LockInv'
  BY <1>13 DEF WriteMarker, ReleaseWtLock
<1>14. ASSUME NEW r \in Runs, MutationWorktree(r) PROVE LockInv'
  BY <1>14 DEF MutationWorktree, Raise, SetMut
<1>15. ASSUME NEW r \in Runs, ApplyPatch(r) PROVE LockInv'
  BY <1>15 DEF ApplyPatch, Raise, SetMut
<1>16. ASSUME NEW r \in Runs, MakeOut(r) PROVE LockInv'
  BY <1>16 DEF MakeOut, Raise
<1>17. ASSUME NEW r \in Runs, AcquireOutLock(r) PROVE LockInv'
  BY <1>17 DEF AcquireOutLock
<1>18. ASSUME NEW r \in Runs, CompileTU(r) PROVE LockInv'
  BY <1>18 DEF CompileTU, Return, Unwind
<1>19. ASSUME NEW r \in Runs, CompileTest(r) PROVE LockInv'
  BY <1>19 DEF CompileTest, Return, Unwind
<1>20. ASSUME NEW r \in Runs, BakeCatchMain(r) PROVE LockInv'
  BY <1>20 DEF BakeCatchMain, Unwind
<1>21. ASSUME NEW r \in Runs, Link(r) PROVE LockInv'
  BY <1>21 DEF Link, Return, Unwind
<1>22. ASSUME NEW r \in Runs, Execute(r) PROVE LockInv'
  BY <1>22 DEF Execute, Unwind
<1>23. ASSUME NEW r \in Runs, Parse(r) PROVE LockInv'
  BY <1>23 DEF Parse, Return
<1>24. ASSUME NEW r \in Runs, ReleaseOutLock(r) PROVE LockInv'
  BY <1>24 DEF ReleaseOutLock
<1>25. ASSUME NEW r \in Runs, RemoveMutation(r) PROVE LockInv'
  BY <1>25 DEF RemoveMutation, Leave, SetMut, Raise
<1>26. ASSUME NEW r \in Runs, Crash(r) PROVE LockInv'
  BY <1>26 DEF Crash, SetMut
<1>27. ASSUME NEW v \in Revs, OrphanEnds(v) PROVE LockInv'
  BY <1>27 DEF OrphanEnds
<1>28. CASE UNCHANGED vars
  BY <1>28 DEF vars
<1>29. QED
  BY <1>1, <1>2, <1>3, <1>4, <1>5, <1>6, <1>7, <1>8, <1>9, <1>10,
     <1>11, <1>12, <1>13, <1>14, <1>15, <1>16, <1>17, <1>18, <1>19,
     <1>20, <1>21, <1>22, <1>23, <1>24, <1>25, <1>26, <1>27, <1>28
     DEF Next, RunStep, AllEnded

-----------------------------------------------------------------------------
(* The shared worktrees *)

\* The worktree facts survive every step, a killed run and its orphan included.
LEMMA TreeStep ==
    ASSUME TypeOK, LockInv, TreeInv, StepInv, [Next]_vars
    PROVE  (TreeInv /\ StepInv)'
<1> USE NoneAssumption
    DEF TypeOK, RunTypes, TreeTypes, OutTypes, LockInv, TreeInv, StepInv, UsesTree, Labels, WtSteps, OutSteps, Ended, Goto, treeVars, outVars
<1>1. ASSUME NEW r \in Runs, Start(r) PROVE (TreeInv /\ StepInv)'
  BY <1>1 DEF Start
<1>2. ASSUME NEW r \in Runs, TakeRev(r) PROVE (TreeInv /\ StepInv)'
  BY <1>2 DEF TakeRev, Raise
<1>3. ASSUME NEW r \in Runs, Finish(r) PROVE (TreeInv /\ StepInv)'
  BY <1>3 DEF Finish
<1>4. ASSUME NEW r \in Runs, AcquireWtLock(r) PROVE (TreeInv /\ StepInv)'
  BY <1>4 DEF AcquireWtLock
<1>5. ASSUME NEW r \in Runs, UseReady(r) PROVE (TreeInv /\ StepInv)'
  BY <1>5 DEF UseReady, Ready, ReleaseWtLock
<1>6. ASSUME NEW r \in Runs, NotReady(r) PROVE (TreeInv /\ StepInv)'
  BY <1>6 DEF NotReady, Ready
<1>7. ASSUME NEW r \in Runs, Clean(r) PROVE (TreeInv /\ StepInv)'
  BY <1>7 DEF Clean
<1>8. ASSUME NEW r \in Runs, Prune(r) PROVE (TreeInv /\ StepInv)'
  BY <1>8 DEF Prune
<1>9. ASSUME NEW r \in Runs, AddBegin(r) PROVE (TreeInv /\ StepInv)'
  BY <1>9 DEF AddBegin
<1>10. ASSUME NEW r \in Runs, AddRefused(r) PROVE (TreeInv /\ StepInv)'
  BY <1>10 DEF AddRefused, ReleaseWtLock, Raise
<1>11. ASSUME NEW r \in Runs, AddDone(r) PROVE (TreeInv /\ StepInv)'
  BY <1>11 DEF AddDone
<1>12. ASSUME NEW r \in Runs, AddFailed(r) PROVE (TreeInv /\ StepInv)'
  BY <1>12 DEF AddFailed, ReleaseWtLock, Raise
<1>13. ASSUME NEW r \in Runs, WriteMarker(r) PROVE (TreeInv /\ StepInv)'
  BY <1>13 DEF WriteMarker, ReleaseWtLock
<1>14. ASSUME NEW r \in Runs, MutationWorktree(r) PROVE (TreeInv /\ StepInv)'
  BY <1>14 DEF MutationWorktree, Raise, SetMut
<1>15. ASSUME NEW r \in Runs, ApplyPatch(r) PROVE (TreeInv /\ StepInv)'
  BY <1>15 DEF ApplyPatch, Raise, SetMut
<1>16. ASSUME NEW r \in Runs, MakeOut(r) PROVE (TreeInv /\ StepInv)'
  BY <1>16 DEF MakeOut, Raise
<1>17. ASSUME NEW r \in Runs, AcquireOutLock(r) PROVE (TreeInv /\ StepInv)'
  BY <1>17 DEF AcquireOutLock
<1>18. ASSUME NEW r \in Runs, CompileTU(r) PROVE (TreeInv /\ StepInv)'
  BY <1>18 DEF CompileTU, Return, Unwind
<1>19. ASSUME NEW r \in Runs, CompileTest(r) PROVE (TreeInv /\ StepInv)'
  BY <1>19 DEF CompileTest, Return, Unwind
<1>20. ASSUME NEW r \in Runs, BakeCatchMain(r) PROVE (TreeInv /\ StepInv)'
  BY <1>20 DEF BakeCatchMain, Unwind
<1>21. ASSUME NEW r \in Runs, Link(r) PROVE (TreeInv /\ StepInv)'
  BY <1>21 DEF Link, Return, Unwind
<1>22. ASSUME NEW r \in Runs, Execute(r) PROVE (TreeInv /\ StepInv)'
  BY <1>22 DEF Execute, Unwind
<1>23. ASSUME NEW r \in Runs, Parse(r) PROVE (TreeInv /\ StepInv)'
  BY <1>23 DEF Parse, Return
<1>24. ASSUME NEW r \in Runs, ReleaseOutLock(r) PROVE (TreeInv /\ StepInv)'
  BY <1>24 DEF ReleaseOutLock
<1>25. ASSUME NEW r \in Runs, RemoveMutation(r) PROVE (TreeInv /\ StepInv)'
  BY <1>25 DEF RemoveMutation, Leave, SetMut, Raise
<1>26. ASSUME NEW r \in Runs, Crash(r) PROVE (TreeInv /\ StepInv)'
  <2>1. pc' = [pc EXCEPT ![r] = "dead"] /\ UNCHANGED <<cur, marker>>
    BY <1>26 DEF Crash
  <2>2. CASE UNCHANGED <<tree, reg, orphan>>
    BY <2>1, <2>2
  <2>3. CASE /\ pc[r] = "adding"
             /\ tree' = [tree EXCEPT ![cur[r]] = "absent"]
             /\ reg' = [reg EXCEPT ![cur[r]] = "none"]
             /\ UNCHANGED orphan
    BY <2>1, <2>3
  <2>4. CASE /\ pc[r] = "adding"
             /\ orphan' = [orphan EXCEPT ![cur[r]] = TRUE]
             /\ UNCHANGED <<tree, reg>>
    BY <2>1, <2>4
  <2> QED
    BY <1>26, <2>2, <2>3, <2>4 DEF Crash
<1>27. ASSUME NEW v \in Revs, OrphanEnds(v) PROVE (TreeInv /\ StepInv)'
  BY <1>27 DEF OrphanEnds
<1>28. CASE UNCHANGED vars
  BY <1>28 DEF vars
<1>29. QED
  BY <1>1, <1>2, <1>3, <1>4, <1>5, <1>6, <1>7, <1>8, <1>9, <1>10,
     <1>11, <1>12, <1>13, <1>14, <1>15, <1>16, <1>17, <1>18, <1>19,
     <1>20, <1>21, <1>22, <1>23, <1>24, <1>25, <1>26, <1>27, <1>28
     DEF Next, RunStep, AllEnded

-----------------------------------------------------------------------------
(* The output directories *)

\* Two runs inside the build section work in different output directories.
LEMMA OutExclusion ==
    ASSUME LockInv, NEW q \in Runs, NEW r \in Runs, q # r,
           pc[q] \in OutSteps, pc[r] \in OutSteps
    PROVE  Dir(q) # Dir(r)
  BY DEF LockInv

\* A step that writes no object file and moves only run r, to a label of which
\* BuildInv says nothing, preserves BuildInv.
LEMMA BuildQuiet ==
    ASSUME TypeOK, BuildInv, NEW r \in Runs,
           NEW l \in Labels \ {"compile_test", "bake", "link", "execute"},
           Goto(r, l), UNCHANGED <<tu, test, bin>>,
           \A q \in Runs \ {r} : Dir(q)' = Dir(q)
    PROVE  BuildInv'
<1>1. pc'[r] = l /\ \A q \in Runs : q # r => pc'[q] = pc[q]
  BY DEF Goto, TypeOK, RunTypes
<1>2. SUFFICES ASSUME NEW q \in Runs
               PROVE  /\ pc'[q] \in {"compile_test", "bake", "link"} => tu'[Dir(q)'] = q
                      /\ pc'[q] \in {"bake", "link"} => test'[Dir(q)'] = q
                      /\ pc'[q] = "execute" => bin'[Dir(q)'] = [tu |-> q, test |-> q]
  BY DEF BuildInv
<1>3. CASE q = r
  BY <1>1, <1>3
<1>4. CASE q # r
  BY <1>1, <1>4 DEF BuildInv
<1>5. QED
  BY <1>3, <1>4

\* A step of a run that holds the output directory and writes only there
\* preserves BuildInv when the run's own files are what BuildInv says.
LEMMA BuildOwn ==
    ASSUME TypeOK, LockInv, BuildInv, NEW r \in Runs, pc[r] \in OutSteps,
           NEW l \in Labels, Goto(r, l), UNCHANGED <<cur, out>>,
           \A d \in Dirs \ {Dir(r)} : tu'[d] = tu[d] /\ test'[d] = test[d] /\ bin'[d] = bin[d],
           l \in {"compile_test", "bake", "link"} => tu'[Dir(r)] = r,
           l \in {"bake", "link"} => test'[Dir(r)] = r,
           l = "execute" => bin'[Dir(r)] = [tu |-> r, test |-> r]
    PROVE  BuildInv'
<1>1. pc'[r] = l /\ \A q \in Runs : q # r => pc'[q] = pc[q]
  BY DEF Goto, TypeOK, RunTypes
<1>2. \A q \in Runs : Dir(q)' = Dir(q) /\ Dir(q) \in Dirs
  BY DirType DEF Dir, TypeOK
<1>3. SUFFICES ASSUME NEW q \in Runs
               PROVE  /\ pc'[q] \in {"compile_test", "bake", "link"} => tu'[Dir(q)'] = q
                      /\ pc'[q] \in {"bake", "link"} => test'[Dir(q)'] = q
                      /\ pc'[q] = "execute" => bin'[Dir(q)'] = [tu |-> q, test |-> q]
  BY DEF BuildInv
<1>4. CASE q = r
  BY <1>1, <1>2, <1>4
<1>5. CASE q # r /\ pc[q] \in OutSteps
  BY <1>1, <1>2, <1>5, OutExclusion DEF BuildInv
<1>6. CASE q # r /\ pc[q] \notin OutSteps
  BY <1>1, <1>6 DEF OutSteps
<1>7. QED
  BY <1>4, <1>5, <1>6


\* A run's object files are its own until it gives the output directory back.
LEMMA BuildStep ==
    ASSUME TypeOK, LockInv, BuildInv, [Next]_vars
    PROVE  BuildInv'
<1> USE DEF Labels, WtSteps, OutSteps, Ended, Goto, treeVars, outVars
<1>1. ASSUME NEW r \in Runs, Start(r) PROVE BuildInv'
  BY <1>1, BuildQuiet DEF Start, Dir, TypeOK, RunTypes
<1>2. ASSUME NEW r \in Runs, TakeRev(r) PROVE BuildInv'
  BY <1>2, BuildQuiet DEF TakeRev, Raise, Dir, TypeOK, RunTypes
<1>3. ASSUME NEW r \in Runs, Finish(r) PROVE BuildInv'
  BY <1>3, BuildQuiet DEF Finish, Dir
<1>4. ASSUME NEW r \in Runs, AcquireWtLock(r) PROVE BuildInv'
  BY <1>4, BuildQuiet DEF AcquireWtLock, Dir
<1>5. ASSUME NEW r \in Runs, UseReady(r) PROVE BuildInv'
  BY <1>5, BuildQuiet DEF UseReady, Ready, ReleaseWtLock, Dir
<1>6. ASSUME NEW r \in Runs, NotReady(r) PROVE BuildInv'
  BY <1>6, BuildQuiet DEF NotReady, Ready, Dir
<1>7. ASSUME NEW r \in Runs, Clean(r) PROVE BuildInv'
  BY <1>7, BuildQuiet DEF Clean, Dir
<1>8. ASSUME NEW r \in Runs, Prune(r) PROVE BuildInv'
  BY <1>8, BuildQuiet DEF Prune, Dir
<1>9. ASSUME NEW r \in Runs, AddBegin(r) PROVE BuildInv'
  BY <1>9, BuildQuiet DEF AddBegin, Dir
<1>10. ASSUME NEW r \in Runs, AddRefused(r) PROVE BuildInv'
  BY <1>10, BuildQuiet DEF AddRefused, ReleaseWtLock, Raise, Dir
<1>11. ASSUME NEW r \in Runs, AddDone(r) PROVE BuildInv'
  BY <1>11, BuildQuiet DEF AddDone, Dir
<1>12. ASSUME NEW r \in Runs, AddFailed(r) PROVE BuildInv'
  BY <1>12, BuildQuiet DEF AddFailed, ReleaseWtLock, Raise, Dir
<1>13. ASSUME NEW r \in Runs, WriteMarker(r) PROVE BuildInv'
  BY <1>13, BuildQuiet DEF WriteMarker, ReleaseWtLock, Dir
<1>14. ASSUME NEW r \in Runs, MutationWorktree(r) PROVE BuildInv'
  BY <1>14, BuildQuiet DEF MutationWorktree, Raise, SetMut, Dir
<1>15. ASSUME NEW r \in Runs, ApplyPatch(r) PROVE BuildInv'
  BY <1>15, BuildQuiet DEF ApplyPatch, Raise, SetMut, Dir
<1>16. ASSUME NEW r \in Runs, MakeOut(r) PROVE BuildInv'
  BY <1>16, BuildQuiet DEF MakeOut, Raise, Dir
<1>17. ASSUME NEW r \in Runs, AcquireOutLock(r) PROVE BuildInv'
  BY <1>17, BuildQuiet DEF AcquireOutLock, Dir
<1>18. ASSUME NEW r \in Runs, CompileTU(r) PROVE BuildInv'
  <2>1. pc[r] \in OutSteps /\ UNCHANGED <<cur, out>> /\ Dir(r) \in Dirs
    BY <1>18, DirType DEF CompileTU, TypeOK
  <2>2. CASE Goto(r, "unlock") /\ UNCHANGED <<tu, test, bin>>
    BY <2>1, <2>2, BuildQuiet DEF Dir
  <2>3. CASE tu' = [tu EXCEPT ![Dir(r)] = r] /\ Goto(r, "compile_test") /\ UNCHANGED <<test, bin>>
    <3>1. tu'[Dir(r)] = r /\ \A d \in Dirs \ {Dir(r)} : tu'[d] = tu[d]
      BY <2>1, <2>3 DEF TypeOK, RunTypes, OutTypes
    <3> QED
      BY <2>1, <2>3, <3>1, BuildOwn
  <2> QED
    BY <1>18, <2>2, <2>3 DEF CompileTU, Return, Unwind
<1>19. ASSUME NEW r \in Runs, CompileTest(r) PROVE BuildInv'
  <2>1. pc[r] \in OutSteps /\ UNCHANGED <<cur, out>> /\ Dir(r) \in Dirs
    BY <1>19, DirType DEF CompileTest, TypeOK
  <2>2. CASE Goto(r, "unlock") /\ UNCHANGED <<tu, test, bin>>
    BY <2>1, <2>2, BuildQuiet DEF Dir
  <2>3. CASE /\ test' = [test EXCEPT ![Dir(r)] = r] /\ UNCHANGED <<tu, bin>>
             /\ Goto(r, IF catch THEN "link" ELSE "bake")
    <3>1. test'[Dir(r)] = r /\ \A d \in Dirs \ {Dir(r)} : test'[d] = test[d]
      BY <2>1, <2>3 DEF TypeOK, RunTypes, OutTypes
    <3>2. tu'[Dir(r)] = r
      BY <1>19, <2>3 DEF CompileTest, BuildInv
    <3>3. PICK l \in {"link", "bake"} : Goto(r, l)
      BY <2>3
    <3> QED
      BY <2>1, <2>3, <3>1, <3>2, <3>3, BuildOwn
  <2> QED
    BY <1>19, <2>2, <2>3 DEF CompileTest, Return, Unwind
<1>20. ASSUME NEW r \in Runs, BakeCatchMain(r) PROVE BuildInv'
  <2>1. pc[r] \in OutSteps /\ UNCHANGED <<cur, out>> /\ Dir(r) \in Dirs
    BY <1>20, DirType DEF BakeCatchMain, TypeOK
  <2>2. CASE Goto(r, "unlock") /\ UNCHANGED <<tu, test, bin>>
    BY <2>1, <2>2, BuildQuiet DEF Dir
  <2>3. CASE Goto(r, "link") /\ UNCHANGED <<tu, test, bin>>
    <3>1. tu'[Dir(r)] = r /\ test'[Dir(r)] = r
      BY <1>20, <2>3 DEF BakeCatchMain, BuildInv
    <3> QED
      BY <2>1, <2>3, <3>1, BuildOwn
  <2> QED
    BY <1>20, <2>2, <2>3 DEF BakeCatchMain, Unwind
<1>21. ASSUME NEW r \in Runs, Link(r) PROVE BuildInv'
  <2>1. pc[r] \in OutSteps /\ UNCHANGED <<cur, out>> /\ Dir(r) \in Dirs
    BY <1>21, DirType DEF Link, TypeOK
  <2>2. CASE Goto(r, "unlock") /\ UNCHANGED <<tu, test, bin>>
    BY <2>1, <2>2, BuildQuiet DEF Dir
  <2>3. CASE /\ bin' = [bin EXCEPT ![Dir(r)] = [tu |-> tu[Dir(r)], test |-> test[Dir(r)]]]
             /\ Goto(r, "execute") /\ UNCHANGED <<tu, test>>
    <3>1. tu[Dir(r)] = r /\ test[Dir(r)] = r
      BY <1>21 DEF Link, BuildInv
    <3>2. bin'[Dir(r)] = [tu |-> r, test |-> r] /\ \A d \in Dirs \ {Dir(r)} : bin'[d] = bin[d]
      BY <2>1, <2>3, <3>1 DEF TypeOK, RunTypes, OutTypes
    <3> QED
      BY <2>1, <2>3, <3>2, BuildOwn
  <2> QED
    BY <1>21, <2>2, <2>3 DEF Link, Return, Unwind
<1>22. ASSUME NEW r \in Runs, Execute(r) PROVE BuildInv'
  BY <1>22, BuildOwn, DirType DEF Execute, Unwind, TypeOK, OutTypes, BuildInv
<1>23. ASSUME NEW r \in Runs, Parse(r) PROVE BuildInv'
  BY <1>23, BuildQuiet DEF Parse, Return, Dir
<1>24. ASSUME NEW r \in Runs, ReleaseOutLock(r) PROVE BuildInv'
  BY <1>24, BuildQuiet DEF ReleaseOutLock, Dir
<1>25. ASSUME NEW r \in Runs, RemoveMutation(r) PROVE BuildInv'
  BY <1>25, BuildQuiet DEF RemoveMutation, Leave, SetMut, Raise, Dir
<1>26. ASSUME NEW r \in Runs, Crash(r) PROVE BuildInv'
  BY <1>26, BuildQuiet DEF Crash, SetMut, Dir
<1>27. ASSUME NEW v \in Revs, OrphanEnds(v) PROVE BuildInv'
  BY <1>27 DEF OrphanEnds, BuildInv, Dir
<1>28. CASE UNCHANGED vars
  BY <1>28 DEF vars, BuildInv, Dir
<1>29. QED
  BY <1>1, <1>2, <1>3, <1>4, <1>5, <1>6, <1>7, <1>8, <1>9, <1>10,
     <1>11, <1>12, <1>13, <1>14, <1>15, <1>16, <1>17, <1>18, <1>19,
     <1>20, <1>21, <1>22, <1>23, <1>24, <1>25, <1>26, <1>27, <1>28
     DEF Next, RunStep, AllEnded

-----------------------------------------------------------------------------
(* The mutation worktrees *)

\* A mutation worktree exists only between its creation and the finally block.
LEMMA MutStep ==
    ASSUME TypeOK, MutInv, [Next]_vars
    PROVE  MutInv'
<1> USE DEF TypeOK, RunTypes, MutInv, Labels, WtSteps, OutSteps, Ended, Goto, treeVars, outVars
<1>1. ASSUME NEW r \in Runs, Start(r) PROVE MutInv'
  BY <1>1 DEF Start
<1>2. ASSUME NEW r \in Runs, TakeRev(r) PROVE MutInv'
  BY <1>2 DEF TakeRev, Raise
<1>3. ASSUME NEW r \in Runs, Finish(r) PROVE MutInv'
  BY <1>3 DEF Finish
<1>4. ASSUME NEW r \in Runs, AcquireWtLock(r) PROVE MutInv'
  BY <1>4 DEF AcquireWtLock
<1>5. ASSUME NEW r \in Runs, UseReady(r) PROVE MutInv'
  BY <1>5 DEF UseReady, Ready, ReleaseWtLock
<1>6. ASSUME NEW r \in Runs, NotReady(r) PROVE MutInv'
  BY <1>6 DEF NotReady, Ready
<1>7. ASSUME NEW r \in Runs, Clean(r) PROVE MutInv'
  BY <1>7 DEF Clean
<1>8. ASSUME NEW r \in Runs, Prune(r) PROVE MutInv'
  BY <1>8 DEF Prune
<1>9. ASSUME NEW r \in Runs, AddBegin(r) PROVE MutInv'
  BY <1>9 DEF AddBegin
<1>10. ASSUME NEW r \in Runs, AddRefused(r) PROVE MutInv'
  BY <1>10 DEF AddRefused, ReleaseWtLock, Raise
<1>11. ASSUME NEW r \in Runs, AddDone(r) PROVE MutInv'
  BY <1>11 DEF AddDone
<1>12. ASSUME NEW r \in Runs, AddFailed(r) PROVE MutInv'
  BY <1>12 DEF AddFailed, ReleaseWtLock, Raise
<1>13. ASSUME NEW r \in Runs, WriteMarker(r) PROVE MutInv'
  BY <1>13 DEF WriteMarker, ReleaseWtLock
<1>14. ASSUME NEW r \in Runs, MutationWorktree(r) PROVE MutInv'
  <2>1. CASE UNCHANGED mut
    BY <1>14, <2>1 DEF MutationWorktree, Raise, SetMut
  <2>2. ASSUME NEW st \in MutStates, SetMut(r, st) PROVE MutInv'
    BY <1>14, <2>2, SetMutOwn DEF MutationWorktree, Raise
  <2> QED
    BY <1>14, <2>1, <2>2 DEF MutationWorktree, MutStates
<1>15. ASSUME NEW r \in Runs, ApplyPatch(r) PROVE MutInv'
  <2>1. CASE UNCHANGED mut /\ (Goto(r, "mkout") \/ Raise(r, "mut-timeout"))
    BY <1>15, <2>1 DEF ApplyPatch, Raise
  <2>2. ASSUME NEW st \in {"none", "stuck"}, SetMut(r, st), NEW e \in Reasons, Raise(r, e)
        PROVE  MutInv'
    BY <1>15, <2>2, SetMutOwn DEF ApplyPatch, Raise, MutStates
  <2> QED
    BY <1>15, <2>1, <2>2 DEF ApplyPatch, Reasons
<1>16. ASSUME NEW r \in Runs, MakeOut(r) PROVE MutInv'
  BY <1>16 DEF MakeOut, Raise
<1>17. ASSUME NEW r \in Runs, AcquireOutLock(r) PROVE MutInv'
  BY <1>17 DEF AcquireOutLock
<1>18. ASSUME NEW r \in Runs, CompileTU(r) PROVE MutInv'
  BY <1>18 DEF CompileTU, Return, Unwind
<1>19. ASSUME NEW r \in Runs, CompileTest(r) PROVE MutInv'
  BY <1>19 DEF CompileTest, Return, Unwind
<1>20. ASSUME NEW r \in Runs, BakeCatchMain(r) PROVE MutInv'
  BY <1>20 DEF BakeCatchMain, Unwind
<1>21. ASSUME NEW r \in Runs, Link(r) PROVE MutInv'
  BY <1>21 DEF Link, Return, Unwind
<1>22. ASSUME NEW r \in Runs, Execute(r) PROVE MutInv'
  BY <1>22 DEF Execute, Unwind
<1>23. ASSUME NEW r \in Runs, Parse(r) PROVE MutInv'
  BY <1>23 DEF Parse, Return
<1>24. ASSUME NEW r \in Runs, ReleaseOutLock(r) PROVE MutInv'
  BY <1>24 DEF ReleaseOutLock
<1>25. ASSUME NEW r \in Runs, RemoveMutation(r) PROVE MutInv'
  <2>1. CASE ~patch[r] /\ UNCHANGED mut /\ Leave(r)
    BY <1>25, <2>1 DEF RemoveMutation, Leave
  <2>2. ASSUME NEW st \in {"none", "stuck"}, SetMut(r, st), Leave(r) \/ Raise(r, "timeout")
        PROVE  MutInv'
    BY <1>25, <2>2, SetMutOwn DEF RemoveMutation, Leave, Raise, MutStates
  <2> QED
    BY <1>25, <2>1, <2>2 DEF RemoveMutation
<1>26. ASSUME NEW r \in Runs, Crash(r) PROVE MutInv'
  <2>1. CASE UNCHANGED mut
    BY <1>26, <2>1 DEF Crash, SetMut
  <2>2. ASSUME NEW st \in MutStates, SetMut(r, st) PROVE MutInv'
    BY <1>26, <2>2, SetMutOwn DEF Crash
  <2> QED
    BY <1>26, <2>1, <2>2 DEF Crash, MutStates
<1>27. ASSUME NEW v \in Revs, OrphanEnds(v) PROVE MutInv'
  BY <1>27 DEF OrphanEnds
<1>28. CASE UNCHANGED vars
  BY <1>28 DEF vars
<1>29. QED
  BY <1>1, <1>2, <1>3, <1>4, <1>5, <1>6, <1>7, <1>8, <1>9, <1>10,
     <1>11, <1>12, <1>13, <1>14, <1>15, <1>16, <1>17, <1>18, <1>19,
     <1>20, <1>21, <1>22, <1>23, <1>24, <1>25, <1>26, <1>27, <1>28
     DEF Next, RunStep, AllEnded

-----------------------------------------------------------------------------
(* The theorems *)

\* The first processes find the directories in one of the states Init lists.
LEMMA InitInd == Init => IndInv
<1> SUFFICES ASSUME Init PROVE IndInv
  OBVIOUS
<1> USE DEF Init
<1>1. TreeTypes /\ TreeInv
  BY DEF TreeTypes, TreeInv
<1>2. RunTypes
  BY RevsAssumption, MaxRevsAssumption
     DEF RunTypes, Labels, Reasons, Result, NoResult, Status, MutStates
<1>3. OutTypes
  BY DEF OutTypes, Bin, NoBin, Xml, Unread
<1>4. LockInv /\ StepInv /\ BuildInv /\ MutInv /\ DidInv
  BY DEF LockInv, StepInv, BuildInv, MutInv, DidInv, Busy, UsesTree, WtSteps, OutSteps
<1>5. QED
  BY <1>1, <1>2, <1>3, <1>4 DEF IndInv, TypeOK

\* IndInv is inductive: it holds of every reachable state.
THEOREM Inductive == Spec => []IndInv
<1>1. IndInv /\ [Next]_vars => IndInv'
  BY RunTypeStep, TreeTypeStep, OutTypeStep, LockStep, TreeStep, BuildStep, MutStep
     DEF IndInv, TypeOK
<1>2. QED
  BY InitInd, <1>1, PTL DEF Spec

\* Every variable keeps its type; no run reports more results than it has --rev.
THEOREM TypeCorrect == Spec => []TypeOK
<1>1. IndInv => TypeOK
  BY DEF IndInv
<1>2. QED
  BY Inductive, <1>1, PTL

\* worktree() of unitseam.py, for any number of parallel and killed runs: whoever
\* it returned a path to builds in a complete checkout.
THEOREM CheckoutComplete == Spec => []NoHalfCheckout
<1>1. IndInv => NoHalfCheckout
  BY DEF IndInv, TreeInv, StepInv, NoHalfCheckout, TypeOK, RunTypes
<1>2. QED
  BY Inductive, <1>1, PTL

\* The output lock of build_and_run: the binary a run executes is its own.
THEOREM BinaryOwned == Spec => []OwnBinary
<1>1. IndInv => OwnBinary
  BY DEF IndInv, BuildInv, OwnBinary
<1>2. QED
  BY Inductive, <1>1, PTL

\* The finally block of build_and_run: what a mutation run leaves behind.
THEOREM MutationCleaned == Spec => []MutationRemoved
<1>1. IndInv => MutationRemoved
  BY DEF IndInv, MutInv, MutationRemoved, Ended, OutSteps
<1>2. QED
  BY Inductive, <1>1, PTL

\* No step of any run takes a marked worktree away.
THEOREM MarkedForEver == Spec => MarkedStays
<1>1. IndInv /\ IndInv' /\ [Next]_vars =>
        [\A v \in Revs : marker[v] => marker'[v] /\ tree'[v] = "complete"]_vars
  <2> SUFFICES ASSUME IndInv, IndInv', Next, NEW v \in Revs, marker[v]
               PROVE  marker'[v]
    BY DEF IndInv, TreeInv
  <2> USE DEF IndInv, TypeOK, RunTypes, TreeTypes, TreeInv, StepInv
  <2>1. ASSUME NEW r \in Runs, Start(r) \/ RunStep(r) \/ Crash(r)
        PROVE  marker'[v]
    BY <2>1 DEF RunStep, Start, TakeRev, Finish, AcquireWtLock, UseReady, NotReady,
         Clean, Prune, AddBegin, AddRefused, AddDone, AddFailed, WriteMarker,
         MutationWorktree, ApplyPatch, MakeOut, AcquireOutLock, CompileTU, CompileTest,
         BakeCatchMain, Link, Execute, Parse, ReleaseOutLock, RemoveMutation, Crash,
         treeVars
  <2>2. ASSUME NEW w \in Revs, OrphanEnds(w) PROVE marker'[v]
    BY <2>2 DEF OrphanEnds
  <2>3. CASE AllEnded
    BY <2>3 DEF AllEnded, vars, treeVars
  <2>4. QED
    BY <2>1, <2>2, <2>3 DEF Next
<1>2. QED
  BY Inductive, <1>1, PTL DEF Spec, MarkedStays

=============================================================================
