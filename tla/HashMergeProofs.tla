--------------------------- MODULE HashMergeProofs ----------------------------
(***************************************************************************)
(* Proofs about HashMerge, as the suites' specification GroupBySuites runs   *)
(* it, for every number of rows, partitions and scenarios.  The argument:    *)
(* the fake numbers the lists it hands out, so that in each stage of a       *)
(* scenario the lists the job holds are an interval of numbers, and the      *)
(* writes done so far are the rows split plus the partitions folded.         *)
(***************************************************************************)
EXTENDS GroupBySuites, FiniteSetTheorems, TLAPS

\* The fakes' globals.
Globals ==
    [scan_end : {"S_END", "S_ERROR"}, scan_limit : {-1}, add_fail_at : Nat, add_calls : Nat,
     groups : {x \in Nat : x >= SampleRows}, opened : Nat, open_fail_at : Nat,
     errid : {"NO_ERROR", "ER_OUT_OF_VIRTUAL_MEMORY", "ER_INTERRUPTED"}, live : SUBSET Nat]

Jobs == [sort : SUBSET Nat, parts : SUBSET Nat, folded : Nat, split : Nat,
         rc : {"NO_ERROR", "ER_FAILED"}]

MTypeOK ==
    /\ mat \in {"idle", "open", "merge", "parts", "split", "merged"}
    /\ k \in Globals /\ job \in Jobs /\ part \in Nat

\* The lists of an open scenario are those opened so far, up to the one that failed.
OpenStage ==
    mat = "open" =>
        /\ marg.n \in Nat \ {0} /\ marg.fail_at \in Nat /\ k.open_fail_at = marg.fail_at
        /\ job.sort = {} /\ part = 0 /\ k.live = job.parts /\ k.opened <= 2 * marg.n
        /\ job.rc = "NO_ERROR" => /\ job.parts = 1 .. k.opened
                                  /\ marg.fail_at = 0 \/ k.opened < marg.fail_at
        /\ job.rc = "ER_FAILED" => /\ job.parts = 1 .. k.opened - 1
                                   /\ k.opened = marg.fail_at /\ k.opened >= 1

\* What a merge has been given and has not failed on yet.
MergeArgs ==
    mat \in {"merge", "parts", "split", "merged"} =>
        /\ marg.rows \in Nat \ {0} /\ marg.fail_at \in Nat
        /\ k.open_fail_at = 0 /\ k.add_fail_at = marg.fail_at

MergeStage ==
    mat = "merge" => /\ k.opened = 0 /\ k.live = {} /\ k.add_calls = 0 /\ k.errid = "NO_ERROR"
                     /\ job = NoJob /\ part = 0

\* Lists 1 and 2 are the sort lists, each partition has the next two.
PartsStage ==
    mat = "parts" =>
        /\ \E m \in 0 .. MergeParts - 1 : k.opened = 2 + 2 * m /\ job.parts = 3 .. 2 + 2 * m
        /\ job.sort = {1, 2} /\ k.live = job.sort \cup job.parts
        /\ job.folded = 0 /\ job.split = 0 /\ job.rc = "NO_ERROR" /\ part = 0
        /\ k.add_calls = 0 /\ k.errid = "NO_ERROR"

\* The partitions not yet folded are left, and every write so far has succeeded.
SplitStage ==
    mat = "split" =>
        /\ k.opened = 2 + 2 * MergeParts /\ job.folded <= MergeParts /\ job.split <= marg.rows
        /\ job.parts = 3 + 2 * job.folded .. 2 + 2 * MergeParts
        /\ job.sort = {1, 2} /\ k.live = job.sort \cup job.parts /\ part = 0
        /\ job.folded > 0 => job.split = marg.rows
        /\ k.add_calls = job.split + job.folded
        /\ marg.fail_at = 0 \/ k.add_calls < marg.fail_at
        /\ job.rc = "NO_ERROR" /\ k.errid = "NO_ERROR"

MergedStage ==
    mat = "merged" =>
        /\ k.opened = 2 + 2 * MergeParts /\ job.parts = {}
        /\ IF marg.fail_at \in 1 .. marg.rows + MergeParts
           THEN /\ job.rc = "ER_FAILED" /\ job.sort = {} /\ k.live = {1, 2} /\ part = 0
                /\ k.errid = "ER_INTERRUPTED"
           ELSE /\ job.rc = "NO_ERROR" /\ job.sort = {} /\ k.live = {2} /\ part = 2
                /\ k.errid = "NO_ERROR"

Stages == OpenStage /\ MergeArgs /\ MergeStage /\ PartsStage /\ SplitStage /\ MergedStage
MergeInv == MTypeOK /\ Stages /\ MergeOwnResult

-----------------------------------------------------------------------------
\* In each stage the lists in the books are the ones somebody holds, and after a failed
\* write the two sort lists nobody holds.
LEMMA StagesHeld == MergeInv => LiveListsHeld
  BY DEF MergeInv, MTypeOK, Stages, OpenStage, MergeStage, PartsStage, SplitStage, MergedStage,
       LiveListsHeld, Held, NoJob

LEMMA IntervalSize ==
    ASSUME NEW n \in Nat
    PROVE  IsFiniteSet(1 .. n) /\ Cardinality(1 .. n) = n
<1>1. IsFiniteSet(1 .. n) /\ Cardinality(1 .. n) = IF 1 > n THEN 0 ELSE n - 1 + 1
  BY FS_Interval
<1>2. QED
  BY <1>1

LEMMA InitMerge == MInit => MergeInv
  BY HashMergeAssumption
     DEF MInit, MergeInv, MTypeOK, Globals, Jobs, NoJob, Stages, OpenStage, MergeArgs, MergeStage,
         PartsStage, SplitStage, MergedStage, MergeOwnResult

\* The scenarios begin with books of their own; a sample uses no list.
LEMMA BeginStep ==
    ASSUME MergeInv,
           \/ \E rows \in 0 .. SampleRows, end \in {"S_END", "S_ERROR"} : k_sample_scenario(rows, end)
           \/ \E n \in 1 .. MergeParts, fail_at \in 0 .. 2 * MergeParts + 1 :
                OpenPartsSetup(n, fail_at)
           \/ \E rows \in 1 .. MergeRows, g \in Estimates, f \in 0 .. MergeRows + MergeParts + 1 :
                MergeSetup(rows, g, f)
    PROVE  MergeInv'
<1> USE DEF NoJob
<1>0. MTypeOK
  BY DEF MergeInv
<1>1. ASSUME NEW rows \in 0 .. SampleRows, NEW end \in {"S_END", "S_ERROR"},
             k_sample_scenario(rows, end)
      PROVE  MergeInv'
  <2>1. MTypeOK' /\ mat' = "idle"
    BY <1>0, <1>1 DEF MTypeOK, Globals, Jobs, k_sample_scenario, k_setup
  <2>2. Stages'
    BY <2>1 DEF Stages, OpenStage, MergeArgs, MergeStage, PartsStage, SplitStage, MergedStage
  <2>3. MergeOwnResult'
    BY <1>1 DEF k_sample_scenario, MergeOwnResult
  <2>4. QED
    BY <2>1, <2>2, <2>3 DEF MergeInv
<1>2. ASSUME NEW n \in 1 .. MergeParts, NEW fail_at \in 0 .. 2 * MergeParts + 1,
             OpenPartsSetup(n, fail_at)
      PROVE  MergeInv'
  <2>0. n \in Nat \ {0} /\ fail_at \in Nat
    BY HashMergeAssumption
  <2>1. /\ MTypeOK' /\ mat' = "open" /\ k'.open_fail_at = fail_at /\ k'.live = {} /\ k'.opened = 0
        /\ job' = NoJob /\ part' = 0 /\ marg' = [kind |-> "open", n |-> n, fail_at |-> fail_at]
    BY <1>0, <1>2, <2>0 DEF MTypeOK, Globals, Jobs, OpenPartsSetup, MBegin, k_setup, k_live_reset
  <2>2. Stages'
    BY <2>0, <2>1 DEF Stages, OpenStage, MergeArgs, MergeStage, PartsStage, SplitStage, MergedStage
  <2>3. QED
    BY <2>1, <2>2 DEF MergeInv, MergeOwnResult
<1>3. ASSUME NEW rows \in 1 .. MergeRows, NEW g \in Estimates,
             NEW f \in 0 .. MergeRows + MergeParts + 1, MergeSetup(rows, g, f)
      PROVE  MergeInv'
  <2>0. rows \in Nat \ {0} /\ f \in Nat /\ g \in Nat /\ g >= SampleRows
    BY HashMergeAssumption
  <2>1. /\ MTypeOK' /\ mat' = "merge" /\ k'.open_fail_at = 0 /\ k'.live = {} /\ k'.opened = 0
        /\ k'.add_fail_at = f /\ k'.add_calls = 0 /\ k'.errid = "NO_ERROR"
        /\ job' = NoJob /\ part' = 0 /\ marg' = [kind |-> "merge", rows |-> rows, fail_at |-> f]
    BY <1>0, <1>3, <2>0 DEF MTypeOK, Globals, Jobs, MergeSetup, MBegin, k_setup, k_live_reset
  <2>2. Stages'
    BY <2>0, <2>1 DEF Stages, OpenStage, MergeArgs, MergeStage, PartsStage, SplitStage, MergedStage
  <2>3. QED
    BY <2>1, <2>2 DEF MergeInv, MergeOwnResult
<1>4. QED
  BY <1>1, <1>2, <1>3

\* An open scenario opens its lists one by one and gives all of them back.
LEMMA OpenStep ==
    ASSUME MergeInv, OpenPart \/ OpenPartsReadBack
    PROVE  MergeInv'
<1>0. MTypeOK /\ OpenStage /\ mat = "open"
  BY DEF MergeInv, Stages, OpenPart, OpenPartsReadBack
<1>1. /\ marg.n \in Nat \ {0} /\ marg.fail_at \in Nat /\ k.open_fail_at = marg.fail_at
      /\ job.sort = {} /\ part = 0 /\ k.live = job.parts /\ k.opened <= 2 * marg.n
      /\ job.rc = "NO_ERROR" => /\ job.parts = 1 .. k.opened
                                /\ marg.fail_at = 0 \/ k.opened < marg.fail_at
      /\ job.rc = "ER_FAILED" => /\ job.parts = 1 .. k.opened - 1
                                 /\ k.opened = marg.fail_at /\ k.opened >= 1
      /\ k.opened \in Nat
  BY <1>0 DEF OpenStage, MTypeOK, Globals
<1>2. job.rc = "NO_ERROR" => Cardinality(job.parts) = k.opened
  BY <1>1, IntervalSize
<1>3. CASE OpenPart
  <2>0. /\ mat' = "open" /\ marg' = marg /\ part' = 0 /\ job.rc = "NO_ERROR"
        /\ k.opened < 2 * marg.n /\ job.parts = 1 .. k.opened
    BY <1>1, <1>2, <1>3 DEF OpenPart
  <2>1. CASE OpenFails(k)
    <3>1. /\ k' = [k EXCEPT !.opened = @ + 1, !.errid = "ER_OUT_OF_VIRTUAL_MEMORY"]
          /\ job' = [job EXCEPT !.rc = "ER_FAILED"] /\ k.opened + 1 = marg.fail_at
      BY <1>1, <1>3, <2>1 DEF OpenPart, qfile_open_list, OpenFails
    <3>2. /\ MTypeOK' /\ k'.opened = k.opened + 1 /\ k'.open_fail_at = marg.fail_at
          /\ k'.live = k.live /\ job'.sort = {} /\ job'.parts = job.parts /\ job'.rc = "ER_FAILED"
      BY <1>0, <1>1, <2>0, <3>1 DEF MTypeOK, Globals, Jobs
    <3>3. (k.opened + 1) - 1 = k.opened /\ k.opened + 1 <= 2 * marg.n /\ k.opened + 1 >= 1
      BY <1>1, <2>0
    <3>4. Stages'
      BY <1>1, <2>0, <3>1, <3>2, <3>3
         DEF Stages, OpenStage, MergeArgs, MergeStage, PartsStage, SplitStage, MergedStage
    <3>5. QED
      BY <2>0, <3>2, <3>4 DEF MergeInv, MergeOwnResult
  <2>2. CASE ~OpenFails(k)
    <3>1. /\ k' = [k EXCEPT !.opened = @ + 1, !.live = @ \cup {k.opened + 1}]
          /\ job' = [job EXCEPT !.parts = @ \cup {k.opened + 1}]
          /\ marg.fail_at = 0 \/ k.opened + 1 < marg.fail_at
      BY <1>1, <1>3, <2>0, <2>2 DEF OpenPart, qfile_open_list, OpenFails
    <3>2. /\ MTypeOK' /\ k'.opened = k.opened + 1 /\ k'.open_fail_at = marg.fail_at
          /\ k'.live = k.live \cup {k.opened + 1} /\ job'.sort = {}
          /\ job'.parts = job.parts \cup {k.opened + 1} /\ job'.rc = "NO_ERROR"
      <4>1. k.opened + 1 \in Nat /\ k.live \cup {k.opened + 1} \in SUBSET Nat
            /\ job.parts \cup {k.opened + 1} \in SUBSET Nat
        BY <1>0, <1>1 DEF MTypeOK, Globals, Jobs
      <4>2. k' \in Globals /\ job' \in Jobs
        BY <1>0, <3>1, <4>1 DEF MTypeOK, Globals, Jobs
      <4>3. QED
        BY <1>0, <1>1, <2>0, <3>1, <4>2 DEF MTypeOK, Globals, Jobs
    <3>3. (1 .. k.opened) \cup {k.opened + 1} = 1 .. k.opened + 1 /\ k.opened + 1 <= 2 * marg.n
      BY <1>1, <2>0
    <3>4. Stages'
      BY <1>1, <2>0, <3>1, <3>2, <3>3
         DEF Stages, OpenStage, MergeArgs, MergeStage, PartsStage, SplitStage, MergedStage
    <3>5. QED
      BY <2>0, <3>2, <3>4 DEF MergeInv, MergeOwnResult
  <2>3. QED
    BY <2>1, <2>2
<1>4. CASE OpenPartsReadBack
  <2>0. /\ mat' = "idle" /\ marg' = marg /\ part' = part /\ job' = NoJob
        /\ k' = [k EXCEPT !.live = @ \ job.parts]
        /\ mres' = [kind |-> "open", rc |-> job.rc, opened |-> k.opened,
                    live |-> Cardinality([k EXCEPT !.live = @ \ job.parts].live)]
        /\ job.rc # "NO_ERROR" \/ Cardinality(job.parts) = 2 * marg.n
    BY <1>4 DEF OpenPartsReadBack, MReturn, qfile_free_list_ids
  <2>1. MTypeOK' /\ [k EXCEPT !.live = @ \ job.parts].live = {}
    BY <1>0, <1>1, <2>0 DEF MTypeOK, Globals, Jobs, NoJob
  <2>2. Stages'
    BY <2>0 DEF Stages, OpenStage, MergeArgs, MergeStage, PartsStage, SplitStage, MergedStage
  <2>3. /\ mres'.kind = "open" /\ mres'.rc = job.rc /\ mres'.opened = k.opened
        /\ mres'.live = 0
    BY <2>0, <2>1, FS_EmptySet
  <2>4. CASE job.rc = "NO_ERROR"
    <3>1. k.opened = 2 * marg.n /\ ~(marg.fail_at \in 1 .. 2 * marg.n)
      BY <1>1, <1>2, <2>0, <2>4
    <3>2. MergeOwnResult'
      BY <2>0, <2>3, <2>4, <3>1 DEF MergeOwnResult
    <3>3. QED
      BY <2>1, <2>2, <3>2 DEF MergeInv
  <2>5. CASE job.rc = "ER_FAILED"
    <3>1. k.opened = marg.fail_at /\ marg.fail_at \in 1 .. 2 * marg.n
      BY <1>1, <2>5
    <3>2. MergeOwnResult'
      BY <2>0, <2>3, <2>5, <3>1 DEF MergeOwnResult
    <3>3. QED
      BY <2>1, <2>2, <3>2 DEF MergeInv
  <2>6. QED
    BY <1>0, <2>4, <2>5 DEF MTypeOK, Jobs
<1>5. QED
  BY <1>3, <1>4

\* Two lists opened one after the other, when no open is to fail.
LEMMA OpenTwo ==
    ASSUME k \in Globals, k.open_fail_at = 0
    PROVE  LET f == qfile_open_list(qfile_open_list(k))
           IN  /\ f \in Globals /\ f.opened = k.opened + 2
               /\ f.live = k.live \cup {k.opened + 1, k.opened + 2}
               /\ f.open_fail_at = 0 /\ f.add_fail_at = k.add_fail_at /\ f.add_calls = k.add_calls
               /\ f.errid = k.errid
<1> DEFINE one == [k EXCEPT !.opened = @ + 1, !.live = @ \cup {k.opened + 1}]
           two == [one EXCEPT !.opened = @ + 1, !.live = @ \cup {one.opened + 1}]
<1>1. qfile_open_list(k) = one
  BY DEF qfile_open_list, OpenFails
<1>2. /\ one \in Globals /\ one.opened = k.opened + 1 /\ one.live = k.live \cup {k.opened + 1}
      /\ one.open_fail_at = 0 /\ one.add_fail_at = k.add_fail_at
      /\ one.add_calls = k.add_calls /\ one.errid = k.errid
  <2>1. k.opened + 1 \in Nat /\ k.live \cup {k.opened + 1} \in SUBSET Nat
    BY DEF Globals
  <2>2. QED
    BY <2>1 DEF Globals
<1> HIDE DEF one
<1>3. qfile_open_list(one) = two
  BY <1>2 DEF qfile_open_list, OpenFails
<1>4. /\ two \in Globals /\ two.opened = k.opened + 2
      /\ two.live = k.live \cup {k.opened + 1, k.opened + 2}
      /\ two.open_fail_at = 0 /\ two.add_fail_at = k.add_fail_at
      /\ two.add_calls = k.add_calls /\ two.errid = k.errid
  <2>1. one.opened + 1 \in Nat /\ one.live \cup {one.opened + 1} \in SUBSET Nat
    BY <1>2 DEF Globals
  <2>2. one.opened + 1 = k.opened + 2
    BY <1>2 DEF Globals
  <2>3. two \in Globals
    BY <1>2, <2>1 DEF Globals
  <2>4. QED
    BY <1>2, <2>2, <2>3 DEF Globals
<1>5. QED
  BY <1>1, <1>3, <1>4

\* The sort lists are 1 and 2, the partitions have the next numbers, two each.
LEMMA OpensStep ==
    ASSUME MergeInv, OpenSortLists \/ OpenPartition
    PROVE  MergeInv'
<1>0. MTypeOK /\ MergeArgs /\ MergeParts \in Nat \ {0}
  BY HashMergeAssumption DEF MergeInv, Stages
<1>1. /\ mat \in {"merge", "parts"} /\ k' = qfile_open_list(qfile_open_list(k))
      /\ marg' = marg /\ part' = part
  BY DEF OpenSortLists, OpenPartition
<1>2. /\ k' \in Globals /\ k'.opened = k.opened + 2 /\ k.opened \in Nat
      /\ k'.live = k.live \cup {k.opened + 1, k.opened + 2}
      /\ k'.open_fail_at = 0 /\ k'.add_fail_at = k.add_fail_at /\ k'.add_calls = k.add_calls
      /\ k'.errid = k.errid
  BY <1>0, <1>1, OpenTwo DEF MTypeOK, MergeArgs, Globals
<1>3. CASE OpenSortLists
  <2>1. /\ mat' = "parts" /\ k.opened = 0 /\ k.live = {} /\ k.add_calls = 0
        /\ k.errid = "NO_ERROR" /\ job = NoJob /\ part = 0
        /\ job' = [job EXCEPT !.sort = {k.opened + 1, k.opened + 2}]
    BY <1>3 DEF OpenSortLists, MergeInv, Stages, MergeStage
  <2>2. job' = [sort |-> {1, 2}, parts |-> {}, folded |-> 0, split |-> 0, rc |-> "NO_ERROR"]
    BY <2>1 DEF NoJob
  <2>3. MTypeOK'
    BY <1>0, <1>1, <1>2, <2>1, <2>2 DEF MTypeOK, Jobs
  <2>4. PartsStage'
    <3>1. 0 \in 0 .. MergeParts - 1 /\ k'.opened = 2 + 2 * 0 /\ 3 .. 2 + 2 * 0 = {}
      BY <1>0, <1>2, <2>1
    <3>2. k'.live = {1, 2}
      BY <1>2, <2>1
    <3>3. /\ job'.sort = {1, 2} /\ job'.parts = {} /\ job'.folded = 0 /\ job'.split = 0
          /\ job'.rc = "NO_ERROR" /\ {1, 2} \cup {} = {1, 2}
      BY <2>2
    <3>4. \E m \in 0 .. MergeParts - 1 : k'.opened = 2 + 2 * m /\ job'.parts = 3 .. 2 + 2 * m
      BY <3>1, <3>3
    <3>5. QED
      BY <1>1, <1>2, <2>1, <3>2, <3>3, <3>4 DEF PartsStage
  <2>5. Stages'
    BY <1>0, <1>1, <1>2, <2>1, <2>4
       DEF Stages, OpenStage, MergeArgs, MergeStage, SplitStage, MergedStage
  <2>6. QED
    BY <2>1, <2>3, <2>5 DEF MergeInv, MergeOwnResult
<1>4. CASE OpenPartition
  <2>1. /\ mat = "parts" /\ job.sort = {1, 2} /\ k.live = job.sort \cup job.parts
        /\ job.folded = 0 /\ job.split = 0 /\ job.rc = "NO_ERROR" /\ part = 0
        /\ k.add_calls = 0 /\ k.errid = "NO_ERROR"
    BY <1>4 DEF OpenPartition, MergeInv, Stages, PartsStage
  <2>2. PICK m \in 0 .. MergeParts - 1 : k.opened = 2 + 2 * m /\ job.parts = 3 .. 2 + 2 * m
    BY <1>4 DEF OpenPartition, MergeInv, Stages, PartsStage
  <2>3. job.parts \cup {k.opened + 1, k.opened + 2} = 3 .. 2 + 2 * (m + 1)
    BY <2>2
  <2>4. /\ job' \in Jobs /\ job'.parts = 3 .. 2 + 2 * (m + 1) /\ job'.sort = {1, 2}
        /\ job'.folded = 0 /\ job'.split = 0 /\ job'.rc = "NO_ERROR"
        /\ k'.live = job'.sort \cup job'.parts /\ k'.opened = 2 + 2 * (m + 1)
    <3>1. 3 .. 2 + 2 * (m + 1) \in SUBSET Nat
      BY <2>2
    <3>2. job' = [job EXCEPT !.parts = 3 .. 2 + 2 * (m + 1)]
      BY <1>4, <2>3 DEF OpenPartition
    <3>3. job' \in Jobs /\ job'.parts = 3 .. 2 + 2 * (m + 1) /\ job'.sort = {1, 2}
      BY <1>0, <2>1, <3>1, <3>2 DEF MTypeOK, Jobs
    <3>4. job'.folded = 0 /\ job'.split = 0 /\ job'.rc = "NO_ERROR"
      BY <1>0, <2>1, <3>2 DEF MTypeOK, Jobs
    <3>5. k'.opened = 2 + 2 * (m + 1)
      BY <1>2, <2>2
    <3>6. k'.live = job'.sort \cup job'.parts
      BY <1>2, <2>1, <2>3, <3>3
    <3>7. QED
      BY <3>3, <3>4, <3>5, <3>6
  <2>5. Cardinality(job'.parts) = 2 * (m + 1)
    <3>1. 3 \in Int /\ 2 + 2 * (m + 1) \in Int /\ ~(3 > 2 + 2 * (m + 1))
          /\ (2 + 2 * (m + 1)) - 3 + 1 = 2 * (m + 1)
      BY <2>2
    <3>2. QED
      BY <2>4, <3>1, FS_Interval
  <2>6. mat' = IF m + 1 < MergeParts THEN "parts" ELSE "split"
    <3>1. 2 * (m + 1) < 2 * MergeParts <=> m + 1 < MergeParts
      BY <1>0, <2>2
    <3>2. QED
      BY <1>4, <2>5, <3>1 DEF OpenPartition
  <2>7. MTypeOK'
    BY <1>0, <1>1, <1>2, <2>4, <2>6 DEF MTypeOK
  <2>8. Stages'
    <3>1. MergeArgs'
      BY <1>0, <1>1, <1>2 DEF MergeArgs
    <3>2. CASE m + 1 < MergeParts
      <4>1. m + 1 \in 0 .. MergeParts - 1 /\ mat' = "parts"
        BY <1>0, <2>2, <2>6, <3>2
      <4>2. PartsStage'
        BY <1>1, <1>2, <2>1, <2>4, <4>1 DEF PartsStage
      <4>3. QED
        BY <3>1, <4>1, <4>2 DEF Stages, OpenStage, MergeStage, SplitStage, MergedStage
    <3>3. CASE ~(m + 1 < MergeParts)
      <4>1. m + 1 = MergeParts /\ mat' = "split" /\ 3 + 2 * 0 = 3
        BY <1>0, <2>2, <2>6, <3>3
      <4>2. marg.rows \in Nat /\ marg.fail_at \in Nat
        BY <1>0, <1>1 DEF MergeArgs
      <4>3. SplitStage'
        BY <1>0, <1>1, <1>2, <2>1, <2>4, <4>1, <4>2 DEF SplitStage
      <4>4. QED
        BY <3>1, <4>1, <4>3 DEF Stages, OpenStage, MergeStage, PartsStage, MergedStage
    <3>4. QED
      BY <3>2, <3>3
  <2>9. QED
    BY <2>6, <2>7, <2>8 DEF MergeInv, MergeOwnResult
<1>5. QED
  BY <1>3, <1>4

\* A write: counted, and failed when its turn has come.
LEMMA AddOnly ==
    ASSUME k \in Globals
    PROVE  LET a == qfile_add_tuple_to_list(k)
           IN  /\ a \in Globals /\ a.opened = k.opened /\ a.live = k.live
               /\ a.open_fail_at = k.open_fail_at /\ a.add_fail_at = k.add_fail_at
               /\ a.add_calls = k.add_calls + 1
               /\ a.errid = IF AddFails(k) THEN "ER_INTERRUPTED" ELSE k.errid
<1> DEFINE n == k.add_calls + 1
           e == IF AddFails(k) THEN "ER_INTERRUPTED" ELSE k.errid
           a == [k EXCEPT !.add_calls = n, !.errid = e]
<1>1. n \in Nat /\ e \in {"NO_ERROR", "ER_OUT_OF_VIRTUAL_MEMORY", "ER_INTERRUPTED"}
  BY DEF Globals
<1>2. qfile_add_tuple_to_list(k) = a
  BY DEF qfile_add_tuple_to_list
<1> HIDE DEF n, e
<1>3. /\ a \in Globals /\ a.opened = k.opened /\ a.live = k.live
      /\ a.open_fail_at = k.open_fail_at /\ a.add_fail_at = k.add_fail_at
      /\ a.add_calls = n /\ a.errid = e
  BY <1>1 DEF Globals
<1>4. QED
  BY <1>2, <1>3 DEF n, e

LEMMA AddOne ==
    ASSUME k \in Globals, NEW L
    PROVE  LET f == qfile_free_list_ids(qfile_add_tuple_to_list(k), L)
           IN  /\ f \in Globals /\ f.opened = k.opened /\ f.live = k.live \ L
               /\ f.open_fail_at = k.open_fail_at /\ f.add_fail_at = k.add_fail_at
               /\ f.add_calls = k.add_calls + 1
               /\ f.errid = IF AddFails(k) THEN "ER_INTERRUPTED" ELSE k.errid
<1> DEFINE a == qfile_add_tuple_to_list(k)
<1>1. /\ a \in Globals /\ a.opened = k.opened /\ a.live = k.live
      /\ a.open_fail_at = k.open_fail_at /\ a.add_fail_at = k.add_fail_at
      /\ a.add_calls = k.add_calls + 1
      /\ a.errid = IF AddFails(k) THEN "ER_INTERRUPTED" ELSE k.errid
  BY AddOnly
<1> HIDE DEF a
<1>2. a.live \ L \in SUBSET Nat
  BY <1>1 DEF Globals
<1>3. QED
  BY <1>1, <1>2 DEF qfile_free_list_ids, Globals, a

\* The writes of a merge: a failing one ends it with the sort lists still in the books.
LEMMA WritesStep ==
    ASSUME MergeInv, SplitRow \/ FoldPartition
    PROVE  MergeInv'
<1>0. MTypeOK /\ MergeArgs /\ SplitStage /\ mat = "split" /\ MergeParts \in Nat \ {0}
  BY HashMergeAssumption DEF MergeInv, Stages, SplitRow, FoldPartition
<1>1. /\ marg.rows \in Nat \ {0} /\ marg.fail_at \in Nat
      /\ k.open_fail_at = 0 /\ k.add_fail_at = marg.fail_at
      /\ k.opened = 2 + 2 * MergeParts /\ job.folded <= MergeParts /\ job.split <= marg.rows
      /\ job.parts = 3 + 2 * job.folded .. 2 + 2 * MergeParts
      /\ job.sort = {1, 2} /\ k.live = job.sort \cup job.parts /\ part = 0
      /\ job.folded > 0 => job.split = marg.rows
      /\ k.add_calls = job.split + job.folded
      /\ marg.fail_at = 0 \/ k.add_calls < marg.fail_at
      /\ job.rc = "NO_ERROR" /\ k.errid = "NO_ERROR"
      /\ job.folded \in Nat /\ job.split \in Nat /\ k \in Globals /\ job \in Jobs
  BY <1>0 DEF MergeArgs, SplitStage, MTypeOK, Jobs
<1>2. marg' = marg /\ part' = part /\ job.split + job.folded < marg.rows + MergeParts
  <2>1. CASE SplitRow
    <3>1. job.split < marg.rows /\ job.folded = 0
      BY <1>1, <2>1 DEF SplitRow
    <3>2. QED
      BY <1>0, <1>1, <2>1, <3>1 DEF SplitRow
  <2>2. CASE FoldPartition
    <3>1. job.folded < MergeParts /\ marg' = marg /\ part' = part
      BY <2>2 DEF FoldPartition
    <3>2. \A x, y, m, n \in Nat : x <= m /\ y < n => x + y < m + n
      OBVIOUS
    <3>3. QED
      BY <1>0, <1>1, <3>1, <3>2
  <2>3. QED
    BY <2>1, <2>2
<1>3. CASE AddFails(k)
  <2>1. FailMerge
    BY <1>3 DEF SplitRow, FoldPartition
  <2>2. marg.fail_at \in 1 .. marg.rows + MergeParts
    BY <1>1, <1>2, <1>3, <1>0 DEF AddFails
  <2>3. /\ k' \in Globals /\ k'.opened = k.opened /\ k'.live = k.live \ job.parts
        /\ k'.open_fail_at = 0 /\ k'.add_fail_at = marg.fail_at /\ k'.errid = "ER_INTERRUPTED"
    BY <1>1, <1>3, <2>1, AddOne DEF FailMerge
  <2>4. /\ job' \in Jobs /\ job'.parts = {} /\ job'.sort = {} /\ job'.rc = "ER_FAILED"
        /\ mat' = "merged"
    BY <1>1, <2>1 DEF FailMerge, Jobs
  <2>5. {1, 2} \cap job.parts = {}
    BY <1>1
  <2>6. k'.live = {1, 2}
    BY <1>1, <2>3, <2>5
  <2>7. MTypeOK'
    BY <1>0, <1>2, <2>3, <2>4 DEF MTypeOK
  <2>8. Stages'
    BY <1>1, <1>2, <2>2, <2>3, <2>4, <2>6
       DEF Stages, OpenStage, MergeArgs, MergeStage, PartsStage, SplitStage, MergedStage
  <2>9. QED
    BY <2>4, <2>7, <2>8 DEF MergeInv, MergeOwnResult
<1>4. ASSUME ~AddFails(k), mat' = "split", k' \in Globals, job' \in Jobs,
             k'.opened = k.opened, k'.open_fail_at = 0, k'.add_fail_at = marg.fail_at,
             k'.add_calls = k.add_calls + 1, k'.errid = "NO_ERROR",
             job'.split + job'.folded = k.add_calls + 1,
             job'.split <= marg.rows, job'.folded <= MergeParts,
             job'.folded > 0 => job'.split = marg.rows,
             job'.parts = 3 + 2 * job'.folded .. 2 + 2 * MergeParts,
             job'.sort = {1, 2}, k'.live = job'.sort \cup job'.parts, job'.rc = "NO_ERROR"
      PROVE  MergeInv'
  <2>1. MTypeOK'
    BY <1>0, <1>2, <1>4 DEF MTypeOK
  <2>2. marg.fail_at = 0 \/ k.add_calls + 1 < marg.fail_at
    BY <1>1, <1>4 DEF AddFails
  <2>3. Stages'
    BY <1>1, <1>2, <1>4, <2>2
       DEF Stages, OpenStage, MergeArgs, MergeStage, PartsStage, SplitStage, MergedStage
  <2>4. QED
    BY <1>4, <2>1, <2>3 DEF MergeInv, MergeOwnResult
<1>5. CASE SplitRow /\ ~AddFails(k)
  <2>1. /\ k' = qfile_add_tuple_to_list(k) /\ job' = [job EXCEPT !.split = @ + 1] /\ mat' = mat
        /\ job.split < marg.rows
    BY <1>5 DEF SplitRow
  <2>2. /\ k' \in Globals /\ k'.opened = k.opened /\ k'.live = k.live
        /\ k'.open_fail_at = 0 /\ k'.add_fail_at = marg.fail_at
        /\ k'.add_calls = k.add_calls + 1 /\ k'.errid = "NO_ERROR"
    BY <1>1, <1>5, <2>1, AddOnly
  <2>3. /\ job' \in Jobs /\ job'.split = job.split + 1 /\ job'.folded = job.folded
        /\ job'.parts = job.parts /\ job'.sort = {1, 2} /\ job'.rc = "NO_ERROR"
    BY <1>1, <2>1 DEF Jobs
  <2>4. job.folded = 0 /\ job'.split + job'.folded = k.add_calls + 1 /\ job'.split <= marg.rows
    BY <1>1, <2>1, <2>3
  <2>5. QED
    BY <1>0, <1>1, <1>4, <1>5, <2>1, <2>2, <2>3, <2>4
<1>6. CASE FoldPartition /\ ~AddFails(k)
  <2>1. job.split = marg.rows /\ job.folded < MergeParts /\ mat' = mat
    BY <1>6 DEF FoldPartition
  <2>2. PICK a, b \in job.parts :
          /\ a < b /\ \A c \in job.parts : c >= a /\ (c # a => c >= b)
          /\ k' = qfile_free_list_ids(qfile_add_tuple_to_list(k), {a, b})
          /\ job' = [job EXCEPT !.parts = @ \ {a, b}, !.folded = @ + 1]
    BY <1>6 DEF FoldPartition
  <2>3. a = 3 + 2 * job.folded /\ b = 4 + 2 * job.folded
    <3>1. 3 + 2 * job.folded \in job.parts /\ 4 + 2 * job.folded \in job.parts
      BY <1>1, <2>1, <1>0
    <3>2. a \in Int /\ b \in Int /\ a >= 3 + 2 * job.folded /\ b >= 3 + 2 * job.folded
      BY <1>1, <2>2
    <3>3. QED
      BY <1>1, <2>2, <3>1, <3>2
  <2>4. job.parts \ {a, b} = 3 + 2 * (job.folded + 1) .. 2 + 2 * MergeParts
    <3> DEFINE lo == 3 + 2 * job.folded
               hi == 2 + 2 * MergeParts
    <3>1. lo \in Int /\ hi \in Int /\ a = lo /\ b = lo + 1 /\ 3 + 2 * (job.folded + 1) = lo + 2
      <4>1. job.folded \in Int /\ MergeParts \in Int
        BY <1>0, <1>1
      <4>2. \A x \in Int : /\ 3 + 2 * x \in Int /\ 2 + 2 * x \in Int
                           /\ 4 + 2 * x = (3 + 2 * x) + 1 /\ 3 + 2 * (x + 1) = (3 + 2 * x) + 2
        OBVIOUS
      <4>3. QED
        BY <2>3, <4>1, <4>2
    <3>2. job.parts = lo .. hi
      BY <1>1
    <3> HIDE DEF lo, hi
    <3>3. (lo .. hi) \ {lo, lo + 1} = lo + 2 .. hi
      BY <3>1
    <3>4. QED
      BY <3>1, <3>2, <3>3 DEF hi
  <2>5. /\ k' \in Globals /\ k'.opened = k.opened /\ k'.live = k.live \ {a, b}
        /\ k'.open_fail_at = 0 /\ k'.add_fail_at = marg.fail_at
        /\ k'.add_calls = k.add_calls + 1 /\ k'.errid = "NO_ERROR"
    BY <1>1, <1>6, <2>2, AddOne
  <2>6. /\ job' \in Jobs /\ job'.split = job.split /\ job'.folded = job.folded + 1
        /\ job'.parts = job.parts \ {a, b} /\ job'.sort = {1, 2} /\ job'.rc = "NO_ERROR"
    <3>1. job.folded + 1 \in Nat /\ job.parts \ {a, b} \in SUBSET Nat
      BY <1>1 DEF Jobs
    <3>2. QED
      BY <1>1, <2>2, <3>1 DEF Jobs
  <2>7. /\ job'.split + job'.folded = k.add_calls + 1 /\ job'.folded <= MergeParts
        /\ job'.split = marg.rows /\ job'.split <= marg.rows
    BY <1>0, <1>1, <2>1, <2>6
  <2>8. k'.live = {1, 2} \cup job'.parts
    BY <1>1, <2>3, <2>5, <2>6
  <2>9. QED
    BY <1>0, <1>4, <1>6, <2>1, <2>4, <2>5, <2>6, <2>7, <2>8
<1>7. QED
  BY <1>3, <1>5, <1>6

\* The hand over, and what the scenario reports.
LEMMA EndStep ==
    ASSUME MergeInv, HandOver \/ MergeReadBack
    PROVE  MergeInv'
<1>0. MTypeOK /\ MergeArgs /\ MergeParts \in Nat \ {0}
  BY HashMergeAssumption DEF MergeInv, Stages
<1>1. CASE HandOver
  <2>1. /\ marg.rows \in Nat \ {0} /\ marg.fail_at \in Nat
        /\ k.open_fail_at = 0 /\ k.add_fail_at = marg.fail_at
        /\ k.opened = 2 + 2 * MergeParts /\ job.folded = MergeParts /\ job.split = marg.rows
        /\ job.parts = 3 + 2 * job.folded .. 2 + 2 * MergeParts
        /\ job.sort = {1, 2} /\ k.live = job.sort \cup job.parts /\ part = 0
        /\ k.add_calls = job.split + job.folded
        /\ marg.fail_at = 0 \/ k.add_calls < marg.fail_at
        /\ job.rc = "NO_ERROR" /\ k.errid = "NO_ERROR"
    BY <1>0, <1>1 DEF HandOver, MergeInv, MergeArgs, Stages, SplitStage
  <2>2. job.parts = {} /\ ~(marg.fail_at \in 1 .. marg.rows + MergeParts)
    BY <1>0, <2>1
  <2>3. /\ mat' = "merged" /\ marg' = marg /\ job' = [job EXCEPT !.sort = {}]
        /\ k' = [k EXCEPT !.live = @ \ {1}] /\ part' = 2
    <3>1. PICK rows_out, partials_out \in job.sort :
            /\ rows_out < partials_out
            /\ k' = qfile_free_list_ids(k, {rows_out}) /\ part' = partials_out
      BY <1>1 DEF HandOver
    <3>2. rows_out = 1 /\ partials_out = 2
      BY <2>1, <3>1
    <3>3. QED
      BY <1>1, <3>1, <3>2 DEF HandOver, qfile_free_list_ids
  <2>4. /\ k' \in Globals /\ k'.live = {2} /\ k'.opened = k.opened /\ k'.open_fail_at = 0
        /\ k'.add_fail_at = marg.fail_at /\ k'.errid = "NO_ERROR"
    <3>1. k.live \ {1} = {2} /\ {2} \in SUBSET Nat
      <4>1. k.live = {1, 2}
        BY <2>1, <2>2
      <4>2. QED
        BY <4>1
    <3>2. k' = [k EXCEPT !.live = {2}]
      BY <2>3, <3>1
    <3>3. QED
      BY <1>0, <2>1, <3>1, <3>2 DEF MTypeOK, Globals
  <2>5. job' \in Jobs /\ job'.sort = {} /\ job'.parts = {} /\ job'.rc = "NO_ERROR"
    BY <1>0, <2>1, <2>2, <2>3 DEF MTypeOK, Jobs
  <2>6. MTypeOK'
    BY <1>0, <2>3, <2>4, <2>5 DEF MTypeOK
  <2>7. Stages'
    BY <2>1, <2>2, <2>3, <2>4, <2>5
       DEF Stages, OpenStage, MergeArgs, MergeStage, PartsStage, SplitStage, MergedStage
  <2>8. QED
    BY <2>3, <2>6, <2>7 DEF MergeInv, MergeOwnResult
<1>2. CASE MergeReadBack
  <2>1. /\ MergedStage /\ mat = "merged" /\ mat' = "idle" /\ marg' = marg
        /\ UNCHANGED <<k, job, part>>
        /\ mres' = [kind |-> "merge", rc |-> job.rc,
                    result |-> IF job.rc = "NO_ERROR" THEN "COLLAPSED" ELSE "NONE",
                    opened |-> k.opened, live |-> Cardinality(k.live),
                    part_list_live |-> part \in k.live]
    BY <1>2 DEF MergeReadBack, MReturn, MergeInv, Stages
  <2>2. Cardinality({2}) = 1 /\ Cardinality({1, 2}) = 2
    <3>1. 1 .. 2 = {1, 2} /\ Cardinality(1 .. 2) = 2
      <4>1. 1 .. 2 = {1, 2} /\ 2 \in Nat
        OBVIOUS
      <4>2. QED
        BY <4>1, IntervalSize
    <3>2. QED
      BY <3>1, FS_Singleton
  <2>3. MTypeOK' /\ Stages'
    BY <1>0, <2>1
       DEF MTypeOK, Stages, OpenStage, MergeArgs, MergeStage, PartsStage, SplitStage, MergedStage
  <2>4. MergeOwnResult'
    <3>1. CASE marg.fail_at \in 1 .. marg.rows + MergeParts
      <4>1. /\ mres'.kind = "merge" /\ mres'.opened = 2 + 2 * MergeParts /\ mres'.live = 2
            /\ mres'.part_list_live = FALSE /\ mres'.result = "NONE" /\ mres'.rc = "ER_FAILED"
            /\ k'.errid = "ER_INTERRUPTED"
        <5>1. /\ job.rc = "ER_FAILED" /\ k.live = {1, 2} /\ part = 0 /\ k.errid = "ER_INTERRUPTED"
              /\ k.opened = 2 + 2 * MergeParts
          BY <2>1, <3>1 DEF MergedStage
        <5>2. (part \in k.live) = FALSE
          BY <5>1
        <5>3. QED
          BY <2>1, <2>2, <5>1, <5>2
      <4>2. QED
        BY <2>1, <3>1, <4>1 DEF MergeOwnResult
    <3>2. CASE ~(marg.fail_at \in 1 .. marg.rows + MergeParts)
      <4>1. /\ mres'.kind = "merge" /\ mres'.opened = 2 + 2 * MergeParts /\ mres'.live = 1
            /\ mres'.part_list_live = TRUE /\ mres'.result = "COLLAPSED" /\ mres'.rc = "NO_ERROR"
            /\ k'.errid = "NO_ERROR"
        BY <2>1, <2>2, <3>2 DEF MergedStage
      <4>2. QED
        <5>1. (marg'.fail_at \in 1 .. marg'.rows + MergeParts) = FALSE
          BY <2>1, <3>2
        <5>2. QED
          BY <2>1, <4>1, <5>1 DEF MergeOwnResult
    <3>3. QED
      BY <3>1, <3>2
  <2>5. QED
    BY <2>3, <2>4 DEF MergeInv
<1>3. QED
  BY <1>1, <1>2

-----------------------------------------------------------------------------
(* The theorems *)

\* MergeInv holds in every state of every sequence of scenarios.
THEOREM MergeInductive == Spec => []MergeInv
<1>1. Init => MergeInv
  BY InitMerge DEF Init
<1>2. ASSUME MergeInv, [Next]_<<gvars, mvars>> PROVE MergeInv'
  <2>1. CASE MNext
    BY <1>2, <2>1, BeginStep, OpenStep, OpensStep, WritesStep, EndStep DEF MNext
  <2>2. CASE UNCHANGED mvars
    BY <1>2, <2>2
       DEF mvars, MergeInv, MTypeOK, Stages, OpenStage, MergeArgs, MergeStage, PartsStage,
           SplitStage, MergedStage, MergeOwnResult
  <2>3. QED
    BY <1>2, <2>1, <2>2 DEF Next
<1>3. QED
  BY <1>1, <1>2, PTL DEF Spec

\* However many rows, partitions and scenarios there are, while a scenario runs a list in
\* the fake's books is held by the running open or merge or is the context's partial
\* list, but for the two sort lists a merge whose write failed leaves with nobody (K-01).
THEOREM ListsHeld == Spec => []LiveListsHeld
  BY MergeInductive, StagesHeld, PTL

\* What an open or a merge reports is its own, failure included, and the lists a failed merge leaves are exactly
\* its two sort lists, whichever write fails and whatever the scenarios before left.
THEOREM OwnResult == Spec => []MergeOwnResult
<1>1. MergeInv => MergeOwnResult
  BY DEF MergeInv
<1>2. QED
  BY <1>1, MergeInductive, PTL

=============================================================================
