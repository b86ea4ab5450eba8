------------------------------ MODULE HjoinBloom ------------------------------
(***************************************************************************)
(* The Bloom filter on the second input of a hash join, as the suite         *)
(*   src/unit/query/query_hash_join.bloom_filter                            *)
(* drives and reads it.  Its hooks.cpp serves four layouts of the filter's   *)
(* struct with one set of functions:                                        *)
(*   earlier     built, disabled; built at the owner's first row            *)
(*   staged      set_up, WAITING -> READY / OFF, filled at a threshold       *)
(*   concurrent  staged, both inputs run at once: first_done                *)
(*   early       concurrent, the key checked before the projection          *)
(* b below is the raw struct with the members of all layouts: one that the   *)
(* revision does not have keeps the value attach gives it and is not read;   *)
(* the hooks' views bring every layout to the same form.                     *)
(* The server's hjoin functions are external: modelled from how the hooks    *)
(* call them and from the contracts of test.cpp.  The actors are the thread  *)
(* that gives the second input's rows (the owner), another thread, the       *)
(* workers of a parallel scan and the thread the first input runs on.        *)
(***************************************************************************)
EXTENDS Integers, FiniteSetsExt

CONSTANTS Layouts,
          FirstInputs,  \* the row sets the first input may have
          SecondVals,   \* a second-input row's values before the projection
          InDomain,     \* those that are of their list column's domain
          Store,        \* the value the projection stores in the list
          KeyOf,        \* value -> its key in the common domain, or NullKey
          HashOf,       \* qdata_hash_scan_key
          NullKey, Null,
          Workers, Threads,
          MIN_SECOND_ROWS, FIRST_PER_SECOND, SAMPLE_ROWS, MIN_SKIP_PERCENT,
          SEEN_BATCH, MAX_FIRST_ROWS,
          MaxRows       \* second-input rows of an execution

ASSUME HjoinBloomAssumption ==
    /\ Layouts \subseteq {"earlier", "staged", "concurrent", "early"}
    /\ InDomain \subseteq SecondVals
    \* of the column's domain: stored as it is (F5: not so for a string of the
    \* column's type in another codeset)
    /\ \A v \in InDomain : Store[v] = v
    /\ {MIN_SECOND_ROWS, SAMPLE_ROWS, SEEN_BATCH, FIRST_PER_SECOND} \subseteq Nat \ {0}
    /\ {MIN_SKIP_PERCENT, MAX_FIRST_ROWS, MaxRows} \subseteq Nat
    /\ \A F \in FirstInputs : /\ IsFiniteSet(F)
                              /\ \A f \in F : KeyOf[f] \in DOMAIN HashOf \cup {NullKey}
    /\ IsFiniteSet(Workers) /\ "owner" \in Threads

------------------------------------------------------------------------------
\* The filter's struct, with the members of all layouts, and a worker's.

Hashes == {HashOf[k] : k \in DOMAIN HashOf}
States == {"WAITING", "READY", "OFF"}
Reasons == {"NONE", "OFF_FAILED", "OFF_LOW_SKIP", "OFF_FIRST_ROWS", "FIRST_LATE", "EARLIER_OFF_FAILED"}
Ends == Reasons \cup {"NOT_BUILT", "CHECKED", "ENDED_FIRST"}

hjoin_bloom ==
    [owner_thread : Threads \cup {Null}, bits : {Null} \cup SUBSET Hashes, key : BOOLEAN,
     keys : Nat, tested : Nat, skipped : Nat, built : BOOLEAN, disabled : BOOLEAN,
     set_up : BOOLEAN, state : States, off_reason : Reasons, seen : Nat, first_rows : Nat,
     threshold : Nat \ {0}, first_done : {0, 1}, key_regus : BOOLEAN, key_cast : BOOLEAN]
hjoin_bloom_worker ==
    [disabled : BOOLEAN, ready : BOOLEAN, seen_unflushed : Nat, tested : Nat, skipped : Nat,
     late : Nat, key_regus : BOOLEAN]

\* Null is no thread, bit vector, filter or worker.
ASSUME NullAssumption ==
    /\ Null \notin Threads /\ \A bits \in SUBSET Hashes : bits # Null
    /\ Null \notin hjoin_bloom /\ Null \notin hjoin_bloom_worker

VARIABLES
    layout, \* the revision under test
    b,      \* the filter of the second input (xasl->hj_bloom), or Null
    wk,     \* the workers, Null before they begin and after they end
    stats,  \* the hash join's bloom_stats
    env,    \* the inputs: F, first, second, shared (prepare gave the filter out)
    g       \* history of the execution

vars == <<layout, b, wk, stats, env, g>>

Staged == layout # "earlier"

------------------------------------------------------------------------------
\* Which members the revision's struct has, and what the hooks read of it.

has_first_done == layout \in {"concurrent", "early"}
has_key_regus == layout = "early"

ThresholdOf(n) ==
    IF n \div FIRST_PER_SECOND > MIN_SECOND_ROWS THEN n \div FIRST_PER_SECOND ELSE MIN_SECOND_ROWS

\* A filter as attach leaves it: n first-input rows, or not known yet; regus
\* tells whether every key is a plain column.
NewBloom(n, regus) ==
    [owner_thread |-> IF has_first_done THEN Null ELSE "owner",
     bits |-> Null, key |-> FALSE, keys |-> 0, tested |-> 0, skipped |-> 0,
     built |-> FALSE, disabled |-> FALSE,
     set_up |-> FALSE, state |-> "WAITING", off_reason |-> "NONE", seen |-> 0,
     first_rows |-> IF has_first_done THEN 0 ELSE n,
     threshold |-> IF has_first_done THEN MIN_SECOND_ROWS ELSE ThresholdOf(n),
     first_done |-> 0,
     key_regus |-> has_key_regus /\ regus, key_cast |-> has_key_regus /\ regus]

\* An outcome a revision may not have: a stand-in that equals no real one.
StandIn(has, outcome, standin) == IF has THEN outcome ELSE standin

\* Names of the outcomes, a stand-in where a revision has none, and
\* the staging parameters.
unitseam_bloom_consts_of ==
    LET late == has_first_done
        early == has_key_regus
    IN [staged |-> Staged, concurrent |-> late, early |-> early,
        out_not_built |-> StandIn(Staged, "NOT_BUILT", "EARLIER_NOT_BUILT"),
        out_checked |-> StandIn(Staged, "CHECKED", "EARLIER_CHECKED"),
        out_off_low_skip |-> StandIn(Staged, "OFF_LOW_SKIP", "EARLIER_OFF_LOW_SKIP"),
        out_off_failed |-> StandIn(Staged, "OFF_FAILED", "EARLIER_OFF_FAILED"),
        out_first_late |-> StandIn(late, "FIRST_LATE", "ABSENT_FIRST_LATE"),
        out_off_first_rows |-> StandIn(late, "OFF_FIRST_ROWS", "ABSENT_OFF_FIRST_ROWS"),
        out_ended_first |-> StandIn(early, "ENDED_FIRST", "ABSENT_ENDED_FIRST"),
        min_second_rows |-> IF Staged THEN MIN_SECOND_ROWS ELSE 1,
        first_per_second |-> IF Staged THEN FIRST_PER_SECOND ELSE 0,
        sample_rows |-> IF Staged THEN SAMPLE_ROWS ELSE 0,
        min_skip_percent |-> IF Staged THEN MIN_SKIP_PERCENT ELSE 0,
        seen_batch |-> IF Staged THEN SEEN_BATCH ELSE 0,
        max_first_rows |-> MAX_FIRST_ROWS]

\* The three views' types.  Pointers the properties do not follow are left out.
unitseam_bloom_view ==
    [present : {TRUE}, staged : {Staged}, set_up : BOOLEAN, state : States, off_reason : Reasons,
     first_rows : Nat \cup {-1}, threshold : Nat \ {0}, seen : -1 .. MaxRows,
     owner_thread : Threads \cup {Null}, bits : {Null} \cup SUBSET Hashes, key : BOOLEAN,
     keys : Nat, tested : Nat, skipped : Nat,
     first_done : {-1, 0, 1}, key_regus : BOOLEAN, key_cast : BOOLEAN]
unitseam_stats_view ==
    [staged : {Staged}, shown : BOOLEAN, outcome : Ends \cup {"EARLIER_CHECKED", "EARLIER_NOT_BUILT"},
     keys : Nat, threshold : Nat \cup {-1},
     seen : -1 .. MaxRows, tested : Nat, skipped : Nat]
unitseam_worker_view ==
    [present : {TRUE}, disabled : BOOLEAN, ready : BOOLEAN, seen_unflushed : -1 .. SEEN_BATCH - 1,
     tested : Nat, skipped : Nat, key_regu0 : BOOLEAN]

\* The members of the later layouts, where the struct has them.
unitseam_view_v5(x) ==
    [first_done |-> IF has_first_done THEN x.first_done ELSE -1,
     key_regus |-> has_key_regus /\ x.key_regus,
     key_cast |-> has_key_regus /\ x.key_cast]

StateOf(x) ==
    IF Staged THEN x.state
    ELSE IF ~x.built THEN "WAITING" ELSE IF x.disabled THEN "OFF" ELSE "READY"

\* The filter's state in the staged form; earlier: built is set up, waiting
\* until built, off only by a failure.
unitseam_bloom_view_of(x) ==
    IF x = Null THEN [present |-> FALSE]
    ELSE LET late == unitseam_view_v5(x)
         IN [present |-> TRUE, staged |-> Staged, owner_thread |-> x.owner_thread,
             bits |-> x.bits, key |-> x.key, keys |-> x.keys,
             tested |-> x.tested, skipped |-> x.skipped,
             set_up |-> IF Staged THEN x.set_up ELSE x.built,
             state |-> StateOf(x),
             off_reason |-> IF StateOf(x) # "OFF" THEN "NONE"
                            ELSE IF Staged THEN x.off_reason
                            ELSE unitseam_bloom_consts_of.out_off_failed,
             first_rows |-> IF Staged THEN x.first_rows ELSE -1,
             threshold |-> IF Staged THEN x.threshold ELSE 1,
             seen |-> IF Staged THEN x.seen ELSE -1,
             first_done |-> late.first_done, key_regus |-> late.key_regus,
             key_cast |-> late.key_cast]

\* A worker; earlier ones always check and count no rows.
unitseam_worker_view_of(x) ==
    IF x = Null THEN [present |-> FALSE]
    ELSE [present |-> TRUE, disabled |-> x.disabled, tested |-> x.tested, skipped |-> x.skipped,
          ready |-> ~Staged \/ x.ready,
          seen_unflushed |-> IF Staged THEN x.seen_unflushed ELSE -1,
          key_regu0 |-> has_key_regus /\ x.key_regus]

ZeroStats == [attached |-> FALSE, state |-> "NONE", threshold |-> 0, seen |-> 0,
              keys |-> 0, tested |-> 0, skipped |-> 0, used |-> FALSE]

\* What the hash join's bloom_stats says.
unitseam_bloom_stats_of(s) ==
    LET c == unitseam_bloom_consts_of
    IN [staged |-> Staged, keys |-> s.keys, tested |-> s.tested, skipped |-> s.skipped,
        shown |-> IF Staged THEN s.attached ELSE s.used,
        outcome |-> IF Staged THEN s.state ELSE IF s.used THEN c.out_checked ELSE c.out_not_built,
        threshold |-> IF Staged THEN s.threshold ELSE -1,
        seen |-> IF Staged THEN s.seen ELSE -1]

------------------------------------------------------------------------------
\* Keys and decisions.

\* hjoin_bloom_may_contain for a hash.
unitseam_bloom_may_contain(x, h) == h \in x.bits

\* A key the first input cannot have; a NULL key joins nothing.
KeyAbsent(x, k) == k = NullKey \/ ~unitseam_bloom_may_contain(x, HashOf[k])

\* The join's own key of a second-input row, read from its list.
unitseam_hj_second_key(v, fetched) ==
    LET k == KeyOf[Store[v]]
    IN IF ~fetched THEN [rc |-> -1, hash |-> 0]
       ELSE IF k = NullKey THEN [rc |-> 1, hash |-> 0] ELSE [rc |-> 0, hash |-> HashOf[k]]

\* What the join decides for a first and a second row.  fails: which of its
\* three key fetches fails and ends it, 0 for none; the third is the probe's.
unitseam_hj_join_pair(f, v, fails) ==
    LET k1 == KeyOf[f]
        k2 == KeyOf[Store[v]]
        both == fails \notin {1, 2} /\ k1 # NullKey /\ k2 # NullKey
    IN [error |-> fails \in {1, 2} \/ (fails = 3 /\ both),
        first_null |-> fails # 1 /\ k1 = NullKey,
        second_null |-> fails \notin {1, 2} /\ k2 = NullKey,
        first_hash |-> IF fails \in {1, 2} \/ k1 = NullKey THEN 0 ELSE HashOf[k1],
        second_hash |-> IF fails \in {1, 2} \/ k2 = NullKey THEN 0 ELSE HashOf[k2],
        key_eq |-> both /\ k1 = k2, compare_eq |-> fails # 3 /\ both /\ k1 = k2]

Ready(x) == StateOf(x) = "READY"

\* The regu variable attach has found for a key.
unitseam_bloom_key_regu(x) == x # Null /\ has_key_regus /\ x.key_regus

\* The key before the projection: a value that is not of its list column's
\* domain goes through key_cast.
EarlyKeyOf(v) == KeyOf[IF v \in InDomain THEN v ELSE Store[v]]

\* Mutant: the value's own key, also when it is not of its column's domain.
EarlyKeyUncast(x, v, fetched) ==
    LET none == [hash |-> 0, cast |-> FALSE, decision |-> -1]
        k == KeyOf[v]
    IN IF ~unitseam_bloom_key_regu(x) THEN [rc |-> -3, out |-> none]
       ELSE IF ~x.set_up \/ ~x.key \/ ~x.key_cast THEN [rc |-> -4, out |-> none]
       ELSE IF ~fetched THEN [rc |-> -2, out |-> none]
       ELSE [rc |-> IF k = NullKey THEN 1 ELSE 0,
             out |-> [hash |-> IF k = NullKey THEN 0 ELSE HashOf[k], cast |-> v \notin InDomain,
                      decision |-> IF ~Ready(x) THEN -1 ELSE IF KeyAbsent(x, k) THEN 1 ELSE 0]]

\* What the check before the projection makes of a row, taken apart: the key,
\* whether it was cast and, on a filled filter, the decision.
unitseam_bloom_early_key(x, v, fetched) ==
    LET none == [hash |-> 0, cast |-> FALSE, decision |-> -1]
        k == EarlyKeyOf(v)
    IN IF ~unitseam_bloom_key_regu(x) THEN [rc |-> -3, out |-> none]
       ELSE IF ~x.set_up \/ ~x.key \/ ~x.key_cast THEN [rc |-> -4, out |-> none]
       ELSE IF ~fetched THEN [rc |-> -2, out |-> none]
       ELSE [rc |-> IF k = NullKey THEN 1 ELSE 0,
             out |-> [hash |-> IF k = NullKey THEN 0 ELSE HashOf[k], cast |-> v \notin InDomain,
                      decision |-> IF ~Ready(x) THEN -1 ELSE IF KeyAbsent(x, k) THEN 1 ELSE 0]]

------------------------------------------------------------------------------
\* The server's functions.  o says how the fallible parts of a call go: set
\* (the set-up), ok (the fill), read (the first rows the fill reads), fetched
\* (the row's key).

\* Mutant: the last reason wins.
TurnOffAgain(x, reason) == [x EXCEPT !.state = "OFF", !.off_reason = reason]

\* The first reason is kept.
TurnOff(x, reason) ==
    IF x.state = "OFF" THEN x ELSE [x EXCEPT !.state = "OFF", !.off_reason = reason]

NonNull(R) == {f \in R : KeyOf[f] # NullKey}
BitsOf(R) == {HashOf[KeyOf[f]] : f \in NonNull(R)}

hjoin_bloom_setup(x, o) ==
    LET s == [x EXCEPT !.set_up = TRUE, !.key = o.set]
    IN IF o.set THEN s ELSE TurnOff(s, "OFF_FAILED")

\* Mutant: the set-up's failure is not looked at.
FillWithoutSetup(x, o) ==
    LET s == IF has_first_done THEN hjoin_bloom_setup(x, o) ELSE x
    IN IF o.ok THEN [s EXCEPT !.bits = BitsOf(o.read), !.keys = Cardinality(NonNull(o.read)),
                              !.state = "READY"]
       ELSE TurnOff(s, "OFF_FAILED")

\* One pass over the first input; from the concurrent layout on it sets up.
hjoin_bloom_fill(x, o) ==
    LET s == IF has_first_done THEN hjoin_bloom_setup(x, o) ELSE x
    IN IF s.state = "OFF" THEN s
       ELSE IF o.ok THEN [s EXCEPT !.bits = BitsOf(o.read), !.keys = Cardinality(NonNull(o.read)),
                                   !.state = "READY"]
       ELSE TurnOff(s, "OFF_FAILED")

hjoin_bloom_build(x, o) ==
    IF o.ok THEN [x EXCEPT !.built = TRUE, !.key = TRUE, !.bits = BitsOf(o.read),
                           !.keys = Cardinality(NonNull(o.read))]
    ELSE [x EXCEPT !.built = TRUE, !.disabled = TRUE]

\* The owner's filter once the second input has given threshold rows.
unitseam_fill_now_impl(x, o) ==
    IF ~Staged THEN (IF x.built THEN x ELSE hjoin_bloom_build(x, o))
    ELSE LET s == IF has_first_done \/ x.set_up THEN x ELSE hjoin_bloom_setup(x, o)
         IN IF s.state = "WAITING" THEN hjoin_bloom_fill(s, o) ELSE s

\* Mutant: the first input's end is not waited for.
DueUnpublished(x) == x.state = "WAITING" /\ x.seen >= x.threshold

\* Due: waiting, the threshold reached, and the first input's end published.
Due(x) ==
    /\ x.state = "WAITING" /\ x.seen >= x.threshold
    /\ has_first_done => x.first_done = 1

\* The owner is bound at its first use where both inputs run at once.
Bind(x, t) == IF x.owner_thread = Null THEN [x EXCEPT !.owner_thread = t] ELSE x

\* The owner's row is counted; it sets up at the first, fills at the threshold.
hjoin_bloom_owner_row(x, t, o) ==
    LET y == Bind(x, t)
        c == [y EXCEPT !.seen = @ + 1]
        s == IF has_first_done \/ c.set_up THEN c ELSE hjoin_bloom_setup(c, o)
    IN IF y.owner_thread # t THEN y ELSE IF Due(s) THEN hjoin_bloom_fill(s, o) ELSE s

hjoin_bloom_ready(x, t, o) ==
    IF x.owner_thread # t \/ x.built THEN x ELSE hjoin_bloom_build(x, o)

\* The sample, judged once, at its last row.
LowSkip(x) ==
    Staged /\ x.tested = SAMPLE_ROWS /\ x.skipped * 100 < MIN_SKIP_PERCENT * x.tested

\* One row checked: counted unless its key cannot be fetched (fetched FALSE).
Count(x, absent) == [x EXCEPT !.tested = @ + 1, !.skipped = @ + IF absent THEN 1 ELSE 0]

hjoin_bloom_skip_record(x, v, fetched) ==
    IF ~fetched THEN IF Staged THEN TurnOff(x, "OFF_FAILED") ELSE [x EXCEPT !.disabled = TRUE]
    ELSE LET c == Count(x, KeyAbsent(x, KeyOf[Store[v]]))
         IN IF LowSkip(c) THEN TurnOff(c, "OFF_LOW_SKIP") ELSE c

\* The decision alone, on a filled filter: no row counted, no sample judged;
\* earlier a fetch that fails disables the filter all the same.
unitseam_bloom_check_bound(x, v, fetched) ==
    IF x = Null THEN [b |-> x, ret |-> -1]
    ELSE IF ~Ready(x) THEN [b |-> x, ret |-> -1]
    ELSE LET y == IF Staged THEN x
                  ELSE [hjoin_bloom_skip_record(x, v, fetched)
                          EXCEPT !.tested = x.tested, !.skipped = x.skipped]
         IN [b |-> y, ret |-> IF ~fetched THEN -2
                              ELSE IF KeyAbsent(x, KeyOf[Store[v]]) THEN 1 ELSE 0]

\* Mutant: the row's key before the projection, not the list's.
SkipBoundUncast(x, t, v, o) ==
    LET y == IF Staged THEN hjoin_bloom_owner_row(x, t, o) ELSE hjoin_bloom_ready(x, t, o)
    IN IF y.owner_thread # t \/ ~Ready(y) THEN [b |-> y, ret |-> -1]
       ELSE [b |-> hjoin_bloom_skip_record(y, v, o.fetched),
             ret |-> IF o.fetched /\ KeyAbsent(y, KeyOf[v]) THEN 1 ELSE 0]

\* The owner's per-row path: [b, ret], ret = -1 not checked, 0 keep, 1 skip.
unitseam_bloom_skip_bound(x, t, v, o) ==
    LET y == IF Staged THEN hjoin_bloom_owner_row(x, t, o) ELSE hjoin_bloom_ready(x, t, o)
    IN IF y.owner_thread # t \/ ~Ready(y) THEN [b |-> y, ret |-> -1]
       ELSE [b |-> hjoin_bloom_skip_record(y, v, o.fetched),
             ret |-> IF o.fetched /\ KeyAbsent(y, KeyOf[Store[v]]) THEN 1 ELSE 0]

------------------------------------------------------------------------------
\* History: rows given, rows checked and skipped, whether a joining row was lost,
\* fills,
\* how they came about, and the first reason the filter was turned off for.

NewHistory == [given |-> 0, tested |-> 0, skipped |-> 0, lost |-> FALSE, fills |-> 0,
               forced |-> FALSE, partial |-> FALSE, seenAt |-> 0, off |-> "NONE",
               reported |-> FALSE]

\* Changes of the filter from x to y, and one row with its decision ret.
Note(h, x, y, o) ==
    LET vx == unitseam_bloom_view_of(x)
        vy == unitseam_bloom_view_of(y)
        filled == vx.bits = Null /\ vy.bits # Null
    IN [h EXCEPT !.fills = IF filled THEN @ + 1 ELSE @,
                 !.partial = IF filled THEN o.read # env.F ELSE @,
                 !.seenAt = IF filled THEN vy.seen ELSE @,
                 !.off = IF @ = "NONE" /\ vy.state = "OFF" THEN vy.off_reason ELSE @]

NoteRow(h, v, ret, checked) ==
    [h EXCEPT !.given = @ + 1, !.tested = IF checked THEN @ + 1 ELSE @,
              !.skipped = IF ret = 1 THEN @ + 1 ELSE @,
              !.lost = \/ @
                       \/ ret = 1 /\ \E f \in env.F : unitseam_hj_join_pair(f, v, 0).compare_eq]

\* Outcomes of a call's fallible parts, of which the first to fail ends it.  A
\* scan of the first input that stops on an error without an id fails the
\* fill; earlier it left a partial filter (F3).
Succeeds == [set |-> TRUE, ok |-> TRUE, read |-> env.F, fetched |-> TRUE]
Outcomes ==
    {Succeeds, [Succeeds EXCEPT !.set = FALSE], [Succeeds EXCEPT !.ok = FALSE],
     [Succeeds EXCEPT !.fetched = FALSE]}
    \cup {[Succeeds EXCEPT !.read = R] : R \in IF Staged THEN {} ELSE SUBSET env.F}

------------------------------------------------------------------------------
Init ==
    /\ layout \in Layouts
    /\ b = Null /\ wk = [w \in Workers |-> Null] /\ stats = ZeroStats
    /\ env = [F |-> {}, first |-> "none", second |-> FALSE, shared |-> FALSE]
    /\ g = NewHistory

Running == b # Null /\ ~env.second

\* An execution begins: the trace is cleared whether a filter is attached or
\* not.  Before the concurrent layout the first input has run, and has rows.
Attach(F, regus) ==
    LET late == has_first_done
        takes == late \/ Cardinality(F) \in 1 .. MAX_FIRST_ROWS
    IN /\ b = Null
       /\ b' = IF takes THEN NewBloom(Cardinality(F), regus) ELSE Null
       /\ stats' = ZeroStats /\ g' = NewHistory
       /\ env' = [F |-> F, first |-> IF late THEN "running" ELSE "done",
                  second |-> FALSE, shared |-> FALSE]
       /\ UNCHANGED <<layout, wk>>

\* A row of the second input, on thread t.
OwnerRow(t, v, o) ==
    LET r == unitseam_bloom_skip_bound(b, t, v, o)
        h == Note(g, b, r.b, o)
    IN /\ Running /\ g.given < MaxRows
       /\ b' = r.b
       /\ g' = IF r.b.owner_thread # t THEN h
               ELSE NoteRow(h, v, r.ret, r.ret # -1 /\ o.fetched)
       /\ UNCHANGED <<layout, wk, stats, env>>

\* The owner gives the filter to a parallel scan: set up (earlier: built).
hjoin_bloom_prepare(t, o) ==
    LET y == Bind(b, t)
        s == IF ~Staged THEN hjoin_bloom_ready(y, t, o)
             ELSE IF has_first_done \/ y.set_up THEN y ELSE hjoin_bloom_setup(y, o)
    IN /\ Running /\ y.owner_thread = t
       /\ b' = s /\ g' = Note(g, b, s, o)
       /\ env' = [env EXCEPT !.shared = StateOf(s) # "OFF"]
       /\ UNCHANGED <<layout, wk, stats>>

\* The reader of a parallel scan polls: the fill of a filter that is due.
hjoin_bloom_poll(t, o) ==
    /\ Running /\ Staged /\ b.owner_thread = t /\ Due(b)
    /\ has_first_done \/ b.set_up
    /\ b' = hjoin_bloom_fill(b, o) /\ g' = Note(g, b, b', o)
    /\ UNCHANGED <<layout, wk, stats, env>>

\* The hook's fill, whatever has been seen; the first input is done.
unitseam_bloom_fill_now(o) ==
    /\ Running /\ env.first = "done"
    /\ b' = unitseam_fill_now_impl(b, o) /\ b' # b
    /\ g' = [Note(g, b, b', o) EXCEPT !.forced = TRUE]
    /\ UNCHANGED <<layout, wk, stats, env>>

\* The hook's look at a decision between rows: it counts nothing.
CheckBound(v, fetched) ==
    /\ Running
    /\ b' = unitseam_bloom_check_bound(b, v, fetched).b /\ b' # b
    /\ g' = Note(g, b, b', Null)
    /\ UNCHANGED <<layout, wk, stats, env>>

\* The hook's injection of a row count, where the suite uses it: waiting, no
\* worker at work; earlier layouts have none.
unitseam_bloom_set_seen(n) ==
    /\ Running /\ Staged /\ b.state = "WAITING" /\ \A w \in Workers : wk[w] = Null
    /\ b' = [b EXCEPT !.seen = n] /\ g' = [g EXCEPT !.given = n]
    /\ UNCHANGED <<layout, wk, stats, env>>

------------------------------------------------------------------------------
\* Workers.

\* A worker finds the key columns in its own clone of the output list.  Where
\* the filter has them and the clone gives no plain key (there is none, or it
\* is computed) the worker begins disabled: it counts its rows, checks none.
WorkerBegin(w, plain) ==
    LET new == [disabled |-> b.key_regus /\ ~plain, ready |-> Ready(b), seen_unflushed |-> 0,
                tested |-> 0, skipped |-> 0, late |-> 0, key_regus |-> b.key_regus /\ plain]
    IN /\ Running /\ env.shared /\ wk[w] = Null
       /\ wk' = [wk EXCEPT ![w] = new]
       /\ UNCHANGED <<layout, b, stats, env, g>>

\* Mutant: the count is handed over, the state not read again.
HandOverOnly(c, x) == [c EXCEPT !.seen_unflushed = 0]

\* A worker's full batch: its count goes, the shared state is read again.
Reread(c, x) == [c EXCEPT !.seen_unflushed = 0, !.ready = x.state = "READY"]

\* A worker's row: counted into its batch; a full batch is handed over and the
\* state read again; checked by the state as of the last batch.
WorkerRow(w, v, fetched) ==
    LET c == IF Staged THEN [wk[w] EXCEPT !.seen_unflushed = @ + 1] ELSE wk[w]
        full == Staged /\ c.seen_unflushed >= SEEN_BATCH
        r == IF full THEN Reread(c, b) ELSE c
        h == IF full THEN [b EXCEPT !.seen = @ + c.seen_unflushed] ELSE b
        checks == ~r.disabled /\ unitseam_worker_view_of(r).ready
        k == IF unitseam_worker_view_of(r).key_regu0 THEN EarlyKeyOf(v) ELSE KeyOf[Store[v]]
        absent == checks /\ fetched /\ KeyAbsent(b, k)
        d == IF ~checks THEN r
             ELSE IF ~fetched THEN [r EXCEPT !.disabled = TRUE]
             ELSE Count(r, absent)
    IN /\ Running /\ wk[w] # Null /\ g.given < MaxRows
       /\ wk' = [wk EXCEPT ![w] = IF checks /\ Staged /\ b.state = "OFF"
                                 THEN [d EXCEPT !.late = @ + 1] ELSE d]
       /\ b' = IF checks /\ fetched /\ LowSkip(d) THEN TurnOff(h, "OFF_LOW_SKIP") ELSE h
       /\ g' = NoteRow(Note(g, b, b', Null), v, IF absent THEN 1 ELSE 0, checks /\ fetched)
       /\ UNCHANGED <<layout, stats, env>>

\* Mutant: a batch that is not full is not handed over.
WorkerEndLosesRest(w) ==
    /\ Running /\ wk[w] # Null
    /\ b' = [b EXCEPT !.tested = @ + wk[w].tested, !.skipped = @ + wk[w].skipped]
    /\ wk' = [wk EXCEPT ![w] = Null]
    /\ UNCHANGED <<layout, stats, env, g>>

\* The rest of the worker's counts is added to the filter's.
WorkerEnd(w) ==
    /\ Running /\ wk[w] # Null
    /\ LET y == [b EXCEPT !.tested = @ + wk[w].tested, !.skipped = @ + wk[w].skipped]
       IN b' = IF Staged THEN [y EXCEPT !.seen = @ + wk[w].seen_unflushed] ELSE y
    /\ wk' = [wk EXCEPT ![w] = Null]
    /\ UNCHANGED <<layout, stats, env, g>>

------------------------------------------------------------------------------
\* The ends of the inputs, where they run at once, and of the execution.

\* The first input ends on its thread: its count and the threshold are written,
\* then first_done.  A failure, no row or too many turn the filter off.
PublishFirstRows ==
    /\ b # Null /\ env.first = "running"
    /\ b' = [b EXCEPT !.first_rows = Cardinality(env.F),
                      !.threshold = ThresholdOf(Cardinality(env.F))]
    /\ env' = [env EXCEPT !.first = "counted"]
    /\ UNCHANGED <<layout, wk, stats, g>>

PublishFirstDone(ok) ==
    /\ b # Null /\ env.first = "counted"
    /\ LET y == [b EXCEPT !.first_done = 1]
       IN b' = IF ok /\ b.first_rows \in 1 .. MAX_FIRST_ROWS THEN y
               ELSE TurnOff(y, "OFF_FIRST_ROWS")
    /\ env' = [env EXCEPT !.first = "done"]
    /\ g' = Note(g, b, b', Null)
    /\ UNCHANGED <<layout, wk, stats>>

\* The second input ends, its workers have: waiting for a first input that is
\* not done is over, the owner's key and bits are freed.
SecondDone ==
    /\ Running /\ has_first_done /\ \A w \in Workers : wk[w] = Null
    /\ LET y == IF b.state = "WAITING" /\ b.first_done = 0 THEN TurnOff(b, "FIRST_LATE") ELSE b
       IN /\ b' = [y EXCEPT !.bits = Null, !.key = FALSE]
          /\ g' = Note(g, b, y, Null)
    /\ env' = [env EXCEPT !.second = TRUE]
    /\ UNCHANGED <<layout, wk, stats>>

\* Mutant: a filter without bits has not been built.
OutcomeByBits ==
    IF b.state = "OFF" THEN b.off_reason
    ELSE IF b.bits # Null THEN "CHECKED"
    ELSE IF has_key_regus /\ b.first_done = 1 /\ b.seen >= b.threshold THEN "ENDED_FIRST"
    ELSE "NOT_BUILT"

\* What the report calls the filter's end.
Outcome ==
    IF b.state = "OFF" THEN b.off_reason
    ELSE IF b.state = "READY" THEN "CHECKED"
    ELSE IF has_key_regus /\ b.first_done = 1 /\ b.seen >= b.threshold THEN "ENDED_FIRST"
    ELSE "NOT_BUILT"

\* detach, later finish: the report, and the filter is freed.
Finish ==
    LET counts == [ZeroStats EXCEPT !.keys = b.keys, !.tested = b.tested, !.skipped = b.skipped]
    IN /\ b # Null /\ \A w \in Workers : wk[w] = Null
       /\ has_first_done => env.second /\ env.first = "done"
       /\ stats' = IF Staged
                   THEN [counts EXCEPT !.attached = TRUE, !.state = Outcome,
                                       !.threshold = b.threshold, !.seen = b.seen]
                   ELSE IF b.built /\ ~b.disabled THEN [counts EXCEPT !.used = TRUE] ELSE ZeroStats
       /\ b' = Null /\ g' = [g EXCEPT !.reported = TRUE]
       /\ UNCHANGED <<layout, wk, env>>

\* The hook's leftover of an earlier execution.
unitseam_bloom_stats_stale ==
    /\ b = Null
    /\ stats' = IF Staged
                THEN [attached |-> TRUE, state |-> "OFF_LOW_SKIP", threshold |-> 8, seen |-> 9,
                      keys |-> 5, tested |-> 6, skipped |-> 7, used |-> FALSE]
                ELSE [ZeroStats EXCEPT !.used = TRUE, !.keys = 5, !.tested = 6, !.skipped = 7]
    /\ g' = NewHistory
    /\ env' = [env EXCEPT !.first = "none"]
    /\ UNCHANGED <<layout, b, wk>>

Next ==
    \/ \E F \in FirstInputs, regus \in BOOLEAN : Attach(F, regus)
    \/ \E t \in Threads, v \in SecondVals, o \in Outcomes : OwnerRow(t, v, o)
    \/ \E t \in Threads, o \in Outcomes : hjoin_bloom_prepare(t, o) \/ hjoin_bloom_poll(t, o)
    \/ \E o \in Outcomes : unitseam_bloom_fill_now(o)
    \/ \E v \in SecondVals, fetched \in BOOLEAN : CheckBound(v, fetched)
    \/ \E n \in 0 .. MaxRows : unitseam_bloom_set_seen(n)
    \/ \E w \in Workers, plain \in BOOLEAN : WorkerBegin(w, plain)
    \/ \E w \in Workers : WorkerEnd(w)
    \/ \E w \in Workers, v \in SecondVals, fetched \in BOOLEAN : WorkerRow(w, v, fetched)
    \/ PublishFirstRows \/ SecondDone \/ Finish \/ unitseam_bloom_stats_stale
    \/ \E ok \in BOOLEAN : PublishFirstDone(ok)

Spec == Init /\ [][Next]_vars

------------------------------------------------------------------------------
\* Properties.

View == unitseam_bloom_view_of(b)
TestedBy == [w \in Workers |-> IF wk[w] = Null THEN 0 ELSE wk[w].tested]
SkippedBy == [w \in Workers |-> IF wk[w] = Null THEN 0 ELSE wk[w].skipped]
UnflushedBy == [w \in Workers |-> IF wk[w] = Null THEN 0 ELSE wk[w].seen_unflushed]
SumOf(count) == MapThenSumSet(LAMBDA w : count[w], Workers)

\* In every layout the views are well formed, and a filter that says READY has
\* its bits as long as rows may come.
TypeOK ==
    /\ stats \in [attached : BOOLEAN, used : BOOLEAN, state : Ends, threshold : Nat,
                  seen : Nat, keys : Nat, tested : Nat, skipped : Nat]
    /\ unitseam_bloom_stats_of(stats) \in unitseam_stats_view \/ ~g.reported
    /\ b # Null =>
         LET v == View
         IN /\ v \in unitseam_bloom_view /\ v.skipped <= v.tested
            /\ (v.state = "OFF") = (v.off_reason # "NONE")
            /\ v.state = "READY" /\ ~env.second => v.bits # Null /\ v.key
    /\ \A w \in Workers : wk[w] # Null =>
         unitseam_worker_view_of(wk[w]) \in unitseam_worker_view

\* No second-input row that the join would match is ever skipped, whoever
\* checks it and however stale its view of the filter; only the partial filter
\* of the earlier layout (F3) drops one.
JoiningRowKept ==
    g.lost => g.partial /\ ~Staged

\* On a filled filter the key a row gives before its projection is the key of
\* its list tuple, in hash and in decision, and the bits hold every key of the
\* first input that was read.
DecisionsAgree ==
    (b # Null /\ View.bits # Null) =>
      \A v \in SecondVals :
        LET e == unitseam_bloom_early_key(b, v, TRUE)
            s == unitseam_hj_second_key(v, TRUE)
        IN /\ e.rc \in {0, 1} => /\ e.rc = s.rc /\ e.out.hash = s.hash
                                 /\ e.out.decision = unitseam_bloom_check_bound(b, v, TRUE).ret
           /\ \A f \in env.F :
                LET p == unitseam_hj_join_pair(f, v, 0)
                IN ~p.first_null /\ ~g.partial => unitseam_bloom_may_contain(b, p.first_hash)

\* No row is lost or counted twice between the owner, the workers' batches and
\* the report, and the report is this execution's: the trace is empty until
\* the filter ends, whatever an earlier execution has left.
CountsExact ==
    LET s == unitseam_bloom_stats_of(stats)
    IN /\ b # Null =>
            /\ View.tested + SumOf(TestedBy) = g.tested
            /\ View.skipped + SumOf(SkippedBy) = g.skipped
            /\ Staged => View.seen + SumOf(UnflushedBy) = g.given
            /\ stats = ZeroStats
       /\ g.reported /\ s.shown =>
            /\ s.tested = g.tested /\ s.skipped = g.skipped
            /\ s.seen = IF Staged THEN g.given ELSE -1
            /\ s.keys = 0 \/ g.fills = 1

\* The report says what happened: CHECKED exactly of a filter that was filled
\* and never turned off, else the first reason it was turned off for, and not
\* built or ended first only of one that was never filled - ended first (early
\* layout) exactly when it was due.
OutcomeTruthful ==
    LET c == unitseam_bloom_consts_of
        s == unitseam_bloom_stats_of(stats)
        due == env.first = "done" /\ g.given >= ThresholdOf(Cardinality(env.F))
    IN g.reported =>
         IF Staged
         THEN /\ s.shown
              /\ s.outcome = c.out_checked <=> g.fills = 1 /\ g.off = "NONE"
              /\ g.off # "NONE" => s.outcome = g.off
              /\ s.outcome = c.out_not_built => g.fills = 0 /\ g.off = "NONE"
              /\ s.outcome = c.out_ended_first <=> c.early /\ due /\ g.fills = 0 /\ g.off = "NONE"
         ELSE s.shown <=> g.fills = 1 /\ g.off = "NONE"

\* The first input is read at most once in an execution, and (fill_now apart)
\* only after its end is published and the second input has given as many
\* rows as the published count asks for.
FilledOnceAtThreshold ==
    /\ g.fills <= 1
    /\ g.fills = 1 /\ Staged /\ ~g.forced =>
         env.first = "done" /\ g.seenAt >= ThresholdOf(Cardinality(env.F))

\* A worker goes on checking with a filter that was turned off for less than
\* one batch of rows.
StaleAtMostABatch == \A w \in Workers : wk[w] # Null => wk[w].late < SEEN_BATCH

\* Until the execution ends, off stays off and keeps its first reason, though
\* owner, workers and both inputs' ends turn it off independently.
OffStaysOff ==
    [][(b # Null /\ b' # Null /\ View.state = "OFF") =>
         View'.state = "OFF" /\ View'.off_reason = View.off_reason]_vars

==============================================================================
