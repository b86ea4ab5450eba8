------------------------------- MODULE GbyCache -------------------------------
(***************************************************************************)
(* The page batch cache of a hash GROUP BY, as the two suites               *)
(*   src/unit/query/query_executor.h_gby_flush_replay     (flush suite)     *)
(*   src/unit/query/query_executor.gby_cache_evicted      (evict suite)     *)
(* see it: a linear-probe table from a key's bytes to a group's value.  The  *)
(* server functions under test are not part of the repository: they are     *)
(* modelled from the state the hooks hand them, from what the hooks read     *)
(* back and from the contracts of the two test.cpp (external).  The fakes    *)
(* the flush suite gives them are the repository's own.                     *)
(*                                                                          *)
(* A world w is what a server function may change: the batch state st, the   *)
(* groups' values, the hash context, the caller's selection, the rows it   *)
(* reports as done and the fakes' static counters and records.               *)
(***************************************************************************)
EXTENDS Integers, Sequences, FiniteSets

CONSTANTS Size,         \* QEXEC_GBY_CACHE_SIZE, a power of two
          CheckAt,      \* the tuple count of the very-high-selectivity check
          CutPercent,   \* groups per tuple above which the table is given up
          MaxVals       \* values a scenario has (H_MAX_CALLS, 1024, ...)

Slots == 0 .. Size - 1
Half == Size \div 2     \* the most entries, and the pool's key buffers
Vals == 0 .. MaxVals - 1

PowerOfTwo[n \in 0 .. Size] == IF n = 0 THEN 1 ELSE 2 * PowerOfTwo[n - 1]

ASSUME GbyCacheAssumption ==
    /\ Size \in Nat /\ \E n \in 1 .. Size : Size = PowerOfTwo[n]
    /\ MaxVals \in Nat \ {0}
    /\ CheckAt \in Nat /\ CutPercent \in Nat

Empty == [bytes |-> -1, hash |-> 0, value |-> 0]         \* len = -1
NoSlot == -1
NullCache == <<>>                                       \* st.cache = NULL
CallerSel == <<-1>>                                    \* the caller's batch.sel

Wrap(i) == i % Size                                     \* i & (SIZE - 1)
Occupied(c) == {s \in DOMAIN c : c[s] # Empty}

\* The probe from slot h reaches distance d: no free slot before it.
Reaches(c, h, d) == \A e \in 0 .. d - 1 : c[Wrap(h + e)] # Empty

\* The first free slot from h on.
FirstFree(c, h) ==
    Wrap(h + CHOOSE d \in Slots : c[Wrap(h + d)] = Empty /\ Reaches(c, h, d))

\* The slot a probe from its hash finds the bytes in.
qexec_gby_cache_find(c, b, h) ==
    LET D == {d \in Slots : /\ c[Wrap(h + d)] # Empty /\ c[Wrap(h + d)].bytes = b
                            /\ Reaches(c, h, d)}
    IN IF c = NullCache \/ D = {} THEN NoSlot ELSE Wrap(h + CHOOSE d \in D : TRUE)

\* qexec_gby_pool_reset and the table it belongs to: every slot free, every
\* buffer on the free stack.
qexec_gby_pool_reset(w) ==
    [w EXCEPT !.st.cache = [s \in Slots |-> Empty],
              !.st.n_cached = 0, !.st.n_pool_free = Half]

\* A new entry in slot s: a buffer of the pool, the slot noted in the value.
PlaceAt(w, s, e) ==
    [w EXCEPT !.st.cache[s] = e, !.st.n_cached = @ + 1, !.st.n_pool_free = @ - 1,
              !.vals[e.value].batch_slot = s]

------------------------------------------------------------------------------
\* The fakes.

\* Records whose accumulators a batch call takes and the rows it selects.
qdata_evaluate_aggregate_batch(w, g) ==
    [w EXCEPT !.fk.eval = Append(@, [group |-> g, sel |-> w.sel])]

\* Records the key it is asked for; the answer is h_get_result.
mht_get(w, key) == [w EXCEPT !.fk.get = Append(@, key)]

\* Counts the dump of an abandon.
qdata_save_agg_htable_to_list(w) == [w EXCEPT !.fk.n_dump = @ + 1]

qdata_copy_agg_hkey(w) == [w EXCEPT !.fk.n_copy = @ + 1]
qdata_free_agg_hkey(w, n) == [w EXCEPT !.fk.n_free_key = @ + n]

h_sync(w) == [w EXCEPT !.fk.n_sync = @ + 1]

------------------------------------------------------------------------------
\* The cache.

\* Mutant: the delete of a plain table, which leaves the cluster a hole.
RemoveNoShift(w, s) ==
    qdata_free_agg_hkey(
      [w EXCEPT !.st.cache[s] = Empty, !.vals[w.st.cache[s].value].batch_slot = NoSlot,
                !.st.n_cached = @ - 1, !.st.n_pool_free = @ + 1], 1)

\* A removal begins with a hole in slot s.
OpenHole(w, s) ==
    [c |-> [w.st.cache EXCEPT ![s] = Empty], hole |-> s, end |-> FALSE,
     vals |-> [w.vals EXCEPT ![w.st.cache[s].value].batch_slot = NoSlot]]

\* It looks at the entry d slots on: one whose probe passes the hole moves into
\* it and its value learns the new slot; a free slot ends the cluster.
ShiftOver(p, s, d) ==
    LET j == Wrap(s + d)
        e == p.c[j]
    IN IF p.end \/ e = Empty THEN [p EXCEPT !.end = TRUE]
       ELSE IF Wrap(j - e.hash) >= Wrap(j - p.hole)
            THEN [p EXCEPT !.c = [@ EXCEPT ![p.hole] = e, ![j] = Empty],
                           !.vals[e.value].batch_slot = p.hole,
                           !.hole = j]
            ELSE p

\* The backward-shift delete.
qexec_gby_cache_remove(w, s) ==
    LET step[d \in Slots] == IF d = 0 THEN OpenHole(w, s) ELSE ShiftOver(step[d - 1], s, d)
        last == step[Size - 1]
    IN qdata_free_agg_hkey(
         [w EXCEPT !.st.cache = last.c, !.vals = last.vals,
                   !.st.n_cached = @ - 1, !.st.n_pool_free = @ + 1], 1)

\* Every entry goes: its key is freed, its value forgets the slot.
qexec_gby_cache_clear(w) ==
    IF w.st.cache = NullCache THEN w
    ELSE LET gone == {w.st.cache[s].value : s \in Occupied(w.st.cache)}
         IN qdata_free_agg_hkey(
              [qexec_gby_pool_reset(w) EXCEPT
                 !.vals = [v \in Vals |-> IF v \in gone THEN [@[v] EXCEPT !.batch_slot = NoSlot]
                                                        ELSE @[v]]],
              w.st.n_cached)

\* Mutant: one entry more than the pool has buffers for.
AddCapPlusOne(w, b, h) ==
    LET got  == mht_get(IF w.st.cache = NullCache THEN qexec_gby_pool_reset(w) ELSE w, b)
        g    == got.fk.get_result
        old  == got.vals[g].batch_slot
        one  == IF old # NoSlot THEN qexec_gby_cache_remove(got, old) ELSE got
        room == IF one.st.n_cached >= Half + 1 THEN qexec_gby_cache_clear(one) ELSE one
    IN qdata_copy_agg_hkey(
         PlaceAt(room, FirstFree(room.st.cache, h), [bytes |-> b, hash |-> h, value |-> g]))

\* The group the table has for the bytes (mht_get) is cached under them.  The
\* first add allocates; a group has one entry, so other bytes of it replace
\* the earlier ones; a full cache starts over.
qexec_gby_cache_add(w, b, h) ==
    LET got  == mht_get(IF w.st.cache = NullCache THEN qexec_gby_pool_reset(w) ELSE w, b)
        g    == got.fk.get_result
        old  == got.vals[g].batch_slot
        one  == IF old # NoSlot THEN qexec_gby_cache_remove(got, old) ELSE got
        room == IF one.st.n_cached >= Half THEN qexec_gby_cache_clear(one) ELSE one
    IN qdata_copy_agg_hkey(
         PlaceAt(room, FirstFree(room.st.cache, h), [bytes |-> b, hash |-> h, value |-> g]))

\* Mutant: each noted slot is looked at after the removals before it (F1).
EvictedByNotedSlot(w, note) ==
    LET drop[i \in 0 .. Len(note)] ==
          IF i = 0 THEN w
          ELSE LET u == drop[i - 1]
                   s == note[i].slot
               IN IF u.st.cache[s] # Empty /\ u.st.cache[s].value = note[i].value
                  THEN qexec_gby_cache_remove(u, s) ELSE u
    IN drop[Len(note)]

\* Slot s has the entry of group v.
EntryOf(c, s, v) == c[s] # Empty /\ c[s].value = v

\* A noted group's entry, told by its noted slot before any removal (w), is
\* removed from where the removals so far (u) have shifted it.
DropNoted(w, u, x) ==
    IF EntryOf(w.st.cache, x.slot, x.value)
    THEN qexec_gby_cache_remove(u, CHOOSE s \in Slots : EntryOf(u.st.cache, s, x.value))
    ELSE u

qexec_gby_cache_evicted(w, note) ==
    LET drop[i \in 0 .. Len(note)] == IF i = 0 THEN w ELSE DropNoted(w, drop[i - 1], note[i])
    IN drop[Len(note)]

------------------------------------------------------------------------------
\* The flush.

GivesUp(tuples, groups) == tuples = CheckAt /\ 100 * groups > CutPercent * tuples

\* Rows done: up to the one that brings the tuple count to a check that gives
\* the table up.
Done(w, n) ==
    LET r == CheckAt - w.ctx.tuple_count
    IN IF r \in 1 .. n /\ GivesUp(CheckAt, w.ctx.group_count) THEN r ELSE n

\* The pending rows p of the group in slot s.
RowsOf(p, s) ==
    LET rows[t \in 0 .. Len(p)] ==
          IF t = 0 THEN <<>>
          ELSE IF p[t].ent = s THEN Append(rows[t - 1], p[t].row) ELSE rows[t - 1]
    IN rows[Len(p)]

\* Pending row t is the first, or the last, one of its group.
FirstOfGroup(p, t) == \A u \in 1 .. t - 1 : p[u].ent # p[t].ent
LastOfGroup(p, t) == \A u \in t + 1 .. Len(p) : p[u].ent # p[t].ent

\* A batch call for the group in slot s, over a selection of its own.
EvalGroup(w, p, s) ==
    LET g == w.st.cache[s].value
        u == [w EXCEPT !.sel = RowsOf(p, s)]
    IN qdata_evaluate_aggregate_batch([u EXCEPT !.vals[g].tuple_count = @ + Len(u.sel)], g)

\* One batch call per group, in first-row order.
EvalGroups(w, p) ==
    LET eval[t \in 0 .. Len(p)] ==
          IF t = 0 THEN w
          ELSE IF FirstOfGroup(p, t) THEN EvalGroup(eval[t - 1], p, p[t].ent) ELSE eval[t - 1]
    IN eval[Len(p)]

\* The groups are touched in the table's LRU in the order of their last row.
TouchGroups(w, p) ==
    LET touch[t \in 0 .. Len(p)] ==
          IF t = 0 THEN w
          ELSE IF LastOfGroup(p, t) THEN mht_get(touch[t - 1], w.st.cache[p[t].ent].bytes)
                                    ELSE touch[t - 1]
    IN touch[Len(p)]

\* Giving up: the list is synced, the table dumped, the cache cleared.
Abandon(w) ==
    LET u == qexec_gby_cache_clear(qdata_save_agg_htable_to_list(h_sync(w)))
    IN [u EXCEPT !.ctx.state = "HS_REJECT_ALL", !.ctx.evictions = @ + 1, !.st.off = TRUE]

qexec_batch_gby_flush(w, n) ==
    LET p == SubSeq(w.st.pend, 1, Done(w, n))
        u == [TouchGroups(EvalGroups(w, p), p) EXCEPT
                !.ctx.tuple_count = @ + Len(p), !.sel = w.sel, !.done = Len(p)]
    IN IF GivesUp(u.ctx.tuple_count, u.ctx.group_count) /\ p # <<>> THEN Abandon(u) ELSE u

==============================================================================
