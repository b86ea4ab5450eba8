----------------------------- MODULE GbyScenarios -----------------------------
(***************************************************************************)
(* The scenarios that the flush suite and the evict suite run on a batch     *)
(* cache built by hand.  A suite is one process: its scenarios run one       *)
(* after the other, in any order and with any arguments, over the fakes'     *)
(* static records, which no scenario resets completely.  A scenario is taken *)
(* in the steps of its function: set-up, the server call or each of them,    *)
(* what is read back, the end.                                              *)
(***************************************************************************)
EXTENDS GbyCache

CONSTANTS EvictNote,    \* QEXEC_GBY_EVICT_NOTE
          MaxPend,      \* pending rows of a flush (H_MAX_ROWS)
          MaxGroups,    \* groups of a flush (at most H_MAX_CALLS)
          MaxAdds,      \* keys of an add scenario (at most 1024)
          TupleCounts, GroupCounts,     \* tuple_count0 and group_count0 given
          HashOf,       \* qexec_gby_hash_bytes of key 0, 1, ..., of 'a' and 'A'
          MaxScenarios  \* scenarios of a behaviour

LowerA == 97
UpperA == 65

ASSUME GbyScenariosAssumption ==
    /\ EvictNote \in Nat /\ MaxPend \in Nat /\ MaxGroups \in Nat /\ MaxAdds \in Nat
    /\ MaxGroups <= Half /\ EvictNote <= Half      \* no scenario overdraws the pool
    /\ {MaxGroups, MaxAdds, EvictNote} \subseteq 0 .. MaxVals
    /\ TupleCounts \subseteq Nat /\ GroupCounts \subseteq Nat /\ MaxScenarios \in Nat
    /\ \A b \in (0 .. MaxAdds - 1) \cup {LowerA, UpperA} : HashOf[b] \in Nat

VARIABLES
    suite,  \* the binary that runs: "flush", "evict", or another suite's
    at,     \* where its running scenario is; "idle" between two
    arg,    \* the arguments of the last scenario
    w,      \* the world (GbyCache)
    note,   \* the evict scenario's note_val and note_slot
    i,      \* its loop variable
    res,    \* what the last scenario handed back
    ran     \* scenarios run so far

gvars == <<suite, at, arg, w, note, i, res, ran>>

------------------------------------------------------------------------------
\* The statics of the hooks as the process starts, and a zeroed batch state.

NoFakes == [eval |-> <<>>, get |-> <<>>, get_result |-> 0, n_dump |-> 0,
            n_sync |-> 0, n_copy |-> 0, n_free_key |-> 0]

ZeroSt == [cache |-> NullCache, n_cached |-> 0, n_pool_free |-> 0, off |-> FALSE,
           pend |-> <<>>]

NewCtx(tuples, groups) ==
    [state |-> "HS_ACCEPT_ALL", tuple_count |-> tuples, group_count |-> groups,
     evictions |-> 0]

ZeroVal == [batch_slot |-> 0, tuple_count |-> 0]        \* memset
NewVal == [ZeroVal EXCEPT !.batch_slot = NoSlot]        \* qdata_alloc_agg_hvalue

NoArg == [kind |-> "none"]
NoRes == [kind |-> "none"]

GInit ==
    /\ suite \in {"flush", "evict", "merge"}
    /\ at = "idle" /\ arg = NoArg /\ res = NoRes /\ note = <<>> /\ i = 0 /\ ran = 0
    /\ w = [st |-> ZeroSt, vals |-> [v \in Vals |-> ZeroVal], fk |-> NoFakes,
            ctx |-> NewCtx(0, 0), sel |-> CallerSel, done |-> 0]

\* The end of a scenario: its locals go, the statics stay.
Return(r) ==
    /\ res' = r /\ at' = "idle" /\ ran' = ran + 1 /\ i' = 0 /\ note' = <<>>
    /\ UNCHANGED <<suite, arg>>

\* A scenario begins; what the one before handed back is the test case's.
Begin(s, kind) ==
    /\ suite = s /\ at = "idle" /\ ran < MaxScenarios
    /\ at' = kind /\ res' = NoRes

------------------------------------------------------------------------------
\* h_flush_scenario.

\* Group g's entry: a slot of its own, bytes = the group number.
FlushSlot(g) == Wrap(37 * g + 5)

FlushEntry(u, g) ==
    PlaceAt([u EXCEPT !.vals[g] = ZeroVal], FlushSlot(g),
            [bytes |-> g, hash |-> FlushSlot(g), value |-> g])

FlushEntries(u, ng) ==
    LET put[g \in 0 .. ng] == IF g = 0 THEN u ELSE FlushEntry(put[g - 1], g - 1)
    IN put[ng]

\* Mutant: the touches of the scenarios before are kept.
FlushResetKeepsTouches(u) ==
    [u EXCEPT !.fk.eval = <<>>, !.fk.n_dump = 0, !.fk.n_sync = 0]

\* The records of the flush are reset, those of the key copies are not.
FlushReset(u) ==
    [u EXCEPT !.fk.get = <<>>, !.fk.eval = <<>>, !.fk.n_dump = 0, !.fk.n_sync = 0]

\* The set-up: an empty cache and its pool, one entry per group, the pending
\* rows with the slots of their groups, the caller's own selection.
FlushSetup(grp, ng, tuples, groups) ==
    /\ Begin("flush", "flush")
    /\ arg' = [kind |-> "flush", grp |-> grp, ng |-> ng, tuples |-> tuples, groups |-> groups]
    /\ LET u == FlushEntries(
                  qexec_gby_pool_reset(FlushReset([w EXCEPT !.st = ZeroSt])), ng)
       IN w' = [u EXCEPT !.ctx = NewCtx(tuples, groups), !.sel = CallerSel, !.done = 0,
                         !.st.pend = [t \in DOMAIN grp |->
                                        [row |-> t, ent |-> FlushSlot(grp[t])]]]
    /\ UNCHANGED <<suite, note, i, ran>>

FlushCall ==
    /\ at = "flush" /\ at' = "flushed"
    /\ w' = qexec_batch_gby_flush(w, Len(arg.grp))
    /\ UNCHANGED <<suite, arg, note, i, res, ran>>

\* What the fakes recorded and the state the flush left.
FlushReadBack ==
    /\ at = "flushed"
    /\ Return([kind |-> "flush", done |-> w.done,
               calls |-> w.fk.eval, touch |-> w.fk.get,
               off |-> w.st.off, dumps |-> w.fk.n_dump, syncs |-> w.fk.n_sync,
               tuple_count |-> w.ctx.tuple_count, state |-> w.ctx.state,
               evictions |-> w.ctx.evictions, n_cached |-> w.st.n_cached,
               value_tuple_count |-> [g \in 0 .. arg.ng - 1 |-> w.vals[g].tuple_count],
               sel_restored |-> w.sel = CallerSel])
    /\ w' = [w EXCEPT !.st = ZeroSt]

------------------------------------------------------------------------------
\* h_cache_add_scenario and h_cache_same_group_scenario.

\* Mutant: the key copies of the scenarios before are kept.
AddResetKeepsCopies == [w EXCEPT !.st = ZeroSt, !.vals = [v \in Vals |-> NewVal]]

\* Values without an entry, no key copies counted yet.
AddReset == [w EXCEPT !.st = ZeroSt, !.vals = [v \in Vals |-> NewVal],
                      !.fk.n_copy = 0, !.fk.n_free_key = 0]

AddSetup(n) ==
    /\ Begin("flush", "add")
    /\ arg' = [kind |-> "add", n |-> n]
    /\ w' = AddReset /\ i' = 0
    /\ UNCHANGED <<suite, note, ran>>

\* Key i is added; the fake mht_get answers with its group.
AddKey ==
    /\ at = "add" /\ i < arg.n /\ i' = i + 1
    /\ w' = qexec_gby_cache_add([w EXCEPT !.fk.get_result = i], i, HashOf[i])
    /\ UNCHANGED <<suite, at, arg, note, res, ran>>

Found(b) == qexec_gby_cache_find(w.st.cache, b, HashOf[b])
FoundFor(b, g) == Found(b) # NoSlot /\ w.st.cache[Found(b)].value = g
SlotIs(b, g) == Found(b) # NoSlot /\ w.vals[g].batch_slot = Found(b)

\* The first and the last key are looked for, the copies counted, the cache
\* cleared and freed.
AddReadBack ==
    /\ at = "add" /\ i = arg.n
    /\ Return([kind |-> "add", n_cached |-> w.st.n_cached,
               found_first |-> Found(0) # NoSlot,
               found_last |-> FoundFor(arg.n - 1, arg.n - 1) /\ SlotIs(arg.n - 1, arg.n - 1),
               copies |-> w.fk.n_copy, frees |-> w.fk.n_free_key])
    /\ w' = [qexec_gby_cache_clear(w) EXCEPT !.st = ZeroSt]

\* One group under two byte strings, both answered with its value.
SameGroup ==
    /\ Begin("flush", "same")
    /\ arg' = [kind |-> "same"]
    /\ LET u == [AddReset EXCEPT !.fk.get_result = 0]
       IN w' = qexec_gby_cache_add(qexec_gby_cache_add(u, LowerA, HashOf[LowerA]),
                                   UpperA, HashOf[UpperA])
    /\ UNCHANGED <<suite, note, i, ran>>

SameReadBack ==
    /\ at = "same"
    /\ Return([kind |-> "same", n_cached |-> w.st.n_cached,
               found_a |-> FoundFor(LowerA, 0), found_b |-> FoundFor(UpperA, 0),
               slot_is_b |-> SlotIs(UpperA, 0),
               copies |-> w.fk.n_copy, frees |-> w.fk.n_free_key])
    /\ w' = [qexec_gby_cache_clear(w) EXCEPT !.st = ZeroSt]

------------------------------------------------------------------------------
\* unitseam_gby_evict_scenario_keep; the plain scenario keeps none.

EvictSetup(n, home, keep) ==
    /\ Begin("evict", "evict")
    /\ arg' = [kind |-> "evict", n |-> n, home |-> home, keep |-> keep]
    /\ w' = qexec_gby_pool_reset([w EXCEPT !.st = ZeroSt])
    /\ note' = <<>> /\ i' = 0
    /\ UNCHANGED <<suite, ran>>

\* Group i goes to the first free slot of the one cluster; unless it is kept
\* its value and slot are noted, as the consumer notes them before the table
\* evicts.
EvictPlace ==
    /\ at = "evict" /\ i < arg.n /\ i' = i + 1
    /\ LET s == FirstFree(w.st.cache, Wrap(arg.home))
       IN /\ w' = PlaceAt(w, s, [bytes |-> i, hash |-> arg.home, value |-> i])
          /\ note' = IF i \in arg.keep THEN note
                     ELSE Append(note, [value |-> i, slot |-> s])
    /\ UNCHANGED <<suite, at, arg, res, ran>>

EvictCall ==
    /\ at = "evict" /\ i = arg.n /\ at' = "evicted"
    /\ w' = qexec_gby_cache_evicted(w, note)
    /\ UNCHANGED <<suite, arg, note, i, res, ran>>

\* Every group is looked for.
EvictFound(v) == qexec_gby_cache_find(w.st.cache, v, arg.home)

EvictReadBack ==
    LET all   == 0 .. arg.n - 1
        stale == {v \in all \ arg.keep : EvictFound(v) # NoSlot}
    IN /\ at = "evicted"
       /\ Return([kind |-> "evict", n_left |-> w.st.n_cached,
                  balanced |-> w.st.n_pool_free + w.st.n_cached = Half,
                  stale_found |-> Cardinality(stale),
                  stale_slot |-> IF stale = {} THEN NoSlot
                                 ELSE EvictFound(CHOOSE v \in stale : \A u \in stale : u <= v),
                  kept_found |-> Cardinality(
                    {v \in all \cap arg.keep : /\ EvictFound(v) # NoSlot
                                               /\ w.st.cache[EvictFound(v)].value = v})])
       /\ w' = [w EXCEPT !.st = ZeroSt]

------------------------------------------------------------------------------
FlushNext ==
    \/ \E ng \in 1 .. MaxGroups, n \in 1 .. MaxPend, t \in TupleCounts, c \in GroupCounts :
         \E grp \in [1 .. n -> 0 .. ng - 1] : FlushSetup(grp, ng, t, c)
    \/ FlushCall \/ FlushReadBack
    \/ \E n \in 1 .. MaxAdds : AddSetup(n)
    \/ AddKey \/ AddReadBack
    \/ SameGroup \/ SameReadBack

EvictNext ==
    \/ \E n \in 1 .. EvictNote, home \in Slots : \E keep \in SUBSET (0 .. n - 1) :
         EvictSetup(n, home, keep)
    \/ EvictPlace \/ EvictCall \/ EvictReadBack

GNext == FlushNext \/ EvictNext

------------------------------------------------------------------------------
\* Properties.

\* The world keeps its types in every step of every scenario, and the cache
\* never holds more than half of its slots (the pool has no more buffers).
GTypeOK ==
    /\ w.st.cache = NullCache
         \/ w.st.cache \in [Slots -> [bytes : Nat, hash : Nat, value : Vals] \cup {Empty}]
    /\ w.st.n_cached \in 0 .. Half /\ w.st.n_pool_free \in 0 .. Half
    /\ \A v \in Vals : w.vals[v].batch_slot \in Slots \cup {NoSlot} /\ w.vals[v].tuple_count \in Nat
    /\ w.ctx.state \in {"HS_ACCEPT_ALL", "HS_REJECT_ALL"}
    /\ i \in 0 .. MaxVals /\ ran \in 0 .. MaxScenarios

\* In every state of a scenario a probe finds every entry in its own slot (no
\* shift of a removal leaves a hole before it, across the wrap either), its
\* group's batch_slot names that slot, and so a group has one entry; the
\* counter counts the entries and the pool has the buffers they do not use.
CacheConsistent ==
    LET c == w.st.cache
    IN c # NullCache =>
         /\ \A s \in Occupied(c) : /\ qexec_gby_cache_find(c, c[s].bytes, c[s].hash) = s
                                   /\ w.vals[c[s].value].batch_slot = s
         /\ w.st.n_cached = Cardinality(Occupied(c))
         /\ w.st.n_cached + w.st.n_pool_free = Half

\* The row path, the reference of the flush: rows one at a time, each touching
\* its group (touched: by which row last, so the LRU's order), the check made
\* after each row, no row after a table given up.
RowPath(grp, tuples, groups) ==
    LET step[t \in 0 .. Len(grp)] ==
          IF t = 0 THEN [acc |-> [g \in Vals |-> <<>>], touched |-> [g \in Vals |-> 0],
                         n |-> tuples, off |-> FALSE]
          ELSE LET p == step[t - 1]
               IN IF p.off THEN p
                  ELSE [acc |-> [p.acc EXCEPT ![grp[t]] = Append(@, t)],
                        touched |-> [p.touched EXCEPT ![grp[t]] = t],
                        n |-> p.n + 1, off |-> GivesUp(p.n + 1, groups)]
    IN step[Len(grp)]

\* A flush hands the aggregates and the table what the row path would have:
\* every group's rows in row order in one call, calls in first-row order, the
\* LRU touched as if row by row, the tuple counts, and the table given up
\* after the same row, dumped and synced once, the cache empty.
FlushReplaysRowPath ==
    res.kind = "flush" =>
      LET ref  == RowPath(arg.grp, arg.tuples, arg.groups)
          hit  == {g \in 0 .. arg.ng - 1 : ref.acc[g] # <<>>}
          once == IF ref.off THEN 1 ELSE 0
      IN at = "idle" =>
           /\ \A k \in DOMAIN res.calls : res.calls[k].sel = ref.acc[res.calls[k].group]
           /\ {res.calls[k].group : k \in DOMAIN res.calls} = hit
           /\ Len(res.calls) = Cardinality(hit)
           /\ \A k, l \in DOMAIN res.calls : k < l => res.calls[k].sel[1] < res.calls[l].sel[1]
           /\ {res.touch[k] : k \in DOMAIN res.touch} = hit
           /\ \A k, l \in DOMAIN res.touch : k < l => ref.touched[res.touch[k]] < ref.touched[res.touch[l]]
           /\ res.tuple_count = ref.n /\ res.done = ref.n - arg.tuples
           /\ \A g \in 0 .. arg.ng - 1 : res.value_tuple_count[g] = Len(ref.acc[g])
           /\ res.off = ref.off /\ (res.state = "HS_REJECT_ALL") = ref.off
           /\ res.dumps = once /\ res.syncs = once /\ res.evictions = once
           /\ res.n_cached = IF ref.off THEN 0 ELSE arg.ng
           /\ res.sel_restored

\* However the scenarios before it left the fakes, an add scenario reports one
\* copy per add, a start over after every Half adds with its releases, the
\* last key found in the slot its group names and the first one only while no
\* start over has happened; the two byte strings of one group leave one entry.
AddsAsDocumented ==
    /\ (res.kind = "add" /\ at = "idle") =>
         LET clears == (arg.n - 1) \div Half
         IN /\ res.n_cached = arg.n - clears * Half
            /\ res.copies = arg.n /\ res.frees = clears * Half
            /\ res.found_last /\ (res.found_first <=> clears = 0)
    /\ (res.kind = "same" /\ at = "idle") =>
         /\ res.n_cached = 1 /\ ~res.found_a /\ res.found_b /\ res.slot_is_b
         /\ res.copies = 2 /\ res.frees = 1

\* After any eviction of groups of one cluster, at any home slot, no evicted
\* group is found, every kept one is, and the pool has its buffers back.
EvictedGone ==
    (res.kind = "evict" /\ at = "idle") =>
      /\ res.n_left = Cardinality(arg.keep) /\ res.kept_found = Cardinality(arg.keep)
      /\ res.stale_found = 0 /\ res.stale_slot = NoSlot /\ res.balanced

==============================================================================
