------------------------------ MODULE KeptTrees ------------------------------
(***************************************************************************)
(* The client's registry of kept SQL-level prepared trees, as the appendix *)
(* src/unit/compat/db_vdb.kept_tree_registry/hooks.cpp drives it: PREPARE,  *)
(* DEALLOCATE and EXECUTE, where an EXECUTE runs SQL that prepares,         *)
(* deallocates and executes the same names again before it returns.         *)
(*                                                                          *)
(* Two shapes of the registry exist.  In shape 1 (take / put_back) an       *)
(* EXECUTE takes the tree off the list and owns it; in shape 0 (lookup) the *)
(* tree stays on the list while it executes.                                *)
(*                                                                          *)
(* The db_prepared_tree_* functions and db_close_session_local are not in   *)
(* this repository: they are external, modelled from the appendix and from  *)
(* the contracts its test.cpp states.  All of them work on one record       *)
(*   reg = [list, node, plans, closes]                                      *)
(* list: the registry, front first; node: name, text, server session and    *)
(* bind signature of a tree; plans: the trees kept for other signatures     *)
(* beside it; closes: how often it was closed.                              *)
(***************************************************************************)
EXTENDS Naturals, Sequences, FiniteSets

CONSTANTS Names, Texts, Sigs,
          MaxTrees,      \* trees compiled in a behaviour
          MaxSessions,   \* server session ids 1 .. MaxSessions
          MaxDepth,      \* EXECUTEs nested in each other
          MaxPlans,      \* DB_MAX_SIGNATURE_PLANS
          None           \* NULL

NoBind == 0              \* the signature of a parser without bind domains

ASSUME KeptTreesAssumption ==
    /\ {MaxTrees, MaxSessions, MaxDepth, MaxPlans} \subseteq Nat \ {0}
    /\ NoBind \in Sigs
    /\ None \notin Names \cup (1 .. MaxTrees)       \* NULL is neither a name nor a tree

VARIABLES shape, reg, sid, textOf, stack, made, outdated, spared

vars == <<shape, reg, sid, textOf, stack, made, outdated, spared>>

Trees == 1 .. MaxTrees
NoNode == [name |-> None, text |-> None, sid |-> 0, sig |-> NoBind]

TypeOK ==
    /\ shape \in {0, 1}
    /\ reg.list \in Seq(Trees)
    /\ reg.node \in [Trees -> [name : Names \cup {None}, text : Texts \cup {None},
                               sid : 0 .. MaxSessions, sig : Sigs]]
    /\ reg.plans \in [Trees -> Seq(Trees)]
    /\ reg.closes \in [Trees -> 0 .. 1]
    /\ sid \in 1 .. MaxSessions
    /\ textOf \in [Names -> Texts]
    /\ stack \in Seq([name : Names, kept : Trees \cup {None}])
    /\ made \in 0 .. MaxTrees
    /\ outdated \subseteq Trees
    /\ spared \subseteq Trees

------------------------------------------------------------------------------
\* Sequence helpers.

Elems(s) == {s[i] : i \in DOMAIN s}
Without(s, i) == SubSeq(s, 1, i - 1) \o SubSeq(s, i + 1, Len(s))

\* The positions of a name, and the one a walk from the front meets first.
At(r, n) == {i \in DOMAIN r.list : r.node[r.list[i]].name = n}
First(S) == CHOOSE i \in S : \A j \in S : i <= j

Entry(r, n) == IF At(r, n) = {} THEN None ELSE r.list[First(At(r, n))]

------------------------------------------------------------------------------
\* The registry (external).

\* db_close_session_local: a tree is closed with its signature plans; what a
\* closed tree held is freed.
db_close_session_local(r, T) ==
    LET gone == T \cup UNION {Elems(r.plans[t]) : t \in T}
    IN [r EXCEPT !.closes = [t \in Trees |-> IF t \in gone /\ @[t] < 2
                                             THEN @[t] + 1 ELSE @[t]],
                 !.node = [t \in Trees |-> IF t \in gone THEN NoNode ELSE @[t]],
                 !.plans = [t \in Trees |-> IF t \in T THEN <<>> ELSE @[t]]]

\* Takes the entry of a name off the list.
db_prepared_tree_unlink(r, n) ==
    IF At(r, n) = {} THEN r
    ELSE [r EXCEPT !.list = Without(@, First(At(r, n)))]

db_prepared_tree_close(r, t) == db_close_session_local(r, {t})

db_prepared_tree_remove(r, n) ==
    IF Entry(r, n) = None THEN r
    ELSE db_prepared_tree_close(db_prepared_tree_unlink(r, n), Entry(r, n))

\* A changed session id or text, in either shape, closes the entry.
Fits(r, n, text) ==
    LET e == r.node[Entry(r, n)] IN e.sid = sid /\ e.text = text

\* Shape 1: the entry leaves the list and belongs to the caller.
db_prepared_tree_take(r, n, text) ==
    IF Entry(r, n) = None THEN [kept |-> None, reg |-> r]
    ELSE IF ~Fits(r, n, text)
         THEN [kept |-> None, reg |-> db_prepared_tree_remove(r, n)]
         ELSE [kept |-> Entry(r, n), reg |-> db_prepared_tree_unlink(r, n)]

\* Shape 0: the entry moves to the front of the list and stays there.
db_prepared_tree_lookup(r, n, text) ==
    LET e == Entry(r, n)
    IN IF e = None THEN [kept |-> None, reg |-> r]
       ELSE IF ~Fits(r, n, text)
            THEN [kept |-> None, reg |-> db_prepared_tree_remove(r, n)]
            ELSE [kept |-> e,
                  reg |-> [db_prepared_tree_unlink(r, n) EXCEPT !.list = <<e>> \o @]]

\* Back at the front, unless the name has a newer entry: that one wins.
db_prepared_tree_put_back(r, t) ==
    IF Entry(r, r.node[t].name) # None THEN db_prepared_tree_close(r, t)
    ELSE [r EXCEPT !.list = <<t>> \o @]

\* A compiled tree heads the list under its name.  An earlier entry for
\* another bind signature becomes its first signature plan (the oldest plan
\* past MaxPlans is closed); any other earlier entry is closed.
db_prepared_tree_register(r, n, t, text, sig) ==
    LET old   == Entry(r, n)
        named == [db_prepared_tree_unlink(r, n) EXCEPT
                     !.node[t] = [name |-> n, text |-> text, sid |-> sid, sig |-> sig]]
        other == old # None /\ NoBind \notin {sig, r.node[old].sig} /\ sig # r.node[old].sig
        chain == IF other THEN <<old>> \o r.plans[old] ELSE <<>>
        fit   == IF Len(chain) <= MaxPlans THEN chain ELSE SubSeq(chain, 1, MaxPlans)
        over  == {chain[i] : i \in (MaxPlans + 1) .. Len(chain)}
        freed == IF other
                 THEN db_close_session_local(
                        [named EXCEPT !.plans[old] = <<>>, !.node[old].name = None,
                                      !.plans[t] = fit], over)
                 ELSE IF old # None THEN db_prepared_tree_close(named, old) ELSE named
    IN [freed EXCEPT !.list = <<t>> \o @]

db_prepared_tree_free_all(r) ==
    [db_close_session_local(r, Elems(r.list)) EXCEPT !.list = <<>>]

------------------------------------------------------------------------------
\* The appendix: a function of one shape only reports whether it is there.

Absent(r) == [present |-> FALSE, kept |-> None, reg |-> r]
Called(x) == [present |-> TRUE, kept |-> x.kept, reg |-> x.reg]

unitseam_shape == shape

\* Mutant: a take that compares neither the session nor the text.
TakeUnchecked(r, n, text) ==
    IF shape = 1 THEN Called([kept |-> Entry(r, n), reg |-> db_prepared_tree_unlink(r, n)])
                 ELSE Absent(r)

unitseam_take_t(r, n, text) ==
    IF shape = 1 THEN Called(db_prepared_tree_take(r, n, text)) ELSE Absent(r)

unitseam_lookup_t(r, n, text) ==
    IF shape = 0 THEN Called(db_prepared_tree_lookup(r, n, text)) ELSE Absent(r)

\* Mutant: a put_back that does not look for a newer entry.
PutBackBlindly(r, t) ==
    IF shape = 1 THEN Called([kept |-> t, reg |-> [r EXCEPT !.list = <<t>> \o @]])
                 ELSE Absent(r)

unitseam_put_back_t(r, t) ==
    IF shape = 1
    THEN Called([kept |-> t, reg |-> db_prepared_tree_put_back(r, t)])
    ELSE Absent(r)

unitseam_exec_checkout(r, n, text) ==
    IF unitseam_shape = 1 THEN unitseam_take_t(r, n, text)
                          ELSE unitseam_lookup_t(r, n, text)

unitseam_exec_return_ok(r, t) ==
    IF unitseam_shape = 1 THEN unitseam_put_back_t(r, t).reg ELSE r

\* Mutant: the stale tree of either shape is discarded by its name.
ExecStaleByName(r, t, n, signature_miss) ==
    IF signature_miss THEN unitseam_put_back_t(r, t).reg
                      ELSE db_prepared_tree_remove(r, n)

\* Mutant: the closed tree goes back to the list.
ExecStaleFallsThrough(r, t, n, signature_miss) ==
    IF signature_miss THEN unitseam_put_back_t(r, t).reg
                      ELSE unitseam_put_back_t(db_prepared_tree_close(r, t), t).reg

unitseam_exec_stale(r, t, n, signature_miss) ==
    IF unitseam_shape = 1
    THEN IF signature_miss THEN unitseam_put_back_t(r, t).reg
                           ELSE db_prepared_tree_close(r, t)
    ELSE IF signature_miss THEN r ELSE db_prepared_tree_remove(r, n)

\* Mutant: a PREPARE that keeps the tree of the name.
RemoveNothing(r, n) == r

unitseam_remove(r, n) == db_prepared_tree_remove(r, n)

unitseam_register(r, n, t, text, sig) == db_prepared_tree_register(r, n, t, text, sig)

\* The list without its entries, none of them closed.
unitseam_list_forget(r) == [r EXCEPT !.list = <<>>]

------------------------------------------------------------------------------
\* The steps of one connection.

Init ==
    /\ shape \in {0, 1}
    /\ reg = unitseam_list_forget([list |-> <<>>,
                                   node |-> [t \in Trees |-> NoNode],
                                   plans |-> [t \in Trees |-> <<>>],
                                   closes |-> [t \in Trees |-> 0]])
    /\ sid = 1
    /\ textOf \in [Names -> Texts]
    /\ stack = <<>>
    /\ made = 0
    /\ outdated = {}
    /\ spared = {}

Executing == {stack[i].kept : i \in DOMAIN stack} \ {None}
OfName(n) == {t \in 1 .. made : reg.node[t].name = n /\ reg.closes[t] = 0}

\* PREPARE name FROM text: the kept tree of the name is released.
Prepare(n, text) ==
    /\ reg' = unitseam_remove(reg, n)
    /\ textOf' = [textOf EXCEPT ![n] = text]
    /\ outdated' = outdated \cup OfName(n)
    /\ spared' = spared \cup (Executing \cap OfName(n))
    /\ UNCHANGED <<shape, sid, stack, made>>

Deallocate(n) ==
    /\ reg' = unitseam_remove(reg, n)
    /\ UNCHANGED <<shape, sid, textOf, stack, made, outdated, spared>>

\* EXECUTE begins, inside the executing one if there is any.
Execute(n) ==
    /\ Len(stack) < MaxDepth
    /\ LET x == unitseam_exec_checkout(reg, n, textOf[n])
       IN /\ reg' = x.reg
          /\ stack' = <<[name |-> n, kept |-> x.kept]>> \o stack
    /\ UNCHANGED <<shape, sid, textOf, made, outdated, spared>>

\* ... and returns with its kept tree, without error or with one of its own.
ReturnOk ==
    /\ stack # <<>> /\ stack[1].kept # None
    /\ reg' = unitseam_exec_return_ok(reg, stack[1].kept)
    /\ stack' = Tail(stack)
    /\ UNCHANGED <<shape, sid, textOf, made, outdated, spared>>

\* ... or its kept tree is stale, or it had none: the statement is compiled
\* from its text and the new tree registered.
ReturnFresh(miss, sig) ==
    /\ stack # <<>> /\ made < MaxTrees
    /\ LET f == stack[1]
           r == IF f.kept = None THEN reg
                ELSE unitseam_exec_stale(reg, f.kept, f.name, miss)
       IN reg' = unitseam_register(r, f.name, made + 1, textOf[f.name], sig)
    /\ made' = made + 1
    /\ stack' = Tail(stack)
    /\ UNCHANGED <<shape, sid, textOf, outdated, spared>>

\* db_set_session_id: a new server session, nothing kept.
ChangeSession ==
    /\ sid < MaxSessions
    /\ sid' = sid + 1
    /\ reg' = db_prepared_tree_free_all(reg)
    /\ UNCHANGED <<shape, textOf, stack, made, outdated, spared>>

Next ==
    \/ \E n \in Names, x \in Texts : Prepare(n, x)
    \/ \E n \in Names : Deallocate(n) \/ Execute(n)
    \/ ReturnOk
    \/ \E miss \in BOOLEAN, sig \in Sigs : ReturnFresh(miss, sig)
    \/ ChangeSession

Spec == Init /\ [][Next]_vars

------------------------------------------------------------------------------
\* Properties.

\* Where a tree is held: on the list, beside another tree, and, in shape 1,
\* by the EXECUTE that took it.
Places(t) ==
    Cardinality({i \in DOMAIN reg.list : reg.list[i] = t})
    + Cardinality({p \in Trees \X (1 .. MaxPlans + 1) :
                      p[2] \in DOMAIN reg.plans[p[1]] /\ reg.plans[p[1]][p[2]] = t})
    + IF shape = 1
      THEN Cardinality({i \in DOMAIN stack : stack[i].kept = t}) ELSE 0

\* Every tree has exactly one owner until it is closed, and is closed once:
\* whatever SQL runs inside an EXECUTE, no tree is leaked, closed twice,
\* reachable after its close or, with take / put_back, closed while it
\* executes (unitseam_exec_checkout, _return_ok, _stale).
OwnedOnce == \A t \in 1 .. made : Places(t) + reg.closes[t] = 1

\* A name has one entry, whichever of the nested EXECUTEs of the name
\* returns first (unitseam_put_back_t, unitseam_register).
OneEntryPerName == \A n \in Names : Cardinality(At(reg, n)) <= 1

\* An EXECUTE that begins gets an open tree that was compiled for the text
\* the name has now and kept in this server session, although trees come back
\* to the list after a nested PREPARE or a session change (the checkout).
ServesCurrent ==
    [][\A t \in Trees :
         (Len(stack') > Len(stack) /\ stack'[1].kept = t)
           => /\ reg.node[t].text = textOf[stack'[1].name]
              /\ reg.node[t].sid = sid
              /\ reg'.closes[t] = 0]_vars

\* A PREPARE invalidates the kept tree of its name: one compiled before it
\* stays in the registry only if it was executing when that PREPARE ran inside
\* it (the PREPARE's unitseam_remove does not reach a tree that was taken).
OutdatedOnlyIfExecuting ==
    \A i \in DOMAIN reg.list : reg.list[i] \in outdated => reg.list[i] \in spared

==============================================================================
