---------------------------- MODULE GroupBySuites -----------------------------
(***************************************************************************)
(* The three suites of the hash GROUP BY.  Each is a binary of its own: a    *)
(* process runs the scenarios of one of them.                               *)
(***************************************************************************)
EXTENDS GbyScenarios, HashMerge

Init == GInit /\ MInit

Next ==
    \/ suite # "merge" /\ GNext /\ UNCHANGED mvars
    \/ suite = "merge" /\ MNext /\ UNCHANGED gvars

Spec == Init /\ [][Next]_<<gvars, mvars>>

==============================================================================
