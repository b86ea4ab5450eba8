--------------------------- MODULE MCGroupBySuites ----------------------------
(* Constants of the GroupBySuites run.                                       *)
EXTENDS GroupBySuites, TLC

\* Homes that collide, a cluster across the wrap, and 'a' before 'A' in one
\* cluster, so that replacing 'a' shifts.
MCHashOf == (0 :> 7) @@ (1 :> 7) @@ (2 :> 6) @@ (3 :> 0) @@ (4 :> 7) @@ (5 :> 7)
            @@ (97 :> 7) @@ (65 :> 7)

==============================================================================
