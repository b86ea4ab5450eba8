----------------------------- MODULE Publication ------------------------------
(***************************************************************************)
(* What post_review promises its user, whatever the server answers and      *)
(* however often the command is run again: comments only appear, none       *)
(* appears more often than it was asked for, a whole review at a time, and  *)
(* the job is closed only when everything asked for is on the PR.  The      *)
(* promise ends once the server has let a run read a list that lacked what  *)
(* it was about to write.                                                   *)
(***************************************************************************)
EXTENDS Naturals

CONSTANT Keys

VARIABLES
    asked,      \* how often each comment is asked for
    askedNote,  \* is the issue comment asked for (0 or 1)
    board,      \* how often each comment is on the PR
    note,       \* how often the issue comment is
    closed,     \* has the command exited with 0
    excused     \* has the server excused the command

job == <<asked, askedNote>>
pubVars == <<job, board, note, closed, excused>>

Init ==
    /\ asked \in [Keys -> Nat]
    /\ askedNote \in {0, 1}
    /\ board = [k \in Keys |-> 0]
    /\ note = 0
    /\ closed = FALSE
    /\ excused = FALSE

\* A review appears, or the issue comment, never beyond what was asked for; the
\* command exits with 0 once, and only when nothing is missing.
Publish ==
    /\ closed => closed'
    /\ board' \in [Keys -> Nat]
    /\ \A k \in Keys : board[k] <= board'[k] /\ board'[k] <= asked[k]
    /\ note' \in {note, askedNote}
    /\ note' = note \/ board' = board
    /\ closed' \in BOOLEAN
    /\ closed' => note' = askedNote /\ \A k \in Keys : asked[k] > 0 => board'[k] > 0
    /\ UNCHANGED <<job, excused>>

\* Nothing is promised from the moment the server excuses the command.
Excused == excused' = TRUE

Spec == Init /\ [][Publish \/ Excused]_pubVars

=============================================================================
