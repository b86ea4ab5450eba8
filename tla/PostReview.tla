------------------------------ MODULE PostReview ------------------------------
(***************************************************************************)
(* tools/harness/post_review.py --post: publishing the approved findings as *)
(* inline review comments, one review per file batch, and the findings      *)
(* outside the diff as one issue comment.  The GitHub server may reject a   *)
(* review (4xx), may fail without saying whether it created it (5xx, time   *)
(* out), and may create it after having answered with an error.  The user   *)
(* runs the same command again until it exits with 0, and may interrupt it. *)
(***************************************************************************)
EXTENDS Integers, Sequences, FiniteSetsExt

CONSTANTS
    Keys,           \* comments as the program tells them apart: [path, body]
    InputLists,     \* the comment lists a run may be started with
    Caps,           \* the values of --per-review the user may give to a run
    CONFIRM_TRIES,
    MaxLate         \* bound on the writes the server does after an error answer

ASSUME KeysAssumption == \A k \in Keys : {"path", "body"} \subseteq DOMAIN k
ASSUME ListsAssumption == InputLists \subseteq Seq(Keys)
ASSUME BoundsAssumption == Caps \subseteq Nat \ {0} /\ CONFIRM_TRIES \in Nat \ {0} /\ MaxLate \in Nat

VARIABLES
    comments,   \* the inline comments of the command, in the order of the findings
    orphans,    \* are there findings outside the diff, and --fallback-issue
    cap,        \* --per-review of the current run
    pc,         \* the step of the current run, or how the last one exited
    groups,     \* the batches still to be submitted, the current one first
    tries,      \* confirmations done after an unknown answer
    errors,     \* has a batch failed in this run
    inline,     \* the server: how many inline comments there are with each key
    issue,      \* the server: how many issue comments with this body
    late,       \* the server: accepted reviews it has not written yet, numbered
    lateIssue,  \* the same for the issue comment
    lates,      \* how many late writes there have been (bound)
    raced,      \* has a run read the comment list while such a write was due
    recut       \* and has it cut the list across such a review's batch

server == <<inline, issue, late, lateIssue, lates>>
vars == <<comments, orphans, cap, pc, groups, tries, errors, server, raced, recut>>

Positions == DOMAIN comments
Exits == {"idle", "ok", "failed", "stopped"}
Steps == {"get", "post", "confirm", "issue_get", "issue_post", "issue_confirm"}

TypeOK ==
    /\ comments \in InputLists
    /\ orphans \in BOOLEAN
    /\ cap \in Caps
    /\ pc \in Exits \cup Steps
    /\ groups \in Seq(SUBSET Positions)
    /\ tries \in 0..(CONFIRM_TRIES - 1)
    /\ errors \in BOOLEAN
    /\ inline \in [Keys -> Nat]
    /\ issue \in Nat
    /\ late \subseteq (1..MaxLate) \X SUBSET Positions
    /\ lateIssue \in Nat
    /\ lates \in 0..MaxLate
    /\ raced \in BOOLEAN
    /\ recut \in BOOLEAN

-----------------------------------------------------------------------------
(* batches_by_file *)

(***************************************************************************)
(* A comment is known by its position in the list, a batch is a set of      *)
(* positions.  T are the positions to be submitted.                         *)
(***************************************************************************)
File(T, i) == {j \in T : comments[j].path = comments[i].path}
Place(T, i) == Cardinality({j \in File(T, i) : j < i})

\* The slice of i's file that i is in, in slices of n comments.
Slice(T, n, i) == {j \in File(T, i) : Place(T, j) \div n = Place(T, i) \div n}
Slices(T, n) == {Slice(T, n, i) : i \in T}

\* Files in the order of their first comment, the slices of a file in its order.
First(T, b) == Min(File(T, Min(b)))
Before(T, b, c) ==
    \/ First(T, b) < First(T, c)
    \/ First(T, b) = First(T, c) /\ Min(b) < Min(c)
InOrder(T, plan) ==
    [k \in 1..Cardinality(plan) |->
       CHOOSE b \in plan : Cardinality({c \in plan : Before(T, c, b)}) = k - 1]

\* Mutant of BatchesByFile: the slice that starts at i ends at n, not at i + n.
BatchesByFileShort(T, n) ==
    InOrder(T, {Slice(T, n, i) : i \in {j \in T : Place(T, j) < n}})

\* One run of batches per file, at most n comments in a batch.
BatchesByFile(T, n) == InOrder(T, Slices(T, n))

Visible == {k \in Keys : inline[k] > 0}
Count(P, k) == Cardinality({i \in P : comments[i] = k})
Created(batch) == [k \in Keys |-> inline[k] + Count(batch, k)]

-----------------------------------------------------------------------------
Init ==
    /\ comments \in InputLists
    /\ orphans \in BOOLEAN
    /\ cap \in Caps
    /\ pc = "idle"
    /\ groups = <<>>
    /\ tries = 0
    /\ errors = FALSE
    /\ inline = [k \in Keys |-> 0]
    /\ issue = 0
    /\ late = {}
    /\ lateIssue = 0
    /\ lates = 0
    /\ raced = FALSE
    /\ recut = FALSE

\* main, after the inline part: the issue comment, or the exit code.
AfterInline(failed) ==
    pc' = IF orphans THEN "issue_get" ELSE IF failed THEN "failed" ELSE "ok"

\* The user starts the command, the first time or again, perhaps with another
\* --per-review.
Run ==
    /\ pc \in Exits \ {"ok"}
    /\ cap' \in Caps
    /\ errors' = FALSE
    /\ groups' = <<>>
    /\ tries' = 0
    /\ IF comments = <<>> THEN AfterInline(FALSE) ELSE pc' = "get"
    /\ UNCHANGED <<comments, orphans, server, raced, recut>>

\* A batch with comments of a review that is due and others besides, as a run with
\* another --per-review makes it.
Crosses(b, review) == b \cap review[2] # {} /\ ~(b \subseteq review[2])

\* Mutant of ReadComments: what is on the PR already is not left out.
ReadCommentsKeepAll ==
    /\ pc = "get"
    /\ groups' = BatchesByFile(Positions, cap)
    /\ raced' = (raced \/ late # {})
    /\ recut' = (recut \/ \E x \in late, j \in DOMAIN groups' : Crosses(groups'[j], x))
    /\ IF groups' = <<>> THEN AfterInline(FALSE) ELSE pc' = "post"
    /\ UNCHANGED <<comments, orphans, cap, tries, errors, server>>

\* post_inline: read the PR's comments and leave out those that are there.
ReadComments ==
    /\ pc = "get"
    /\ groups' = BatchesByFile({i \in Positions : comments[i] \notin Visible}, cap)
    /\ raced' = (raced \/ late # {})
    /\ recut' = (recut \/ \E x \in late, j \in DOMAIN groups' : Crosses(groups'[j], x))
    /\ IF groups' = <<>> THEN AfterInline(FALSE) ELSE pc' = "post"
    /\ UNCHANGED <<comments, orphans, cap, tries, errors, server>>

\* The list cannot be read: nothing is posted, the run stops.
ReadFails ==
    /\ pc = "get"
    /\ pc' = "stopped"
    /\ errors' = TRUE
    /\ UNCHANGED <<comments, orphans, cap, groups, tries, server, raced, recut>>

\* The current batch is dealt with: go on to the next, or past the loop.
NextBatch(failed) ==
    /\ groups' = Tail(groups)
    /\ errors' = failed
    /\ tries' = 0
    /\ IF Len(groups) > 1 THEN pc' = "post" ELSE AfterInline(failed)

PostCreated ==
    /\ pc = "post"
    /\ inline' = Created(Head(groups))
    /\ NextBatch(errors)
    /\ UNCHANGED <<comments, orphans, cap, issue, late, lateIssue, lates, raced, recut>>

\* 4xx: the server created nothing; this batch has failed, the next one is tried.
PostRejected ==
    /\ pc = "post"
    /\ NextBatch(TRUE)
    /\ UNCHANGED <<comments, orphans, cap, server, raced, recut>>

\* Mutant of PostUnknown: the batch is sent again at once, as before H-43.
PostUnknownRetries ==
    /\ pc = "post"
    /\ \A i \in Head(groups) : inline[comments[i]] < 3
    /\ inline' = Created(Head(groups))
    /\ UNCHANGED <<comments, orphans, cap, pc, groups, tries, errors, issue, late, lateIssue, lates, raced, recut>>

\* 5xx, time out, connection lost: created, not created, or to be created later.
PostUnknown ==
    /\ pc = "post"
    /\ \/ inline' = Created(Head(groups)) /\ UNCHANGED <<late, lates>>
       \/ UNCHANGED <<inline, late, lates>>
       \/ /\ lates < MaxLate
          /\ late' = late \cup {<<lates + 1, Head(groups)>>}
          /\ lates' = lates + 1
          /\ UNCHANGED inline
    /\ tries' = 0
    /\ pc' = "confirm"
    /\ UNCHANGED <<comments, orphans, cap, groups, errors, issue, lateIssue, raced, recut>>

\* confirm_created: one comment of the batch is on the PR, so the review is.
ConfirmSeen ==
    /\ pc = "confirm"
    /\ \E i \in Head(groups) : comments[i] \in Visible
    /\ NextBatch(errors)
    /\ UNCHANGED <<comments, orphans, cap, server, raced, recut>>

\* Mutant of ConfirmNotSeen: after the last try the loop goes on with the next batch.
ConfirmGivesUpBatch ==
    /\ pc = "confirm"
    /\ IF tries + 1 < CONFIRM_TRIES
       THEN tries' = tries + 1 /\ UNCHANGED <<pc, groups, errors>>
       ELSE NextBatch(errors)
    /\ UNCHANGED <<comments, orphans, cap, server, raced, recut>>

\* Mutant of ConfirmNotSeen: one confirmation too many.
ConfirmOnceMore ==
    /\ pc = "confirm"
    /\ IF tries < CONFIRM_TRIES
       THEN tries' = tries + 1 /\ UNCHANGED <<pc, errors>>
       ELSE pc' = "stopped" /\ errors' = TRUE /\ UNCHANGED tries
    /\ UNCHANGED <<comments, orphans, cap, groups, server, raced, recut>>

\* It is not, or the list cannot be read; after the last try the run stops there.
ConfirmNotSeen ==
    /\ pc = "confirm"
    /\ IF tries + 1 < CONFIRM_TRIES
       THEN tries' = tries + 1 /\ UNCHANGED <<pc, errors>>
       ELSE pc' = "stopped" /\ errors' = TRUE /\ UNCHANGED tries
    /\ UNCHANGED <<comments, orphans, cap, groups, server, raced, recut>>

-----------------------------------------------------------------------------
(* post_issue_comment *)

IssueDone(ok) == pc' = IF ok /\ ~errors THEN "ok" ELSE "failed"

ReadIssue ==
    /\ pc = "issue_get"
    /\ raced' = (raced \/ (issue = 0 /\ lateIssue > 0))
    /\ IF issue > 0 THEN IssueDone(TRUE) ELSE pc' = "issue_post"
    /\ UNCHANGED <<comments, orphans, cap, groups, tries, errors, server, recut>>

ReadIssueFails ==
    /\ pc = "issue_get"
    /\ IssueDone(FALSE)
    /\ UNCHANGED <<comments, orphans, cap, groups, tries, errors, server, raced, recut>>

PostIssue ==
    /\ pc = "issue_post"
    /\ \/ issue' = issue + 1 /\ IssueDone(TRUE) /\ UNCHANGED <<lateIssue, lates>>
       \/ IssueDone(FALSE) /\ UNCHANGED <<issue, lateIssue, lates>>
       \/ /\ pc' = "issue_confirm"
          /\ \/ issue' \in {issue, issue + 1} /\ UNCHANGED <<lateIssue, lates>>
             \/ /\ lates < MaxLate
                /\ lateIssue' = lateIssue + 1
                /\ lates' = lates + 1
                /\ UNCHANGED issue
    /\ tries' = 0
    /\ UNCHANGED <<comments, orphans, cap, groups, errors, inline, late, raced, recut>>

ConfirmIssue ==
    /\ pc = "issue_confirm"
    /\ \/ issue > 0 /\ IssueDone(TRUE) /\ UNCHANGED tries
       \/ IF tries + 1 < CONFIRM_TRIES
          THEN tries' = tries + 1 /\ UNCHANGED pc
          ELSE IssueDone(FALSE) /\ UNCHANGED tries
    /\ UNCHANGED <<comments, orphans, cap, groups, errors, server, raced, recut>>

-----------------------------------------------------------------------------
\* The server writes a review, or the issue comment, whose POST it had answered
\* with an error.
LateWrite ==
    /\ \/ \E review \in late :
            /\ inline' = Created(review[2])
            /\ late' = late \ {review}
            /\ UNCHANGED <<issue, lateIssue>>
       \/ /\ lateIssue > 0
          /\ issue' = issue + 1
          /\ lateIssue' = lateIssue - 1
          /\ UNCHANGED <<inline, late>>
    /\ UNCHANGED <<comments, orphans, cap, pc, groups, tries, errors, lates, raced, recut>>

\* The user interrupts the run.  An interrupted POST is an unknown one.
Interrupt ==
    /\ pc \in Steps
    /\ pc' = "stopped"
    /\ UNCHANGED <<comments, orphans, cap, groups, tries, errors, server, raced, recut>>

Done == pc = "ok" /\ late = {} /\ lateIssue = 0 /\ UNCHANGED vars

Program ==
    \/ ReadComments \/ ReadFails \/ PostCreated \/ PostRejected \/ PostUnknown
    \/ ConfirmSeen \/ ConfirmNotSeen
    \/ ReadIssue \/ ReadIssueFails \/ PostIssue \/ ConfirmIssue

Next == Run \/ Program \/ LateWrite \/ Interrupt \/ Done

Spec == Init /\ [][Next]_vars

(***************************************************************************)
(* The user repeats the command until it exits with 0 and does not          *)
(* interrupt it for ever; what GitHub refuses, it does not refuse for ever. *)
(***************************************************************************)
IssueCreated == PostIssue /\ issue' > issue /\ pc' \in Exits
Fairness ==
    /\ WF_vars(Run)
    /\ WF_vars(Program)
    /\ SF_vars(ReadComments) /\ SF_vars(PostCreated)
    /\ SF_vars(ReadIssue) /\ SF_vars(IssueCreated)
FairSpec == Spec /\ Fairness

-----------------------------------------------------------------------------
Wanted == {comments[i] : i \in Positions}
Distinct == \A i, j \in Positions : comments[i] = comments[j] => i = j
Pending == {comments[i] : i \in UNION {groups[j] : j \in DOMAIN groups}}

(***************************************************************************)
(* Submitting again never duplicates a comment (post_inline's GET before    *)
(* the first POST, confirm_created instead of a second POST), except when   *)
(* the server still had a review to write when a run read the list: no      *)
(* later answer of the server can make up for that.                         *)
(***************************************************************************)
DuplicateOnlyAfterLateWrite ==
    raced \/ (issue <= 1 /\ \A k \in Keys : inline[k] <= Count(Positions, k))

(***************************************************************************)
(* While post_inline runs without an error, every comment of the command is *)
(* on the PR or in a batch that is still to be submitted, one file to a     *)
(* batch and no batch above --per-review: batching, leaving out what is on  *)
(* the PR and confirming drop nothing, when no two comments of the command  *)
(* have the same words in the same file and no run has cut the list across  *)
(* a review that was due.                                                   *)
(***************************************************************************)
PlanIsComplete ==
    pc \in {"post", "confirm"} =>
        /\ Distinct /\ ~recut /\ ~errors => Wanted \subseteq Visible \cup Pending
        /\ \A i \in DOMAIN groups :
              /\ Cardinality(groups[i]) \in 1..cap
              /\ \A j, k \in groups[i] : comments[j].path = comments[k].path

\* The command exits with 0 only when every comment it was given is on the PR, and
\* the issue comment for the findings outside the diff too: main's exit code, made
\* of post_inline's errors and left batches and of post_issue_comment.
ExitZeroMeansPosted ==
    pc = "ok" => Wanted \subseteq Visible /\ (orphans => issue > 0)

\* The same for comments that all differ, late writes and other --per-review values
\* included, unless a run has cut the list across a review that was due: what that
\* one leaves on the PR confirms a batch nobody has created.
ExitZeroIfDistinct == Distinct /\ ~recut => ExitZeroMeansPosted

\* Running the command again and again gets everything posted, whatever was
\* rejected, lost, late or interrupted on the way, when all comments differ; where
\* a run has cut across a review that was due the command still ends.
ResumeCompletes == Distinct => <>(pc = "ok" /\ (recut \/ Wanted \subseteq Visible))

\* What the command promises its user: the runs, retries and interrupts together
\* publish every comment at most as often as asked and exit with 0 only when nothing
\* is missing, until a run reads the list while the server has a review to write.
Promise == INSTANCE Publication WITH
    asked <- [k \in Keys |-> Count(Positions, k)],
    askedNote <- IF orphans THEN 1 ELSE 0,
    board <- inline,
    note <- issue,
    closed <- pc = "ok",
    excused <- raced

Publishes == Promise!Spec

=============================================================================
