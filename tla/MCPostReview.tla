----------------------------- MODULE MCPostReview -----------------------------
(* Instances of PostReview for TLC: two files, three comments in the first. *)
EXTENDS PostReview

FA == [path |-> "f", body |-> "a"]
FB == [path |-> "f", body |-> "b"]
GC == [path |-> "g", body |-> "c"]
FD == [path |-> "f", body |-> "d"]
SmallKeys == {FA, FB, FD, GC}

\* Nothing inline; a file that comes back after another one; one file with more than
\* a batch; the same words twice in one file.
SmallLists == {<<>>, <<FA, GC, FB>>, <<FA, FB, FD>>, <<FA, FB, FA>>}

\* One file, all comments different.
OneFile == {<<FA, FB, FD>>}

\* The same words twice in one file, on the two sides of a batch boundary.
Straddling == {<<FB, FA, FA, FD>>}

=============================================================================
