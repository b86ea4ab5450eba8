------------------------------ MODULE MCUnitseam ------------------------------
(* Instances of Unitseam for TLC. *)
EXTENDS Unitseam, TLC

\* Runs differ only in what they do: processes are interchangeable.
RunSymmetry == Permutations(Runs)

=============================================================================
