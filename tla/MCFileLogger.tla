---------------------------- MODULE MCFileLogger ----------------------------
(* FileLogger for TLC.                                                     *)
EXTENDS FileLogger, TLC

\* Goroutines are interchangeable; sessions are not (Init chooses one).
MCSymmetry == Permutations(Callers)
=============================================================================
