---------------------------- MODULE MCFileLogger ----------------------------
(***************************************************************************)
(* Instances of FileLogger: a few entries, some of them long.  Loggers,    *)
(* long entries and short entries are interchangeable.                     *)
(***************************************************************************)
EXTENDS FileLogger, TLC

Symmetry == Permutations(Threads) \cup Permutations(Long) \cup Permutations(Entries \ Long)
=============================================================================
