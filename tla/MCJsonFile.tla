----------------------------- MODULE MCJsonFile -----------------------------
(***************************************************************************)
(* Instances of JsonFile.  Files and documents are interchangeable.  A     *)
(* file is in use by two names and by every process that has one open, so  *)
(* four files never run out with two processes.                            *)
(***************************************************************************)
EXTENDS JsonFile, TLC

Symmetry == Permutations(Docs) \cup Permutations(Inodes)
=============================================================================
