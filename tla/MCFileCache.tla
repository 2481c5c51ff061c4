---------------------------- MODULE MCFileCache ----------------------------
(* The file cache for TLC: requests and files are interchangeable.          *)
EXTENDS FileCache, TLC

Symmetry == Permutations(Requests) \cup Permutations(Files)
=============================================================================
