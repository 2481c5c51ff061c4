------------------------------ MODULE MCTestFS ------------------------------
EXTENDS TestFS

CONSTANTS Short1, Short2, Long

(* The entries of the short names take one cell, so that either fills a    *)
(* block of three cells after "." and "..".                                *)
MCNameLen == [n \in Names \cup {".", ".."} |-> IF n = Long THEN 2 ELSE 1]
Symmetry == Permutations({Short1, Short2})
(* The process is killed on the smaller file systems.                      *)
MCMaxCrashes == [m \in FileSystems |-> IF m > 3 THEN 0 ELSE 1]
MCData == {<<1>>}
=============================================================================
