---------------------------- MODULE MCSharedCache ----------------------------
(* SharedCache for TLC: connections and files are interchangeable.         *)
EXTENDS SharedCache, TLC

Symmetry == Permutations(Conn) \cup Permutations(File)

=============================================================================
