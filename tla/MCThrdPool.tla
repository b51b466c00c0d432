----------------------------- MODULE MCThrdPool -----------------------------
(* Small instances of ThrdPool for TLC.                                    *)
EXTENDS ThrdPool, TLC

(* Sound for the safety runs: threads and tasks of a kind are              *)
(* interchangeable.                                                        *)
Symmetry ==
  Permutations(Workers) \cup Permutations(Clients) \cup Permutations(Tasks)

=============================================================================
