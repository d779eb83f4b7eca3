---------------------------- MODULE MCValueSync ----------------------------
(* ValueSync on small sets of model values.  Which of two concurrent web    *)
(* requests is which, and what the two values an edit chooses between are,  *)
(* does not matter: the safety runs may permute them.                       *)
EXTENDS ValueSync, TLC

Symmetry == Permutations(Admin) \cup Permutations(Value \ {Unset})

=============================================================================
