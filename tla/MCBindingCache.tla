---------------------------- MODULE MCBindingCache ----------------------------
(* Small instances of BindingCache. *)
EXTENDS BindingCache, TLC

Symmetry == Permutations(Names)

=============================================================================
