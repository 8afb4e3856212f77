------------------------------- MODULE MCFiles -------------------------------
(***************************************************************************)
(* Three requests about a directory `d`, a file `f` in it and the secrets. *)
(***************************************************************************)
EXTENDS Files, TLC

CONSTANTS root, d, f, secrets, old, new, h1, h2, h3

MCParent == d :> root @@ f :> d @@ secrets :> root
MCStart == [token |-> old, text |-> "lines"]
MCWritten == {[token |-> old, text |-> "other"], [token |-> new, text |-> "lines"]}

Symmetry == Permutations({h1, h2, h3})
=============================================================================
