------------------------------ MODULE MCKfctl ------------------------------
(***************************************************************************)
(* Small instances of Kfctl.                                               *)
(***************************************************************************)
EXTENDS Kfctl, TLC

CONSTANTS a1, a2, r1, r2, user

\* One user lets itself in to both applications.
UserEverywhere == [a \in App |-> user]

Apply(what)  == [verb |-> "apply", what |-> what, storage |-> FALSE]
Delete(what) == [verb |-> "delete", what |-> what, storage |-> TRUE]

\* Applying the platform alone is how applying everything begins.
Most == {Apply("all"), Apply("k8s"), Delete("all"), Delete("platform"), Delete("k8s")}

DeleteAll == {Apply("all"), Delete("all")}

Symmetry == Permutations(App) \union Permutations(Run)
=============================================================================
