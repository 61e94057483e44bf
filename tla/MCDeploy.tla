------------------------------ MODULE MCDeploy ------------------------------
(***************************************************************************)
(* Small instances of Deploy.                                              *)
(***************************************************************************)
EXTENDS Deploy, TLC

CONSTANTS r1, r2, r3

\* All that a request may ask for, and nothing of it.
EitherJob == {[storage |-> TRUE, login |-> TRUE, apply |-> TRUE],
              [storage |-> FALSE, login |-> FALSE, apply |-> FALSE]}

Symmetry == Permutations(Request)
=============================================================================
