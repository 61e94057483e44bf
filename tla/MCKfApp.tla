------------------------------ MODULE MCKfApp ------------------------------
(***************************************************************************)
(* The directory of an application with two versions, one of longer files  *)
(* and one whose template for minikube has the component jupyter.          *)
(***************************************************************************)
EXTENDS KfApp

CONSTANTS v1, v2

MCVersion == {v1, v2}
MCLength == [v \in MCVersion |-> IF v = v1 THEN 2 ELSE 1]
MCJupyter == {v1}
=============================================================================
