----------------------------- MODULE MCAppRepo -----------------------------
(***************************************************************************)
(* Small instances of AppRepo: one or two projects with two app names.     *)
(***************************************************************************)
EXTENDS AppRepo, TLC

CONSTANTS p1, p2, a1, a2, c1, c2, m1, m2, r1, r2

Create(p, a, c, m) ==
    [op |-> "create", project |-> p, app |-> a, conf |-> c, comps |-> m]
ApplyOf(p, a) ==
    [op |-> "apply", project |-> p, app |-> a, conf |-> c1, comps |-> m1]

(***************************************************************************)
(* The requests: two for one project, for one app or for two; or two of    *)
(* different projects with apps of one name but different contents; or a   *)
(* request to create and one to apply.                                     *)
(***************************************************************************)
First == Create(p1, a1, c1, m1)
Second == {Create(p1, a1, c2, m2), Create(p1, a1, c1, m2), Create(p1, a2, c2, m2),
           Create(p2, a1, c2, m2), ApplyOf(p1, a1)}
MCJob == {First} \union Second
MCPairs == {<<First, j>> : j \in Second}

\* Others push to the first project once.
MCOutside == (p1 :> 1) @@ (p2 :> 0)
NoOutside == (p1 :> 0) @@ (p2 :> 0)

MCInit == Init /\ <<job[r1], job[r2]>> \in MCPairs
MCSpec == MCInit /\ [][Next]_vars
MCFairSpec == MCInit /\ [][Next]_vars /\ \A r \in Request : WF_vars(Step(r))
=============================================================================
