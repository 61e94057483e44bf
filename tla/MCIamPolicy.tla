---------------------------- MODULE MCIamPolicy ----------------------------
(***************************************************************************)
(* Small instances of IamPolicy: one project with two clusters, each with  *)
(* one service account, and the placeholders of a service account and of   *)
(* the requester.  The template grants the service account one of the two  *)
(* roles.  The first policy holds a leftover binding of cluster c1 that    *)
(* the template does not grant.                                            *)
(***************************************************************************)
EXTENDS IamPolicy, FiniteSets, TLC

CONSTANTS p1, c1, c2, sa1, sa2, user, bot, other, editor, viewer,
          admin, iap, r1, r2, r3

MCProject == {p1}
MCCluster == {c1, c2}
MCMember == {sa1, sa2, user, bot, other}
MCRole == {editor, viewer}
MCPlaceholder == {admin, iap}
MCAccount == (c1 :> (admin :> sa1)) @@ (c2 :> (admin :> sa2))
MCIamConf == {<<admin, editor>>, <<iap, viewer>>}

Bind == [op |-> "bind", project |-> p1, cluster |-> c1, member |-> bot]
Add(c) == [op |-> "add", project |-> p1, cluster |-> c, member |-> user]
Remove(c) == [op |-> "remove", project |-> p1, cluster |-> c, member |-> user]

MCJob == {Bind, Add(c1), Remove(c1), Add(c2)}

\* The pairs that can meet, each in one order of the requests.
MCPairs == {<<Bind, Add(c1)>>, <<Add(c1), Remove(c1)>>, <<Add(c1), Add(c2)>>}

MCInit ==
    /\ Init
    /\ <<job[r1], job[r2]>> \in MCPairs
    /\ policy[p1] = (editor :> {other}) @@ (viewer :> {sa1, other})

MCSpec == MCInit /\ [][Next]_vars
MCFairSpec == MCInit /\ [][Next]_vars /\ \A r \in Request : WF_vars(Step(r))
=============================================================================
