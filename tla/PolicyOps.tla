----------------------------- MODULE PolicyOps -----------------------------
(***************************************************************************)
(* A project's IAM policy and the functions the deploy server applies to   *)
(* it (bootstrap/cmd/bootstrap/app/gcpUtils.go, initHandler.go).  A policy *)
(* is a function from roles to sets of members: the service keeps one      *)
(* binding per role, which is what BindRole's append relies on.            *)
(***************************************************************************)

CONSTANTS
    Project,      \* Google Cloud projects
    Request,      \* requests a server process handles
    Role,         \* IAM roles
    Member,       \* identities a policy can name
    Cluster,      \* cluster names, from which service accounts are named
    Placeholder,  \* the account placeholders of iam_bindings_template.yaml
    IapAccount,   \* the placeholder that stands for the requester's e-mail
    Account,      \* Account[c][n]: the service account of cluster c for n
    IamConf,      \* the template: pairs <<placeholder, role>>
    AdminRole,    \* IAM_ADMIN_ROLE, the role BindRole grants
    Job           \* the requests' contents

ServiceName == Placeholder \ {IapAccount}

ASSUME PolicyAssumption ==
    /\ IapAccount \in Placeholder
    /\ Account \in [Cluster -> [ServiceName -> Member]]
    /\ IamConf \subseteq (Placeholder \X Role)
    /\ AdminRole \in Role
    /\ Job \subseteq [op: {"bind", "add", "remove"}, project: Project,
                      cluster: Cluster, member: Member]

(***************************************************************************)
(* The three service accounts ClearServiceAccountPolicy names for a        *)
(* cluster, "<cluster>-admin@...", "-user@..." and "-vm@...".              *)
(***************************************************************************)
AccountsOf(c) == {Account[c][n] : n \in ServiceName}

(***************************************************************************)
(* The names of a cluster's accounts differ ("-admin", "-user", "-vm"),    *)
(* and nobody deploys a cluster as one of the accounts it will create.     *)
(***************************************************************************)
ASSUME AccountAssumption ==
    /\ \A c \in Cluster : \A m, n \in ServiceName :
         Account[c][m] = Account[c][n] => m = n
    /\ \A j \in Job : j.member \notin AccountsOf(j.cluster)

\* The identity a placeholder of the template stands for (saMapping).
Actual(j, n) == IF n = IapAccount THEN j.member ELSE Account[j.cluster][n]

\* The members the template binds to a role on behalf of job j.
Named(j, role) ==
    {Actual(j, n) : n \in {m \in Placeholder : <<m, role>> \in IamConf}}

\* Mutant: only the roles the template grants an account are cleared.
ClearedTemplateRoles(pol, j) ==
    [role \in Role |->
        IF \E n \in ServiceName : <<n, role>> \in IamConf
        THEN pol[role] \ AccountsOf(j.cluster) ELSE pol[role]]

\* ClearServiceAccountPolicy: every role loses the cluster's accounts.
Cleared(pol, j) == [role \in Role |-> pol[role] \ AccountsOf(j.cluster)]

\* UpdatePolicy: the template's bindings are added, or taken away.
Updated(pol, j) ==
    [role \in Role |-> IF j.op = "add" THEN pol[role] \union Named(j, role)
                                       ELSE pol[role] \ Named(j, role)]

\* BindRole: one binding is appended.
Bound(pol, j) == [pol EXCEPT ![AdminRole] = @ \union {j.member}]

Edit == {"clear", "update", "bind"}

Edited(pol, j, e) ==
    CASE e = "clear"  -> Cleared(pol, j)
      [] e = "update" -> Updated(pol, j)
      [] e = "bind"   -> Bound(pol, j)

\* The edits a request makes, and those an "ok" answers for.
EditsOf(j)    == IF j.op = "bind" THEN {"bind"} ELSE {"clear", "update"}
AnsweredBy(j) == IF j.op = "bind" THEN {"bind"} ELSE {"clear"}
=============================================================================
