---------------------------- MODULE PolicyEdits ----------------------------
(***************************************************************************)
(* What the deploy server promises about a project's IAM policy.           *)
(*                                                                         *)
(* A policy is edited only by whole edits, each of them a function of the  *)
(* policy as it is at that instant: nothing another editor stored is ever  *)
(* overwritten from an older copy.  A request that answers "ok" made the   *)
(* edits it answers for, in their order.  How the policy is read, held and *)
(* written back is left to the module IamPolicy, which implements this one.*)
(***************************************************************************)

EXTENDS PolicyOps, Naturals

VARIABLES
    policy,   \* policy[p][role]: the members bound to role in project p
    version,  \* version[p]: how often the policy of p was stored
    job,      \* job[r]: what request r asks for
    stored,   \* stored[r][e]: the version edit e of r stored last, or 0
    reply     \* reply[r]: "none", "ok", "error", or "lost" with the server

vars == <<policy, version, job, stored, reply>>

Init ==
    /\ policy \in [Project -> [Role -> SUBSET Member]]
    /\ version = [p \in Project |-> 1]
    /\ job \in [Request -> Job]
    /\ stored = [r \in Request |-> [e \in Edit |-> 0]]
    /\ reply = [r \in Request |-> "none"]

(***************************************************************************)
(* One edit of r, on the policy as it is now, in the order of the request; *)
(* the service may have failed it before and have it repeated.  The last   *)
(* edit of a request whose server is gone may still arrive.                *)
(***************************************************************************)
Apply(r, e) ==
    LET p == job[r].project IN
    /\ reply[r] \in {"none", "lost"}
    /\ e \in EditsOf(job[r])
    /\ e = "update" => stored[r]["clear"] # 0
    /\ policy' = [policy EXCEPT ![p] = Edited(@, job[r], e)]
    /\ version' = [version EXCEPT ![p] = @ + 1]
    /\ stored' = [stored EXCEPT ![r][e] = version[p] + 1]
    /\ UNCHANGED <<job, reply>>

\* The server answers; an "ok" is for edits that were stored.
Reply(r, answer) ==
    /\ reply[r] = "none"
    /\ answer = "ok" => \A e \in AnsweredBy(job[r]) : stored[r][e] # 0
    /\ reply' = [reply EXCEPT ![r] = answer]
    /\ UNCHANGED <<policy, version, job, stored>>

\* The server stops: the requests it was handling get no answer.
Lose ==
    /\ \E lost \in SUBSET {r \in Request : reply[r] = "none"} :
         reply' = [r \in Request |-> IF r \in lost THEN "lost" ELSE reply[r]]
    /\ UNCHANGED <<policy, version, job, stored>>

\* Somebody else stores a policy, made from the one that is there.
Outside(p) ==
    /\ \E pol \in [Role -> SUBSET Member] : policy' = [policy EXCEPT ![p] = pol]
    /\ version' = [version EXCEPT ![p] = @ + 1]
    /\ UNCHANGED <<job, stored, reply>>

Next ==
    \/ \E r \in Request, e \in Edit : Apply(r, e)
    \/ \E r \in Request, answer \in {"ok", "error"} : Reply(r, answer)
    \/ \E p \in Project : Outside(p)
    \/ Lose

Spec == Init /\ [][Next]_vars
=============================================================================
