------------------------------ MODULE Deploy ------------------------------
(***************************************************************************)
(* How the deploy server brings up one Kubeflow deployment: the            *)
(* /kfctl/e2eDeploy endpoint inserts deployment-manager deployments        *)
(* (makeDeployEndpoint, InsertDeployment), and a goroutine waits for them  *)
(* and sets the cluster up (finishDeployment, checkDeploymentFinished in   *)
(* bootstrap/cmd/bootstrap/app/ksServer.go; ConfigCluster, InsertSaKey in  *)
(* saKey.go).                                                              *)
(*                                                                         *)
(* Here several requests, concurrent or repeated, name the same deployment *)
(* of one project.  Deployment manager works on its own and may fail, the  *)
(* user may delete what it made and ask again, any call may fail or lose   *)
(* its answer, and a restart forgets every goroutine.                      *)
(***************************************************************************)
EXTENDS Naturals

CONSTANTS
    Request,
    NoRequest,
    Job,          \* what requests ask for: storage, a login, the app applied
    MaxPolls,     \* polls of a deployment before the server stops waiting
    MaxDeletes,   \* bound: deletions of a deployment by the user
    MaxRestarts   \* bound: restarts of the server

ASSUME DeployAssumption ==
    /\ NoRequest \notin Request
    /\ Job \subseteq [storage: BOOLEAN, login: BOOLEAN, apply: BOOLEAN]
    /\ MaxPolls \in Nat \ {0}
    /\ MaxDeletes \in Nat
    /\ MaxRestarts \in Nat

Kind    == {"cluster", "storage"}
Account == {"admin", "user"}
Code    == {"OK", "INTERNAL", "INVALID_ARGUMENT"}

(***************************************************************************)
(* The stages of a request, each followed by the next unless the request   *)
(* did not ask for it.  Most stages bear the name of what they create.     *)
(***************************************************************************)
Follow == [insertStorage |-> "insertCluster", insertCluster |-> "pollCluster",
           pollCluster |-> "pollStorage", pollStorage |-> "iam",
           iam |-> "connect", connect |-> "ns", ns |-> "oauth",
           oauth |-> "login", login |-> "adminKey",
           adminKey |-> "adminSecret", adminSecret |-> "userKey",
           userKey |-> "userSecret", userSecret |-> "bind",
           bind |-> "istio", istio |-> "find", find |-> "app"]

Stage == {"insertStorage", "insertCluster", "pollCluster", "pollStorage",
          "iam", "connect", "ns", "oauth", "login", "adminKey", "adminSecret",
          "userKey", "userSecret", "bind", "istio", "find", "app"}

\* Stages that run under the project's lock; a key's goes on to its secret.
Locked == {"iam", "adminKey", "userKey", "app"}

Object == {"ns", "oauth", "login", "adminSecret", "userSecret", "bind",
           "istio", "app"}
InNamespace == {"oauth", "login", "adminSecret", "userSecret"}

VARIABLES
    dm,        \* dm[k]: deployment manager's deployment of kind k
    cluster,   \* which cluster of that name this is: deletions so far + 1
    owner,     \* owner[o]: the request that made object o of this cluster
    keys,      \* keys[a]: requests that made a key of service account a
    lock,      \* the request that holds the project's mutex
    job,       \* job[r]: what r asks for
    installIstio,   \* the server's flag --install-istio
    pc,        \* pc[r]: the stage r is at
    polls,     \* polls[r]: status calls of this wait so far
    on,        \* on[r]: the cluster that r's client talks to, 0 for none
    count,     \* count[r]: what r added to deploy_requests, for each code
    overrun,   \* history: waits of r that ran out and were taken for done
    sawDone,   \* history: kinds of which r saw the status DONE, no error
    deletes, restarts   \* so far (bounds)

vars == <<dm, cluster, owner, keys, lock, job, installIstio, pc, polls, on, count, overrun,
          sawDone, deletes, restarts>>
history == <<overrun, sawDone>>
bounds == <<deletes, restarts>>
world == <<dm, cluster, owner, keys>>
given == <<job, installIstio>>

TypeOK ==
    /\ dm \in [Kind -> {"absent", "running", "done", "failed"}]
    /\ cluster \in Nat \ {0}
    /\ owner \in [Object -> Request \union {NoRequest}]
    /\ keys \in [Account -> SUBSET Request]
    /\ lock \in Request \union {NoRequest}
    /\ job \in [Request -> Job]
    /\ installIstio \in BOOLEAN
    /\ pc \in [Request -> Stage \union {"idle", "done", "lost"}]
    /\ polls \in [Request -> 0 .. (MaxPolls - 1)]
    /\ on \in [Request -> Nat]
    /\ count \in [Request -> [Code -> Nat]]
    /\ overrun \in [Request -> Nat]
    /\ sawDone \in [Request -> SUBSET Kind]
    /\ deletes \in 0 .. MaxDeletes
    /\ restarts \in 0 .. MaxRestarts

Init ==
    /\ dm = [k \in Kind |-> "absent"]
    /\ cluster = 1
    /\ owner = [o \in Object |-> NoRequest]
    /\ keys = [a \in Account |-> {}]
    /\ lock = NoRequest
    /\ job \in [Request -> Job]
    /\ installIstio \in BOOLEAN
    /\ pc = [r \in Request |-> "idle"]
    /\ polls = [r \in Request |-> 0]
    /\ on = [r \in Request |-> 0]
    /\ count = [r \in Request |-> [c \in Code |-> 0]]
    /\ overrun = [r \in Request |-> 0]
    /\ sawDone = [r \in Request |-> {}]
    /\ deletes = 0
    /\ restarts = 0

Then(r, s) ==
    IF \/ Follow[s] = "login" /\ ~ job[r].login
       \/ Follow[s] = "pollStorage" /\ ~ job[r].storage
    THEN Follow[Follow[s]]
    ELSE Follow[s]

Goto(r, s) ==
    /\ pc' = [pc EXCEPT ![r] = s]
    /\ polls' = [polls EXCEPT ![r] = 0]

\* The stage of r succeeds: on to the next one.
Proceed(r) ==
    /\ Goto(r, Then(r, pc[r]))
    /\ UNCHANGED count

\* The stage of r ends the request, which is counted under code c.
End(r, c) ==
    /\ Goto(r, "done")
    /\ count' = [count EXCEPT ![r][c] = @ + 1]

Holds(r) == lock = r
Unlock == lock' = NoRequest
----------------------------------------------------------------------------
(***************************************************************************)
(* The endpoint.  A request without a name or a project is refused.  The   *)
(* storage's deployment, if any, is inserted before the cluster's.         *)
(***************************************************************************)
Start(r) ==
    /\ pc[r] = "idle"
    /\ \/ /\ Goto(r, IF job[r].storage THEN "insertStorage" ELSE "insertCluster")
          /\ UNCHANGED count
       \/ End(r, "INVALID_ARGUMENT")
    /\ UNCHANGED <<world, lock, given, on, history, bounds>>

KindAt(s) == IF s \in {"insertStorage", "pollStorage"} THEN "storage" ELSE "cluster"

\* Deployment manager takes a name it does not have yet.
Insert(r) ==
    LET k == KindAt(pc[r]) IN
    /\ pc[r] \in {"insertStorage", "insertCluster"}
    /\ dm[k] = "absent"
    /\ dm' = [dm EXCEPT ![k] = "running"]
    /\ Proceed(r)
    /\ UNCHANGED <<cluster, owner, keys, lock, given, on, history, bounds>>

(***************************************************************************)
(* The insertion fails before the call (INTERNAL) or in it: the name is    *)
(* taken, another error, or an answer that got lost.  What a request has   *)
(* inserted before stays.                                                  *)
(***************************************************************************)
InsertFails(r) ==
    LET k == KindAt(pc[r]) IN
    /\ pc[r] \in {"insertStorage", "insertCluster"}
    /\ \/ /\ End(r, "INTERNAL")
          /\ UNCHANGED dm
       \/ /\ End(r, "INVALID_ARGUMENT")
          /\ \/ UNCHANGED dm
             \/ /\ dm[k] = "absent"
                /\ dm' = [dm EXCEPT ![k] = "running"]
    /\ UNCHANGED <<cluster, owner, keys, lock, given, on, history, bounds>>
----------------------------------------------------------------------------
\* Mutant: one poll too many.
LastPollLate(r) == polls[r] = MaxPolls

(***************************************************************************)
(* checkDeploymentFinished.  A wait that runs out is counted INTERNAL; it  *)
(* returns the error of the last status call, and that is nil when the     *)
(* call was answered: then the caller goes on as if all was done.          *)
(***************************************************************************)
LastPoll(r) == polls[r] + 1 = MaxPolls

PollAgain(r) ==
    /\ ~ LastPoll(r)
    /\ polls' = [polls EXCEPT ![r] = @ + 1]
    /\ UNCHANGED <<pc, count, history>>

PollAnswered(r) ==
    LET k == KindAt(pc[r]) IN
    \/ /\ dm[k] = "running"
       /\ \/ PollAgain(r)
          \/ /\ LastPoll(r)
             /\ Goto(r, Then(r, pc[r]))
             /\ count' = [count EXCEPT ![r]["INTERNAL"] = @ + 1]
             /\ overrun' = [overrun EXCEPT ![r] = @ + 1]
             /\ UNCHANGED sawDone
    \/ /\ dm[k] = "done"
       /\ Proceed(r)
       /\ sawDone' = [sawDone EXCEPT ![r] = @ \union {k}]
       /\ UNCHANGED overrun
    \/ /\ dm[k] = "failed"
       /\ End(r, "INVALID_ARGUMENT")
       /\ UNCHANGED history

\* Mutant: a wait that fails is not counted.
PollFailsUncounted(r) ==
    \/ PollAgain(r)
    \/ /\ LastPoll(r)
       /\ Goto(r, "done")
       /\ UNCHANGED <<count, history>>

PollFails(r) ==
    \/ PollAgain(r)
    \/ /\ LastPoll(r)
       /\ End(r, "INTERNAL")
       /\ UNCHANGED history

Poll(r) ==
    /\ pc[r] \in {"pollCluster", "pollStorage"}
    /\ PollAnswered(r) \/ PollFails(r)
    /\ UNCHANGED <<world, lock, given, on, bounds>>
----------------------------------------------------------------------------
GetProjectLock(r) ==
    /\ pc[r] \in Locked
    /\ lock = NoRequest
    /\ lock' = r
    /\ UNCHANGED <<world, given, pc, polls, on, count, history, bounds>>

\* ApplyIamPolicy, whose nil may also mean that nothing was stored.
PatchIam(r) ==
    /\ pc[r] = "iam"
    /\ Holds(r)
    /\ Proceed(r) \/ End(r, "INTERNAL")
    /\ Unlock
    /\ UNCHANGED <<world, given, on, history, bounds>>

\* ConfigCluster looks the cluster up.  It may be there before all is done.
Connect(r) ==
    /\ pc[r] = "connect"
    /\ \/ /\ dm["cluster"] # "absent"
          /\ on' = [on EXCEPT ![r] = cluster]
          /\ Proceed(r)
       \/ /\ End(r, "INTERNAL")
          /\ UNCHANGED on
    /\ UNCHANGED <<world, lock, given, history, bounds>>

(***************************************************************************)
(* Creating an object of r's cluster: refused when there is one of that    *)
(* name, when its namespace is missing, or when the cluster is gone.       *)
(***************************************************************************)
Creatable(r, o) ==
    /\ on[r] = cluster
    /\ owner[o] = NoRequest
    /\ o \in InNamespace => owner["ns"] # NoRequest

Made(r, o) == owner' = [owner EXCEPT ![o] = r]

\* Mutant: an object that exists already will do.
CreateOrUse(r) ==
    /\ pc[r] \in {"ns", "oauth", "login", "bind"}
    /\ on[r] = cluster
    /\ owner' = [owner EXCEPT ![pc[r]] = IF @ = NoRequest THEN r ELSE @]
    /\ Proceed(r)
    /\ UNCHANGED <<dm, cluster, keys, lock, given, on, history, bounds>>

Create(r) ==
    /\ pc[r] \in {"ns", "oauth", "login", "bind"}
    /\ Creatable(r, pc[r])
    /\ Made(r, pc[r])
    /\ Proceed(r)
    /\ UNCHANGED <<dm, cluster, keys, lock, given, on, history, bounds>>

\* Mutant: the error is only logged.
CreateFailsLogged(r) ==
    /\ pc[r] \in {"ns", "oauth", "login", "bind"}
    /\ Proceed(r)
    /\ UNCHANGED <<world, lock, given, on, history, bounds>>

\* Refused, failed, or done without an answer.
CreateFails(r) ==
    /\ pc[r] \in {"ns", "oauth", "login", "bind"}
    /\ \/ UNCHANGED owner
       \/ Creatable(r, pc[r]) /\ Made(r, pc[r])
    /\ End(r, "INTERNAL")
    /\ UNCHANGED <<dm, cluster, keys, lock, given, on, history, bounds>>

AccountAt(s) == IF s \in {"adminKey", "adminSecret"} THEN "admin" ELSE "user"

\* InsertSaKey: a key of the account, which comes and goes with the cluster.
CreateKey(r) ==
    /\ pc[r] \in {"adminKey", "userKey"}
    /\ Holds(r)
    /\ dm["cluster"] # "absent"
    /\ keys' = [keys EXCEPT ![AccountAt(pc[r])] = @ \union {r}]
    /\ \/ Proceed(r) /\ UNCHANGED lock
       \/ End(r, "INTERNAL") /\ Unlock
    /\ UNCHANGED <<dm, cluster, owner, given, on, history, bounds>>

\* Mutant: the secret is written although there is no key.
CreateKeyFailsLogged(r) ==
    /\ pc[r] \in {"adminKey", "userKey"}
    /\ Holds(r)
    /\ Proceed(r)
    /\ UNCHANGED <<world, lock, given, on, history, bounds>>

\* No key was made.  (That one was made unanswered is a case of CreateKey.)
CreateKeyFails(r) ==
    /\ pc[r] \in {"adminKey", "userKey"}
    /\ Holds(r)
    /\ End(r, "INTERNAL")
    /\ Unlock
    /\ UNCHANGED <<world, given, on, history, bounds>>

\* Mutant: a failure keeps the lock.
StoreKeyLocked(r) ==
    /\ pc[r] \in {"adminSecret", "userSecret"}
    /\ \/ /\ Creatable(r, pc[r])
          /\ Made(r, pc[r])
          /\ Proceed(r)
          /\ Unlock
       \/ /\ End(r, "INTERNAL")
          /\ UNCHANGED <<owner, lock>>
    /\ UNCHANGED <<dm, cluster, keys, given, on, history, bounds>>

\* Mutant: a key that could not be stored is only logged.
StoreKeyFailsLogged(r) ==
    /\ pc[r] \in {"adminSecret", "userSecret"}
    /\ \/ Creatable(r, pc[r]) /\ Made(r, pc[r])
       \/ UNCHANGED owner
    /\ Proceed(r)
    /\ Unlock
    /\ UNCHANGED <<dm, cluster, keys, given, on, history, bounds>>

\* The secret that keeps the key.  Without it the key is lost.
StoreKey(r) ==
    /\ pc[r] \in {"adminSecret", "userSecret"}
    /\ \/ /\ Creatable(r, pc[r])
          /\ Made(r, pc[r])
          /\ Proceed(r) \/ End(r, "INTERNAL")
       \/ /\ End(r, "INTERNAL")
          /\ UNCHANGED owner
    /\ Unlock
    /\ UNCHANGED <<dm, cluster, keys, given, on, history, bounds>>

(***************************************************************************)
(* InstallIstio, if the server is to install it, looks the cluster up anew *)
(* and keeps what it finds there.  A failed one may have installed all.    *)
(***************************************************************************)
InstallIstio(r) ==
    /\ pc[r] = "istio"
    /\ \/ /\ ~ installIstio
          /\ Proceed(r)
          /\ UNCHANGED owner
       \/ /\ installIstio
          /\ dm["cluster"] # "absent"
          /\ owner' = [owner EXCEPT !["istio"] = IF @ = NoRequest THEN r ELSE @]
          /\ Proceed(r) \/ End(r, "INTERNAL")
       \/ /\ installIstio
          /\ End(r, "INTERNAL")
          /\ UNCHANGED owner
    /\ UNCHANGED <<dm, cluster, keys, lock, given, on, history, bounds>>

\* CreateApp looks the cluster up before it asks for the lock.
FindCluster(r) ==
    /\ pc[r] = "find"
    /\ \/ dm["cluster"] # "absent" /\ Proceed(r)
       \/ End(r, "INTERNAL")
    /\ UNCHANGED <<world, lock, given, on, history, bounds>>

(***************************************************************************)
(* CreateApp: see AppRepo.  It applies the app, to a cluster it looks up   *)
(* again, if the request says so.  A failed one may have applied it.       *)
(***************************************************************************)
CreateApp(r) ==
    /\ pc[r] = "app"
    /\ Holds(r)
    /\ \/ /\ job[r].apply
          /\ dm["cluster"] # "absent"
          /\ Made(r, "app")
          /\ End(r, "OK") \/ End(r, "INTERNAL")
       \/ /\ ~ job[r].apply
          /\ End(r, "OK")
          /\ UNCHANGED owner
       \/ /\ End(r, "INTERNAL")
          /\ UNCHANGED owner
    /\ Unlock
    /\ UNCHANGED <<dm, cluster, keys, given, on, history, bounds>>
----------------------------------------------------------------------------
(* The server's surroundings *)

DeploymentEnds(k) ==
    /\ dm[k] = "running"
    /\ \E s \in {"done", "failed"} : dm' = [dm EXCEPT ![k] = s]
    /\ UNCHANGED <<cluster, owner, keys, lock, given, pc, polls, on, count,
                   history, bounds>>

\* The user deletes a deployment; the cluster's takes all of it along.
Delete(k) ==
    /\ dm[k] # "absent"
    /\ deletes < MaxDeletes
    /\ deletes' = deletes + 1
    /\ dm' = [dm EXCEPT ![k] = "absent"]
    /\ IF k = "cluster"
       THEN /\ cluster' = cluster + 1
            /\ owner' = [o \in Object |-> NoRequest]
            /\ keys' = [a \in Account |-> {}]
       ELSE UNCHANGED <<cluster, owner, keys>>
    /\ UNCHANGED <<lock, given, pc, polls, on, count, history, restarts>>

\* Requests and goroutines live in memory only.
Restart ==
    /\ restarts < MaxRestarts
    /\ restarts' = restarts + 1
    /\ pc' = [r \in Request |-> IF pc[r] \in Stage THEN "lost" ELSE pc[r]]
    /\ polls' = [r \in Request |-> 0]
    /\ lock' = NoRequest
    /\ UNCHANGED <<world, given, on, count, history, deletes>>

Step(r) ==
    \/ Start(r) \/ Insert(r) \/ InsertFails(r) \/ Poll(r)
    \/ GetProjectLock(r) \/ PatchIam(r) \/ Connect(r)
    \/ Create(r) \/ CreateFails(r)
    \/ CreateKey(r) \/ CreateKeyFails(r) \/ StoreKey(r)
    \/ InstallIstio(r) \/ FindCluster(r) \/ CreateApp(r)

Next ==
    \/ \E r \in Request : Step(r)
    \/ \E k \in Kind : DeploymentEnds(k) \/ Delete(k)
    \/ Restart

Spec == Init /\ [][Next]_vars

\* Goroutines that can run do run; nothing is asked of deployment manager.
FairSpec == Spec /\ \A r \in Request : WF_vars(Step(r))
----------------------------------------------------------------------------
(* Properties *)

(***************************************************************************)
(* Keys that no secret holds do not pile up unseen.  A key is in its       *)
(* secret, or in the hands of a request that is about to write the secret, *)
(* or it was lost by a request that failed or that a restart forgot: never *)
(* by one counted OK.  And of the requests with a client for the present   *)
(* cluster only one makes keys of its accounts, as the others stop at the  *)
(* namespace.  (A request that still has its client for a deleted cluster  *)
(* makes a key of the new account of that name, and fails at the secret.)  *)
(***************************************************************************)
SecretOf(a) == IF a = "admin" THEN "adminSecret" ELSE "userSecret"

KeyKnown(a, r) ==
    \/ owner[SecretOf(a)] = r
    \/ pc[r] \in {SecretOf(a), "lost"}
    \/ pc[r] = "done" /\ count[r]["OK"] = 0

KeysAccountedFor ==
    \A a \in Account : \A r \in keys[a] :
        /\ KeyKnown(a, r)
        /\ \A s \in keys[a] : on[r] = cluster /\ on[s] = cluster => r = s

\* A secret of the cluster holds a key that its service account still has.
SecretHoldsKey ==
    /\ owner["adminSecret"] # NoRequest => owner["adminSecret"] \in keys["admin"]
    /\ owner["userSecret"] # NoRequest => owner["userSecret"] \in keys["user"]

(***************************************************************************)
(* A deployment counted as done is complete, and all of one piece: unless  *)
(* the cluster it configured has been replaced since, everything that      *)
(* ConfigCluster makes was made for that request, istio is there if the    *)
(* server installs it, and the app if the request had it applied.          *)
(***************************************************************************)
Wanted(r) == {"ns", "oauth", "adminSecret", "userSecret", "bind"}
               \union (IF job[r].login THEN {"login"} ELSE {})

OkMeansComplete ==
    \A r \in Request : count[r]["OK"] > 0 /\ on[r] = cluster =>
        /\ \A o \in Wanted(r) : owner[o] = r
        /\ installIstio => owner["istio"] # NoRequest
        /\ job[r].apply => owner["app"] # NoRequest

(***************************************************************************)
(* Every request the server does not forget is counted once when it ends,  *)
(* and before that once for every wait that ran out and was then ignored.  *)
(***************************************************************************)
Total(r) == count[r]["OK"] + count[r]["INTERNAL"] + count[r]["INVALID_ARGUMENT"]

CountedOnce ==
    \A r \in Request :
        Total(r) = overrun[r] + (IF pc[r] = "done" THEN 1 ELSE 0)

----------------------------------------------------------------------------
(***************************************************************************)
(* Why they hold.  A request that reaches a cluster as its first, by       *)
(* creating the namespace, keeps it to itself: what it has passed is its   *)
(* own as long as that cluster lives.                                      *)
(***************************************************************************)
Unconnected == {"idle", "insertStorage", "insertCluster", "pollCluster",
                "pollStorage", "iam", "connect"}
PastBind        == {"istio", "find", "app"}
PastUserSecret  == {"bind"} \union PastBind
PastAdminSecret == {"userKey", "userSecret"} \union PastUserSecret
PastLogin       == {"adminKey", "adminSecret"} \union PastAdminSecret
PastOauth       == {"login"} \union PastLogin
PastNs          == {"oauth"} \union PastOauth

\* A request has a client for no cluster to come, and no key without one.
Connected ==
    \A r \in Request :
        /\ on[r] <= cluster
        /\ pc[r] \in Unconnected => on[r] = 0 /\ \A a \in Account : r \notin keys[a]

\* What a request has passed was made for it.
Built ==
    \A r \in Request : on[r] = cluster =>
        /\ pc[r] \in PastNs => owner["ns"] = r
        /\ pc[r] \in PastOauth => owner["oauth"] = r
        /\ pc[r] \in PastLogin /\ job[r].login => owner["login"] = r
        /\ pc[r] \in PastAdminSecret => owner["adminSecret"] = r
        /\ pc[r] \in PastUserSecret => owner["userSecret"] = r
        /\ pc[r] \in PastBind => owner["bind"] = r
        /\ installIstio /\ pc[r] \in {"find", "app"} => owner["istio"] # NoRequest

\* Only who made the namespace makes keys, and has one in hand to store.
KeysOfOwner ==
    /\ \A a \in Account : \A r \in keys[a] : on[r] = cluster => owner["ns"] = r
    /\ \A r \in Request : on[r] = cluster =>
         /\ pc[r] = "adminSecret" => r \in keys["admin"]
         /\ pc[r] = "userSecret" => r \in keys["user"]

KeysKnown == \A a \in Account : \A r \in keys[a] : KeyKnown(a, r)

OkEnds == \A r \in Request : count[r]["OK"] > 0 => pc[r] = "done"

IndInv == /\ TypeOK /\ Connected /\ Built /\ KeysOfOwner /\ KeysKnown
          /\ SecretHoldsKey /\ OkEnds /\ OkMeansComplete /\ CountedOnce
----------------------------------------------------------------------------
\* A request that was accepted ends, unless a restart forgets it.
Ends == \A r \in Request : pc[r] \in Stage ~> pc[r] \in {"done", "lost"}

(***************************************************************************)
(* "Deployment is done" (ksServer.go:1239), and with it the counter of     *)
(* "successfully finished Kubeflow deployments" (ksServer.go:313), are     *)
(* only reached when every deployment inserted was seen DONE.  Expected to *)
(* fail: a wait that ran out returns nil.                                  *)
(***************************************************************************)
OkMeansDone ==
    \A r \in Request : count[r]["OK"] > 0 =>
        sawDone[r] = {"cluster"} \union (IF job[r].storage THEN {"storage"} ELSE {})
=============================================================================
