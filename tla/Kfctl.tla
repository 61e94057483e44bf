------------------------------- MODULE Kfctl -------------------------------
(***************************************************************************)
(* The kfctl command line for the GCP platform: `kfctl apply` and          *)
(* `kfctl delete` of everything, of the platform or of the Kubernetes      *)
(* resources of an application (coordinator.go, gcp.go, ksonnet.go and     *)
(* utils/iamutils.go under bootstrap/pkg).                                 *)
(*                                                                         *)
(* The applications are in one project, and one user runs kfctl on them    *)
(* from one machine, so the commands share the project's IAM policy and    *)
(* the machine's kubeconfig.  Commands overlap, fail at any call, with or  *)
(* without its effect, or are killed; deployment manager and the clusters  *)
(* go on working on what was asked of them.                                *)
(***************************************************************************)
EXTENDS Naturals, Sequences

CONSTANTS
    App,
    Run,           \* shells a command can run in
    Command,       \* the commands the user gives
    Component,     \* the application's ksonnet components
    Extra,         \* optional deployments: network, gcfs
    UseIstio, UseBasicAuth,
    NoApp,         \* a kubeconfig without a current context
    GoneApp,       \* a context whose cluster was deleted
    IapAccount,    \* IapAccount[a]: the account that a lets in, the user's mostly
    Other,         \* all the members of the policy that are no application's
    MaxMoves       \* bound: commands, generations and edits by others

AnyCommand == [verb: {"apply", "delete"}, what: {"all", "platform", "k8s"},
               storage: BOOLEAN]

ASSUME KfctlAssumption ==
    /\ NoApp \notin App /\ GoneApp \notin App /\ NoApp # GoneApp
    /\ Other \notin App
    /\ \A a \in App : IapAccount[a] \notin App \union {Other}
    /\ Command \subseteq AnyCommand
    /\ Extra \subseteq {"network", "gcfs"}
    /\ UseIstio \in BOOLEAN /\ UseBasicAuth \in BOOLEAN
    /\ MaxMoves \in Nat

(***************************************************************************)
(* A command is a sequence of stages, each a pair of what is done and to   *)
(* what.                                                                   *)
(***************************************************************************)
All(verb, objects) == [i \in DOMAIN objects |-> <<verb, objects[i]>>]
Optional(objects, asked) == IF asked THEN objects ELSE << >>

Extras == Optional(<<"network">>, "network" \in Extra)
          \o Optional(<<"gcfs">>, "gcfs" \in Extra)

Updates == All("update", <<"storage", "cluster">> \o Extras)

Removals(storage) ==
    All("remove", <<"cluster">> \o Optional(<<"storage">>, storage) \o Extras)

\* The kubeflow namespace, the admin's binding, istio, and the secrets of the
\* service accounts and of the login.
Makes == All("make",
    <<"namespace", "admin">> \o Optional(<<"istio">>, UseIstio)
    \o <<"adminSecret", "userSecret">>
    \o Optional(<<"istioAdminSecret", "istioUserSecret">>, UseIstio)
    \o <<"loginSecret">>)

ApplyPlatform == Updates \o All("policy", <<"clear", "rewrite">>) \o Makes
                 \o <<<<"credentials", "get">>>>

ApplyK8s == All("k8s", <<"load", "namespace", "components">>)

\* Mutant: the endpoint goes first, while the cluster can still make it.
EndpointFirst(storage) ==
    <<<<"endpoint", "delete">>>> \o Removals(storage) \o <<<<"policy", "clean">>>>

DeletePlatform(storage) ==
    Removals(storage) \o <<<<"policy", "clean">>, <<"endpoint", "delete">>>>

DeleteK8s == All("k8s", <<"load", "dropComponents", "dropNamespace">>)

\* Mutant: the package manager is made when the command begins.
StagesLoadedFirst(c) ==
    IF c.verb = "apply"
    THEN Optional(All("k8s", <<"load">>), c.what # "platform")
         \o Optional(ApplyPlatform, c.what # "k8s")
         \o Optional(Tail(ApplyK8s), c.what # "platform")
    ELSE DeleteK8s \o Optional(DeletePlatform(c.storage), c.what # "k8s")

Stages(c) ==
    IF c.verb = "apply"
    THEN Optional(ApplyPlatform, c.what # "k8s")
         \o Optional(ApplyK8s, c.what # "platform")
    ELSE DeleteK8s \o Optional(DeletePlatform(c.storage), c.what # "k8s")

Object == {Makes[i][2] : i \in DOMAIN Makes} \ {"namespace"}
InNamespace == {"adminSecret", "userSecret"}
               \union (IF UseIstio /\ ~ UseBasicAuth THEN {} ELSE {"loginSecret"})
Deployment == {"storage", "cluster"} \union Extra

Credentials == <<"credentials", "get">>
Load        == <<"k8s", "load">>
Stage == ({"update", "remove"} \X Deployment)
         \union ({"policy"} \X {"clear", "rewrite", "clean"})
         \union ({"make"} \X (Object \union {"namespace"}))
         \union {Credentials, <<"endpoint", "delete">>}
         \union ({"k8s"} \X {"load", "namespace", "components", "dropComponents",
                             "dropNamespace"})

\* An application's own service accounts, which go by its name here, and the
\* account it lets in through IAP, which may be that of several applications.
MembersOf(a) == {a, IapAccount[a]}
Member == {Other} \union UNION {MembersOf(a) : a \in App}

VARIABLES
    gen,        \* gen[a]: the configuration in a's directory
    dm,         \* dm[a][d]: deployment manager's deployment d of a
    kube,       \* kube[a]: what is in a's cluster
    endpoint,   \* applications whose endpoint service exists
    policy,     \* the members the project's IAM policy binds
    context,    \* the cluster the kubeconfig's current context names
    cmd, app,   \* cmd[r], app[r]: what r runs, and on which application
    status,     \* status[r]: "running", or how r's last command ended
    todo,       \* todo[r]: the stages r has left
    mid,        \* runs between the two calls of a stage
    waits,      \* waits[r]: the operation r waits for
    copy,       \* copy[r]: the policy r read
    fresh,      \* runs whose copy has the etag of the present policy
    target,     \* target[r]: the cluster r's package manager talks to
    left,       \* left[r]: components r has still to apply
    alone,      \* history: runs of which no other command saw any part
    sound,      \* history: applications on which, since they were at rest,
                \* only applies began, and none of them failed
    trouble,    \* history: runs for which deleting from Kubernetes failed
    moves       \* so far (bound)

world   == <<gen, dm, kube, endpoint, policy, context>>
local   == <<waits, copy, target, left>>
history == <<alone, sound, trouble>>
vars == <<world, cmd, app, status, todo, mid, local, fresh, history, moves>>

NewCluster == [ns |-> "none", made |-> {}, comps |-> {}]

TypeOK ==
    /\ gen \in [App -> 1 .. (moves + 1)]
    /\ dm \in [App -> [Deployment ->
           [op: {"none", "applying", "deleting", "done"},
            sent: 0 .. (MaxMoves + 1), live: 0 .. (MaxMoves + 1)]]]
    /\ kube \in [App -> [ns: {"none", "active", "terminating"},
                         made: SUBSET Object, comps: SUBSET Component]]
    /\ endpoint \subseteq App
    /\ policy \subseteq Member
    /\ context \in App \union {NoApp, GoneApp}
    /\ cmd \in [Run -> AnyCommand]
    /\ app \in [Run -> App]
    /\ status \in [Run -> {"idle", "running", "ok", "failed"}]
    /\ todo \in [Run -> Seq(Stage)]
    /\ \A r \in Run : /\ status[r] = "running" <=> todo[r] # << >>
                      /\ \A i \in 1 .. Len(todo[r]) : todo[r][i] = Load => i < Len(todo[r])
    /\ mid \subseteq {r \in Run : status[r] = "running"}
    /\ waits \in [Run -> {"running", "ok", "error"}]
    /\ copy \in [Run -> SUBSET Member]
    /\ fresh \subseteq Run
    /\ target \in [Run -> App \union {NoApp, GoneApp}]
    /\ left \in [Run -> SUBSET Component]
    /\ alone \subseteq Run /\ sound \subseteq App /\ trouble \subseteq Run
    /\ moves \in 0 .. MaxMoves

\* Applications were generated, and nothing was applied yet.
Init ==
    /\ gen = [a \in App |-> 1]
    /\ dm = [a \in App |-> [d \in Deployment |-> [op |-> "none", sent |-> 0, live |-> 0]]]
    /\ kube = [a \in App |-> NewCluster]
    /\ endpoint = {}
    /\ policy = {Other}
    /\ context = NoApp
    /\ cmd \in [Run -> {[verb |-> "apply", what |-> "all", storage |-> FALSE]}]
    /\ \E a \in App : app = [r \in Run |-> a]
    /\ status = [r \in Run |-> "idle"]
    /\ todo = [r \in Run |-> << >>]
    /\ mid = {}
    /\ waits = [r \in Run |-> "running"]
    /\ copy = [r \in Run |-> {}]
    /\ fresh = {}
    /\ target = [r \in Run |-> NoApp]
    /\ left = [r \in Run |-> {}]
    /\ alone = {} /\ sound = {} /\ trouble = {}
    /\ moves = 0

(***************************************************************************)
(* How stages end.  After its last stage a command returns nil.  A failed  *)
(* one returns the error, except that deleting the platform begins with    *)
(* Kubernetes and ignores what came of it.                                 *)
(***************************************************************************)
At(r, verb) == status[r] = "running" /\ Head(todo[r])[1] = verb
AtStage(r, verb, object) == status[r] = "running" /\ Head(todo[r]) = <<verb, object>>

Forget(r) ==
    /\ waits' = [waits EXCEPT ![r] = "running"]
    /\ copy' = [copy EXCEPT ![r] = {}]

\* Mutant: a stage is left in the middle.
ProceedMidway(r, stages, end) ==
    /\ todo' = [todo EXCEPT ![r] = stages]
    /\ status' = [status EXCEPT ![r] = IF stages = << >> THEN end ELSE @]
    /\ target' = [target EXCEPT ![r] = IF stages = << >> THEN NoApp ELSE @]
    /\ Forget(r)
    /\ UNCHANGED <<mid, cmd, app, alone, moves>>

Proceed(r, stages, end) ==
    /\ todo' = [todo EXCEPT ![r] = stages]
    /\ status' = [status EXCEPT ![r] = IF stages = << >> THEN end ELSE @]
    /\ mid' = mid \ {r}
    /\ target' = [target EXCEPT ![r] = IF stages = << >> THEN NoApp ELSE @]
    /\ Forget(r)
    /\ UNCHANGED <<cmd, app, alone, moves>>

Done(r) == /\ Proceed(r, Tail(todo[r]), "ok")
           /\ UNCHANGED sound

\* Not where the package manager is made: an error there ends the process.
Ignored(r) == /\ cmd[r].verb = "delete" /\ cmd[r].what = "platform"
              /\ At(r, "k8s") /\ ~ AtStage(r, "k8s", "load")

Fail(r) ==
    /\ Proceed(r, IF Ignored(r) THEN DeletePlatform(cmd[r].storage) ELSE << >>,
               "failed")
    /\ sound' = sound \ {app[r]}

\* The call was carried out; its answer may be lost.
Answer(r) == Done(r) \/ Fail(r)

(***************************************************************************)
(* updateDeployment and deleteDeployment: a call, then blockingWait for an *)
(* operation.  What Get saw can change before the call that follows it;    *)
(* deployment manager then rejects that call.                              *)
(***************************************************************************)
Up(a) == a \in App /\ dm[a]["cluster"].live > 0
Busy(a, d) == dm[a][d].op \in {"applying", "deleting"}

Submit(r, d, op, sent) ==
    /\ dm' = [dm EXCEPT ![app[r]][d].op = op, ![app[r]][d].sent = sent]
    /\ UNCHANGED <<gen, kube, endpoint, policy, context, fresh, left, trouble>>

Wait(r) == /\ mid' = mid \union {r}
           /\ UNCHANGED <<cmd, app, status, todo, waits, copy, target, alone, sound, moves>>

\* Insert or Update with the configuration in the directory.
Send(r, d) ==
    /\ ~ Busy(app[r], d)
    /\ Submit(r, d, "applying", gen[app[r]])
    /\ Wait(r) \/ Fail(r)

\* An operation is under way already: its end is waited for instead.
Join(r, d) ==
    /\ Busy(app[r], d)
    /\ Wait(r)
    /\ UNCHANGED <<world, fresh, left, trouble>>

UpdateDeployment(r) ==
    /\ At(r, "update") /\ r \notin mid
    /\ LET d == Head(todo[r])[2] IN Send(r, d) \/ Join(r, d)

DeleteDeployment(r) ==
    /\ At(r, "remove") /\ r \notin mid
    /\ LET d == Head(todo[r])[2] IN
       \/ /\ dm[app[r]][d].op = "none"
          /\ Done(r)
          /\ UNCHANGED <<world, fresh, left, trouble>>
       \/ /\ dm[app[r]][d].op = "done"
          /\ Submit(r, d, "deleting", 0)
          /\ Wait(r) \/ Fail(r)

\* Mutant: the errors of an operation are logged and no more.
BlockingWaitLogged(r) ==
    /\ At(r, "update") \/ At(r, "remove")
    /\ r \in mid
    /\ waits[r] # "running"
    /\ Done(r)
    /\ UNCHANGED <<world, fresh, left, trouble>>

BlockingWait(r) ==
    /\ At(r, "update") \/ At(r, "remove")
    /\ r \in mid
    /\ \/ waits[r] = "ok" /\ Done(r)
       \/ waits[r] = "error" /\ Fail(r)
    /\ UNCHANGED <<world, fresh, left, trouble>>

(***************************************************************************)
(* The project's policy, read and written back with its etag.  An apply    *)
(* tries again for a minute, here as often as it likes; a delete does not.     *)
(***************************************************************************)
ReadPolicy(r) ==
    /\ At(r, "policy") /\ r \notin mid
    /\ mid' = mid \union {r}
    /\ copy' = [copy EXCEPT ![r] = policy]
    /\ fresh' = fresh \union {r}
    /\ UNCHANGED <<world, cmd, app, status, todo, waits, target, left, history, moves>>

\* ClearIamPolicy, RewriteIamPolicy, and the loop of Delete.  Only the service
\* accounts are ever taken out.
Edit(verb, a, members) ==
    IF verb = "rewrite" THEN members \union MembersOf(a) ELSE members \ {a}

TryAgain(r) == /\ cmd[r].verb = "apply"
               /\ mid' = mid \ {r}
               /\ Forget(r)
               /\ UNCHANGED <<cmd, app, status, todo, target, alone, sound, moves>>

\* Mutant: the policy is written without its etag.
SetIamPolicyBlind(r) ==
    /\ At(r, "policy") /\ r \in mid
    /\ policy' = Edit(Head(todo[r])[2], app[r], copy[r])
    /\ fresh' = {}
    /\ Answer(r) \/ TryAgain(r)
    /\ UNCHANGED <<gen, dm, kube, endpoint, context, left, trouble>>

SetIamPolicy(r) ==
    /\ At(r, "policy") /\ r \in mid /\ r \in fresh
    /\ policy' = Edit(Head(todo[r])[2], app[r], copy[r])
    /\ fresh' = {}
    /\ Answer(r) \/ TryAgain(r)
    /\ UNCHANGED <<gen, dm, kube, endpoint, context, left, trouble>>

PolicyFails(r) ==
    /\ At(r, "policy") /\ r \in mid
    /\ fresh' = fresh \ {r}
    /\ TryAgain(r)
    /\ UNCHANGED <<world, target, left, trouble>>

(***************************************************************************)
(* ConfigK8s, istio and createSecrets in the application's own cluster:    *)
(* what exists is left alone, what does not is created.                    *)
(***************************************************************************)
Exists(a, object) == object \in kube[a].made
Creatable(a, object) == object \in InNamespace => kube[a].ns = "active"

MakeObject(r) ==
    /\ At(r, "make") /\ Up(app[r])
    /\ LET a == app[r]
           object == Head(todo[r])[2]
       IN \/ /\ object = "namespace"
             /\ kube' = [kube EXCEPT ![a].ns = IF @ = "none" THEN "active" ELSE @]
          \/ /\ object # "namespace"
             /\ Exists(a, object) \/ Creatable(a, object)
             /\ kube' = [kube EXCEPT ![a].made = @ \union {object}]
    /\ Answer(r)
    /\ UNCHANGED <<gen, dm, endpoint, policy, context, fresh, left, trouble>>

\* Mutant: a context that is there already stays the current one.
GetCredentialsOnce(r) ==
    /\ AtStage(r, "credentials", "get") /\ Up(app[r])
    /\ context' = IF context = NoApp THEN app[r] ELSE context
    /\ Answer(r)
    /\ UNCHANGED <<gen, dm, kube, endpoint, policy, fresh, left, trouble>>

\* gcloud makes the application's cluster the current context.
GetCredentials(r) ==
    /\ AtStage(r, "credentials", "get") /\ Up(app[r])
    /\ context' = app[r]
    /\ Answer(r)
    /\ UNCHANGED <<gen, dm, kube, endpoint, policy, fresh, left, trouble>>

(***************************************************************************)
(* The ksonnet package manager, in the cluster of the context that was     *)
(* current when it was made.                                               *)
(***************************************************************************)
GetPackageManagers(r) ==
    /\ AtStage(r, "k8s", "load")
    /\ target' = [target EXCEPT ![r] = context]
    /\ todo' = [todo EXCEPT ![r] = Tail(@)]
    /\ UNCHANGED <<world, cmd, app, status, mid, waits, copy, left, fresh,
                   history, moves>>

KsNamespace(r) ==
    /\ AtStage(r, "k8s", "namespace") /\ Up(target[r])
    /\ kube' = [kube EXCEPT ![target[r]].ns = IF @ = "none" THEN "active" ELSE @]
    /\ left' = [left EXCEPT ![r] = Component]
    /\ Answer(r)
    /\ UNCHANGED <<gen, dm, endpoint, policy, context, fresh, trouble>>

\* One RunApply.  In a namespace that is going only what is there can change.
ApplyComponent(r, c) ==
    /\ AtStage(r, "k8s", "components") /\ Up(target[r])
    /\ c \in left[r]
    /\ LET k == kube[target[r]]
       IN k.ns = "active" \/ (k.ns = "terminating" /\ c \in k.comps)
    /\ kube' = [kube EXCEPT ![target[r]].comps = @ \union {c}]
    /\ left' = [left EXCEPT ![r] = @ \ {c}]
    /\ IF left[r] = {c}
       THEN Done(r)
       ELSE UNCHANGED <<cmd, app, status, todo, mid, waits, copy, target, alone,
                         sound, moves>>
    /\ UNCHANGED <<gen, dm, endpoint, policy, context, fresh, trouble>>

\* Without a context Delete returns an error; else RunDelete, of which what
\* goes wrong is logged.
DropComponents(r) ==
    /\ AtStage(r, "k8s", "dropComponents") /\ target[r] # NoApp
    /\ \/ /\ Up(target[r])
          /\ kube' = [kube EXCEPT ![target[r]].comps = {}]
          /\ UNCHANGED trouble
       \/ /\ Up(target[r])
          /\ \E rest \in SUBSET kube[target[r]].comps :
                 kube' = [kube EXCEPT ![target[r]].comps = rest]
          /\ trouble' = trouble \union {r}
       \/ /\ ~ Up(target[r])
          /\ UNCHANGED kube
          /\ trouble' = trouble \union {r}
    /\ Done(r)
    /\ UNCHANGED <<gen, dm, endpoint, policy, context, fresh, left>>

\* A namespace that cannot be read is taken for one that does not exist.
DropNamespace(r) ==
    /\ AtStage(r, "k8s", "dropNamespace")
    /\ \/ /\ Up(target[r])
          /\ kube' = [kube EXCEPT ![target[r]].ns =
                         IF @ = "none" THEN "none" ELSE "terminating"]
          /\ UNCHANGED trouble
          /\ Answer(r)
       \/ /\ UNCHANGED kube
          /\ trouble' = trouble \union {r}
          /\ Done(r)
    /\ UNCHANGED <<gen, dm, endpoint, policy, context, fresh, left>>

DeleteEndpoints(r) ==
    /\ AtStage(r, "endpoint", "delete")
    /\ endpoint' = endpoint \ {app[r]}
    /\ Answer(r)
    /\ UNCHANGED <<gen, dm, kube, policy, context, fresh, left, trouble>>

\* Any call may fail without an effect, a wait or a retry may last too long,
\* a context or a cluster may not be there.
CallFails(r) ==
    /\ status[r] = "running"
    /\ AtStage(r, "k8s", "dropComponents") => target[r] = NoApp
    /\ Fail(r)
    /\ fresh' = fresh \ {r}
    /\ trouble' = IF At(r, "k8s") /\ cmd[r].verb = "delete"
                  THEN trouble \union {r} ELSE trouble
    /\ UNCHANGED <<world, left>>

(***************************************************************************)
(* The user.                                                               *)
(***************************************************************************)
Move == moves < MaxMoves /\ moves' = moves + 1

Running == {r \in Run : status[r] = "running"}

AtRest(a) ==
    /\ \A r \in Running : app[r] # a /\ cmd[r].verb # "delete"
    /\ \A d \in Deployment : ~ Busy(a, d)
    /\ kube[a].ns # "terminating"

Sound(c, a) ==
    IF c.verb = "delete" THEN {}
    ELSE IF c.what # "k8s" /\ AtRest(a) THEN sound \union {a} ELSE sound

Start(r, c, a) ==
    /\ status[r] # "running"
    /\ Move
    /\ cmd' = [cmd EXCEPT ![r] = c]
    /\ app' = [app EXCEPT ![r] = a]
    /\ status' = [status EXCEPT ![r] = "running"]
    /\ todo' = [todo EXCEPT ![r] = Stages(c)]
    /\ target' = [target EXCEPT ![r] = NoApp]
    /\ left' = [left EXCEPT ![r] = {}]
    /\ alone' = IF Running = {} THEN {r} ELSE {}
    /\ sound' = Sound(c, a)
    /\ trouble' = trouble \ {r}
    /\ UNCHANGED <<world, mid, waits, copy, fresh>>

Kill(r) ==
    /\ status[r] = "running"
    /\ status' = [status EXCEPT ![r] = "failed"]
    /\ todo' = [todo EXCEPT ![r] = << >>]
    /\ mid' = mid \ {r}
    /\ Forget(r)
    /\ fresh' = fresh \ {r}
    /\ sound' = sound \ {app[r]}
    /\ target' = [target EXCEPT ![r] = NoApp]
    /\ UNCHANGED <<world, cmd, app, left, alone, trouble, moves>>

\* kfctl generate, or an edit of the generated files.
Generate(a) ==
    /\ Move
    /\ gen' = [gen EXCEPT ![a] = @ + 1]
    /\ sound' = sound \ {a}
    /\ UNCHANGED <<dm, kube, endpoint, policy, context, cmd, app, status, todo, mid,
                   local, fresh, alone, trouble>>

(***************************************************************************)
(* Deployment manager, the clusters, and others who edit the policy.       *)
(***************************************************************************)
Waiting(a, d) == {r \in mid : app[r] = a /\ Head(todo[r]) \in
                                 {<<"update", d>>, <<"remove", d>>}}
Gone(a) == [r \in Run |-> IF target[r] = a THEN GoneApp ELSE target[r]]

OpEnds(a, d, ok) ==
    /\ Busy(a, d)
    /\ LET was == dm[a][d]
           deleting == was.op = "deleting"
           live == IF ok THEN was.sent ELSE was.live
       IN /\ dm' = [dm EXCEPT ![a][d] =
                      [op |-> IF ok /\ deleting THEN "none" ELSE "done",
                       sent |-> IF ok THEN was.sent ELSE 0, live |-> live]]
          /\ IF d = "cluster" /\ was.live > 0 /\ live = 0
             THEN /\ kube' = [kube EXCEPT ![a] = NewCluster]
                  /\ context' = IF context = a THEN GoneApp ELSE context
                  /\ target' = Gone(a)
             ELSE UNCHANGED <<kube, context, target>>
    /\ waits' = [r \in Run |-> IF r \in Waiting(a, d) /\ waits[r] = "running"
                               THEN IF ok THEN "ok" ELSE "error"
                               ELSE waits[r]]
    /\ UNCHANGED <<gen, endpoint, policy, cmd, app, status, todo, mid, copy, fresh,
                   left, history, moves>>

NamespaceGone(a) ==
    /\ kube[a].ns = "terminating"
    /\ kube' = [kube EXCEPT ![a] = [ns |-> "none", made |-> @.made \ InNamespace,
                                    comps |-> {}]]
    /\ UNCHANGED <<gen, dm, endpoint, policy, context, cmd, app, status, todo, mid,
                   local, fresh, history, moves>>

\* The cloud endpoints controller is one of the components.
EndpointAppears(a) ==
    /\ Up(a) /\ kube[a].ns = "active" /\ kube[a].comps = Component
    /\ endpoint' = endpoint \union {a}
    /\ UNCHANGED <<gen, dm, kube, policy, context, cmd, app, status, todo, mid,
                   local, fresh, history, moves>>

OutsideEdit ==
    /\ Move
    /\ policy' = IF Other \in policy THEN policy \ {Other} ELSE policy \union {Other}
    /\ fresh' = {}
    /\ UNCHANGED <<gen, dm, kube, endpoint, context, cmd, app, status, todo, mid,
                   local, history>>

Kfctl(r) ==
    \/ UpdateDeployment(r) \/ DeleteDeployment(r) \/ BlockingWait(r)
    \/ ReadPolicy(r) \/ SetIamPolicy(r) \/ PolicyFails(r)
    \/ MakeObject(r) \/ GetCredentials(r)
    \/ GetPackageManagers(r) \/ KsNamespace(r)
    \/ \E c \in Component : ApplyComponent(r, c)
    \/ DropComponents(r) \/ DropNamespace(r) \/ DeleteEndpoints(r)
    \/ CallFails(r)

Next ==
    \/ \E r \in Run : Kfctl(r) \/ Kill(r)
    \/ \E r \in Run, c \in Command, a \in App : Start(r, c, a)
    \/ \E a \in App : Generate(a) \/ NamespaceGone(a) \/ EndpointAppears(a)
    \/ \E a \in App, d \in Deployment, ok \in BOOLEAN : OpEnds(a, d, ok)
    \/ OutsideEdit

Spec == Init /\ [][Next]_vars

-----------------------------------------------------------------------------
PlatformMade(a) ==
    /\ \A d \in Deployment : dm[a][d].live = gen[a]
    /\ MembersOf(a) \subseteq policy
    /\ kube[a].ns = "active"
    /\ kube[a].made = Object

\* Applies of one application agree: when, since the application was at rest,
\* only applies of its platform began, at the same time or one after the other,
\* none of them failed and all have ended, its platform is whole and has the
\* configuration of its directory.  (Gcp.Apply: "Need to be thread-safe: this
\* entry is share among kfctl and deploy app".)
AppliesAgree ==
    \A a \in sound : (\A r \in Running : app[r] # a) => PlatformMade(a)

\* An apply of everything that returned nil and that no other command
\* overlapped left the platform and every component in place, in the
\* application's own cluster, and the kubeconfig pointing to it.
OkMeansApplied ==
    \A r \in alone : (/\ status[r] = "ok" /\ app[r] \in sound
                     /\ cmd[r].verb = "apply" /\ cmd[r].what = "all")
        => /\ PlatformMade(app[r])
           /\ kube[app[r]].comps = Component
           /\ context = app[r]

\* A delete of the platform that returned nil and that no other command
\* overlapped left no cluster, no storage that was to go, no binding of the
\* application's service accounts and no endpoint, whatever killed or failed
\* commands had left under way before it.  (The binding of the IAP account stays:
\* no code removes it.)
DeletedMeansGone ==
    \A r \in alone : (/\ status[r] = "ok"
                     /\ cmd[r].verb = "delete" /\ cmd[r].what # "k8s")
        => /\ \A d \in Deployment \ {"storage"} : dm[app[r]][d].op = "none"
           /\ cmd[r].storage => dm[app[r]]["storage"].op = "none"
           /\ app[r] \notin policy
           /\ app[r] \notin endpoint

\* Only a command's write changes the policy's members of an application, and only
\* those of its own; only others change the rest, and IAP accounts are never taken
\* out, however the edits of commands and others interleave.
OthersKept ==
    [][\A m \in Member : (m \in policy) # (m \in policy') =>
          \/ m = Other /\ UNCHANGED <<todo, mid>>
          \/ /\ \E r \in Running : /\ m \in MembersOf(app[r])
                                  /\ At(r, "policy") /\ r \in mid \ mid'
             /\ m \in App \union policy']_vars

\* An apply of everything that runs alone brings nothing into the cluster of
\* another application, whatever context the kubeconfig began with.
ApplyStaysHome ==
    [][\A r \in alone \intersect Running, a \in App :
          (cmd[r].verb = "apply" /\ cmd[r].what = "all" /\ a # app[r])
          => /\ kube'[a].comps \subseteq kube[a].comps
             /\ kube'[a].ns = "active" => kube[a].ns = "active"]_vars

\* Whoever holds the etag of the present policy is about to write, and has its
\* members.
CopyCurrent == \A r \in fresh : r \in mid /\ At(r, "policy") /\ copy[r] = policy

\* An apply of everything that is alone makes its package manager right after
\* its own cluster became the context, and so for that cluster, if for any.
Home(r) ==
    /\ target[r] \in {app[r], GoneApp, NoApp}
    /\ \A i \in 1 .. Len(todo[r]) : todo[r][i] = Load =>
          IF i = 1 THEN context \in {app[r], GoneApp}
                   ELSE todo[r][i - 1] = Credentials
Homely ==
    \A r \in alone : /\ Running \subseteq {r}
                     /\ (/\ status[r] = "running" /\ cmd[r].verb = "apply"
                         /\ cmd[r].what = "all") => Home(r)

\* The invariant behind OthersKept and ApplyStaysHome.
Apart == TypeOK /\ CopyCurrent /\ Homely

\* Verb by verb, the order of stages that the rest relies on: a binding that is
\* cleared is rewritten next, components come right after their namespace, and
\* the endpoint is deleted last.
ApplyStage == ({"update"} \X Deployment) \union ({"policy"} \X {"clear", "rewrite"})
              \union ({"make"} \X (Object \union {"namespace"})) \union {Credentials}
              \union ({"k8s"} \X {"load", "namespace", "components"})
DeleteStage == ({"remove"} \X Deployment)
               \union {<<"policy", "clean">>, <<"endpoint", "delete">>}
               \union ({"k8s"} \X {"load", "dropComponents", "dropNamespace"})

ApplyPlan(s) ==
    \A i \in 1 .. Len(s) :
        /\ s[i] \in ApplyStage
        /\ s[i] = <<"policy", "clear">> =>
              i < Len(s) /\ s[i + 1] = <<"policy", "rewrite">>
        /\ s[i] = <<"k8s", "components">> => i = 1 \/ s[i - 1] = <<"k8s", "namespace">>

DeletePlan(s, what) ==
    /\ \A i \in 1 .. Len(s) : s[i] \in DeleteStage
    /\ (what # "k8s" /\ s # << >>) => s[Len(s)] = <<"endpoint", "delete">>

Orderly ==
    /\ \A r \in Run :
          /\ IF cmd[r].verb = "apply" THEN ApplyPlan(todo[r])
                                      ELSE DeletePlan(todo[r], cmd[r].what)
          /\ IF r \in mid THEN Head(todo[r])[1] \in {"update", "remove", "policy"}
                          ELSE waits[r] = "running"
    /\ \A a \in App, d \in Deployment :
          /\ dm[a][d].op = "none" => dm[a][d].live = 0
          /\ dm[a][d].op = "deleting" => dm[a][d].sent = 0

Due(r, stage) == \E i \in 1 .. Len(todo[r]) : todo[r][i] = stage
Coming(a, stage) == \E r \in Running : app[r] = a /\ Due(r, stage)

\* What is not yet as in the directory of an application in sound, some apply of
\* it has still to do; nothing takes back what is.
Agreeing ==
    \A a \in sound :
        /\ \A r \in Running : cmd[r].verb = "apply"
        /\ \A d \in Deployment :
              /\ Busy(a, d) => dm[a][d].op = "applying" /\ dm[a][d].sent = gen[a]
              /\ dm[a][d].live = gen[a] \/ Coming(a, <<"update", d>>)
              /\ \A r \in mid : (app[r] = a /\ Head(todo[r]) = <<"update", d>>
                                /\ waits[r] = "ok") => dm[a][d].live = gen[a]
        /\ MembersOf(a) \subseteq policy \/ Coming(a, <<"policy", "rewrite">>)
        /\ kube[a].ns # "terminating"
        /\ kube[a].ns = "active" \/ Coming(a, <<"make", "namespace">>)
        /\ \A o \in Object : o \in kube[a].made \/ Coming(a, <<"make", o>>)

OnCourse(r, verb) == status[r] \in {"running", "ok"} /\ cmd[r].verb = verb

\* The same of what an apply of everything that is alone brings besides.
Applying ==
    \A r \in alone : (OnCourse(r, "apply") /\ cmd[r].what = "all" /\ app[r] \in sound) =>
        LET comps == kube[app[r]].comps IN
        /\ context = app[r] \/ Due(r, Credentials)
        /\ comps = Component \/ Due(r, <<"k8s", "components">>)
        /\ AtStage(r, "k8s", "components") => Component \ left[r] \subseteq comps

\* And of what a delete of the platform that is alone takes away.
Deleting ==
    \A r \in alone : (OnCourse(r, "delete") /\ cmd[r].what # "k8s") =>
        /\ \A d \in Deployment :
              LET op == dm[app[r]][d].op IN
              /\ (d # "storage" \/ cmd[r].storage) => op = "none" \/ Due(r, <<"remove", d>>)
              /\ (r \in mid /\ AtStage(r, "remove", d)) =>
                    /\ waits[r] = "running" => op = "deleting"
                    /\ waits[r] = "ok" => op = "none"
        /\ app[r] \notin policy \/ Due(r, <<"policy", "clean">>)
        /\ app[r] \notin endpoint \/ Due(r, <<"endpoint", "delete">>)

\* The invariant behind the properties above.
IndInv == Apart /\ Orderly /\ Agreeing /\ Applying /\ Deleting

\* "if we're deleting ALL, any problems with deleting k8s will abort and not
\* delete the platform" (coordinator.go, Delete).
ProblemsAbort ==
    \A r \in trouble : (cmd[r].verb = "delete" /\ cmd[r].what = "all")
        => status[r] # "ok" /\ ~ At(r, "remove")
=============================================================================
