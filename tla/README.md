# TLA+ models and proofs of the Kubeflow deployment code

The repository is a personal development tree. Its own programs are small
scripts and generated manifests; the one large program in it is the snapshot of
`kubeflow/kubeflow` under `kubeflow-deployments/label-issues-0409/.cache/master`
(called K below). What K does that is worth a model is to bring up and change
Kubeflow deployments, from several requests at once, against cloud services
that fail, answer late and are edited by others: the deploy server
(`K/bootstrap/cmd/bootstrap/app`), the command line tool `kfctl`
(`K/bootstrap/pkg/kfapp`) and the controllers in the cluster (`K/components`).
This directory models the deploy server, `kfctl`, the notebook controller and the
profile controller.

1. [Inventory](#inventory)
2. [Modules](#modules)
3. [What the runs check](#what-the-runs-check)
4. [Bounds](#bounds), [fairness](#fairness), [deadlock](#deadlock)
5. [What is proved](#what-is-proved)
6. [Findings](#findings) and [what else the models show](#what-else-the-models-show)
7. [Not modelled](#not-modelled)
8. [Plan](#plan)

## Inventory

| Component | State it keeps | Operations | Interacts through | What is hard | Correct when |
|---|---|---|---|---|---|
| IAM policy edits: `gcpUtils.go`, `initHandler.go` | none of its own; the project's policy and etag at the policy service | BindRole; ApplyIamPolicy (clear, then add or remove), each edit a read, a change, a versioned write, repeated for a minute | project lock; the policy, with other clients | stale copies, lost answers, restarts between the two edits, late writes | nobody else's bindings are lost; after an update the service accounts have exactly the template's roles |
| Deployment workflow: `ksServer.go`, `saKey.go`, `k8sAuth.go` | counters; goroutines; project locks | insert deployments, poll them, patch IAM, create namespace, secrets, keys, role binding, istio, app | deployment manager, the cluster's API, ApplyIamPolicy, CreateApp | several requests for one deployment, deletion meanwhile, restart, waits that run out | keys and secrets match, and no key is lost by a success; a deployment counted OK has what was asked for; every request is counted once |
| App repositories: `ksServer.go` (CreateApp, Apply, GetApp, CloneRepoToLocal, SaveAppToRepo) | random directories; the process's working directory; project locks | clone, generate, apply, commit, push, rebase | git remotes shared with other clients; `os.Chdir`, shared by all requests | two requests in one process directory, rejected pushes, failing commands | what is answered ok was pushed; only complete apps are pushed, into their own project |
| Notebook controller: `components/notebook-controller` | work queue, informer caches | Reconcile: StatefulSet, Service, status | Kubernetes API server, garbage collector, users | caches that lag, late and repeated writes, recreation under one name | the cluster comes to match the notebook; nothing goes back to an older edit |
| Registry cache: `getRegistryUri` | directories of unpacked registries | download, unpack, rename | server-wide mutex | everybody waits for a download | nobody waits for good |
| Manifests: `CreateResourceFromFile` | none | get, create each document | cluster API | documents decoded into one map | does what `kubectl create -f` does |
| kfctl towards the cloud: `coordinator.go`, `gcp.go`, `ksonnet.go`, `iamutils.go` | deployments, policy, clusters; the machine's kubeconfig | apply, delete | deployment manager, IAM policy, clusters, other commands through the kubeconfig | failure half-way and running again; two commands at once; operations that outlive a killed command | what returns nil was applied, in its own cluster; delete leaves no deployment, endpoint or binding of a service account; nobody else's bindings change |
| kfctl in its directory: `coordinator.go`, `gcp.go`, `ksonnet.go`, `minikube.go` | `app.yaml`, `.cache`, `gcp_config`, `ks_app`, `yamls` | init, generate, show | later commands through the files; the platform and the package manager through `app.yaml` | files half written by a killed command; several copies of `app.yaml`, merged; leftovers of another version | what returns nil leaves one whole configuration, the one asked for |
| Profile controller: `components/profile-controller` | work queue, informer caches | Reconcile: namespace, role, role binding | API server, garbage collector, namespace controller, users | writes to objects just created; objects that were there before; namespaces that take time to go | namespace, role and binding come to match the profile; a former user never comes back |
| Click-to-deploy | a browser form | enable services, edit two policies, start a deployment, poll it | policy service, deploy server | retries with one stale copy | as the IAM edits |
| OpenMPI controller | signal files | wait for the driver, download, signal, wait for the job, upload | main container, API server | every exit path must signal | the main container is told to stop |
| Gatekeeper, admission webhook, proxies, front ends, metric exporter | little or none | single requests | | | |
| metacontroller hooks, pipelines `sync.py` | none | parent to children | metacontroller | | |
| manifests, generated tests, CI, release and one-off scripts | | | | | |

The hazards of the modelled components, each at its line and with the
properties that would catch it, and those of the components still to come, are
listed in `PROJECT.json`.

## Modules

| Module | Models | Role |
|---|---|---|
| `PolicyOps` | `ClearServiceAccountPolicy`, `UpdatePolicy`, `BindRole`'s change | pure operators from a policy and a request to a policy |
| `PolicyEdits` | what the IAM component promises | abstract: every edit is one atomic step on the current policy |
| `IamPolicy` | `ApplyIamPolicy`, `BindRole`, `GetProjectLock` | one action per remote call; implements `PolicyEdits` |
| `IamPolicyProofs` | | theorems about `IamPolicy` |
| `Deploy` | `makeDeployEndpoint`, `finishDeployment`, `checkDeploymentFinished`, `InsertDeployment`, `ConfigCluster`, `InsertSaKey` | one action per stage and outcome |
| `DeployProofs` | | theorems about `Deploy` |
| `AppRepo` | `CreateApp`, `Apply`, `GetApp`, `CloneRepoToLocal`, `SaveAppToRepo`, `runCmd`, `GetProjectLock`, `getRegistryUri` | one action per git command, `os.Chdir`, download, generation |
| `AppRepoProofs` | | theorems about `AppRepo` |
| `Notebook` | `Reconcile`, `generateStatefulSet`, `generateService`, `CopyStatefulSetFields`, `CopyServiceFields` | one action per read and per write |
| `NotebookProofs` | | theorems about `Notebook` |
| `Kfctl` | coordinator's, the GCP platform's and ksonnet's `Apply` and `Delete`, `updateDM`, `blockingWait`, the policy edits of `iamutils.go` | one action per call of a stage; deployment manager and clusters go on by themselves |
| `KfctlProofs` | | theorems about `Kfctl`: its types, and what keeps applications apart |
| `KfctlPlatformProofs` | | theorems about `Kfctl`: what applies and deletes come to |
| `KfApp` | `NewKfApp`, `LoadKfApp`, `downloadToCache`, `getPackageManagers`, coordinator's `Init`, `Generate` and `Show` with those of GCP, minikube and ksonnet | one action per file written and per call of ksonnet; a kill or a failure inside any of them |
| `KfAppProofs` | | theorems about `KfApp` |
| `Profile` | `Reconcile`, the watches, `generateRole` | one action per read and per write |
| `ProfileProofs` | | theorems about `Profile` |
| `MCIamPolicy`, `MCDeploy`, `MCAppRepo`, `MCKfctl`, `MCKfApp` | | small sets for TLC; `Notebook` and `Profile` need none |

How state corresponds to code:

* **IamPolicy.** `lock[p]` is the mutex that `GetProjectLock` returns for
  project p. `copy[r]` is `saPolicy` or `policy` in the handler, with its etag.
  `phase[r]` tells the two `backoff.Retry` blocks of ApplyIamPolicy apart (and
  BindRole's only edit). `tries[r]` counts failed attempts; `MaxTries` of them
  use up backoff's minute. A write may fail before or after the service stored
  it, and one that was on its way when the server stopped may still arrive.
* **Deploy.** `pc[r]` is the stage of the request; `Follow` gives the next.
  `owner[o]` says which request made object o of the present cluster, `keys[a]`
  which requests made a key of a service account; both go when the user deletes
  the deployment, as `cluster.jinja` makes the accounts part of it. `on[r]`
  is the cluster r's client was built for. `count[r]` is what r added to
  `deploy_requests`. `installIstio` is the server's flag, false by default, and
  `job[r].apply` the request's `Apply`. ApplyIamPolicy and InstallIstio are one stage
  each here, CreateApp two: it looks the cluster up before it asks for the lock.
* **AppRepo.** `cwd` is the process's working directory, `work[r][p]` the
  clone of p in r's random directory: `files` is the tree, `index` what was
  added, `head` the last commit, `origin` and `base` what was cloned. An app is
  three kinds of files: components with their parameters, environment, configuration
  copies. `from` says what an entry was made from: to an app that has components a
  request adds those it lacks and its own parameters, so `from` grows; the environment
  (of which the server's address counts) and the copies are replaced. Two changes of
  one kind, even of different components, are a conflict to a rebase here, as their
  parameters are in one file. `lock[p]` is
  a project's mutex and `mux` the server's, which guards the map of the former and
  is held through a download (`fetch`). Whether a registry is in the cache, or comes
  with the server, is left open.
* **Notebook.** `obj` is the API server's store, `seen` the informer caches,
  `news` the kinds with undelivered watch events, `queued` the work queue for
  this one name, `instance`, `ready` and `write` the locals of Reconcile. An
  object is the user edit (`gen`) it was generated from and its resource
  version. The conversion of a pod spec into a StatefulSet is injective on
  edits, which is all that the properties tell apart; the comparisons that
  decide on writing are modelled by what they compare, the missed annotation
  and the defaulted fields included.
* **Kfctl.** A command is the sequence of its stages, `Stages(c)`, in the order
  the coordinator, Gcp.Apply and the package manager run them; `todo[r]` is what
  is left of it. `gen[a]` is the configuration in the application's directory,
  `dm[a][d]` what deployment manager was sent and what it has brought up, `kube[a]`
  the namespace, the objects and the components in the cluster, `context` the
  current context of the kubeconfig, which GetConfig reads when the package
  manager is made (`target[r]`). `mid` holds the runs between the two calls of
  a stage: after a deployment's update and before its wait ends, after the
  policy's read and before its write. `fresh` stands for the etag. Of the policy's
  members an application has two (`MembersOf`): its service accounts, which go by its
  name, and the account it lets in through IAP, which is the user's in general and
  may be that of several applications. A rewrite binds both; a clear, and delete, take
  out the service accounts only. A Get that is
  followed by a call on what it saw is one step with that call, as deployment
  manager refuses a call that comes too late. Retries (a minute for an apply's
  policy, seven passes over the components) may be given up at any time. A call
  may fail with its effect (`Answer`) or without (`CallFails`).
* **KfApp.** The variables are the files of the directory. `todo` is what is left
  of the command's stages, `def` its copy of `app.yaml` (`kfdef`), `was` the file
  when it began, `result` how it ended. A `KfDef` keeps of the file what the
  commands decide on: platform, version, components, the names of address and host,
  and for each component whose values its parameters have. `Merged` is what
  `yaml.Unmarshal` into a structure that is in use does: what the file has goes
  before what the structure holds. `Leftover` is what a stage leaves that does not
  come to its end: `ioutil.WriteFile` truncates first, the cache is removed before
  the download, `ks_app` before ksonnet's init. The files that copyFile writes are
  one entry, `copies`, with what a longer file may leave at its end. `Jupyter` holds
  the versions whose template for minikube lists a component `jupyter`, of which the
  platform sets parameters; the template of this snapshot does not list it.
* **Profile.** As Notebook: `obj`, `seen`, `news`, `queued`, and the locals of
  Reconcile. An object's `owner` is the profile its controller reference names, 0
  for none, and only through it do the object's events reach the queue. `user` is
  the edit that named the profile's owner. `flying` are writes whose caller has
  given up or was restarted.

## What the runs check

| Run | Module | Question | Distinct states |
|---|---|---|---|
| `iam_policy` | MCIamPolicy | Do concurrent edits, failures, lost answers, outside editors and a restart lose a binding or leave a wrong one? Is every request answered, and does it all amount to atomic edits (`PolicyEdits`)? | 471,060 |
| `iam_policy_ok` | MCIamPolicy | violation: an update that was never stored is reported as success | |
| `deploy` | MCDeploy | With two requests for one deployment, a deletion and a restart, a server that installs istio or not: keys, secrets, completeness, counters, and every request ends | 770,660 |
| `deploy_done` | MCDeploy | violation: counted as finished though never seen DONE | |
| `app_repo` | MCAppRepo | In one project: what is answered ok was saved, pushes are the request's own. With two projects or an unlocked apply in one process directory: are pushes whole, and do they stay in their project? Every request is answered | 194,898 |
| `app_repo_isolation` | MCAppRepo | violation: with two projects, success without a saved app | |
| `notebook` | Notebook | Does the cluster come to match the notebook, without ever going back to an older edit? | 112,485 |
| `notebook_mapping` | Notebook | violation: a removed ambassador mapping is not restored | |
| `profile` | Profile | Does the cluster come to match the profile, with objects that were there before it and a new owner's binding never undone? | 529,864 |
| `kfctl` | MCKfctl | Commands on two applications that overlap, fail, are killed and repeated: what does one that returned nil amount to, and what does it leave alone? | 1,266,842 |
| `kfctl_abort` | MCKfctl | violation: a delete of everything goes on after problems with deleting from Kubernetes | |
| `kfapp` | MCKfApp | init, generate and show in one directory, with changes of version, platform and flags, killed or failing anywhere: what does one that returned nil leave, and why may one fail? | 741,568 |

The properties, in words:

* `LockExcludes`, `StaleOnlyFromOutside`: at most one request per project is
  between Lock and Unlock, so a copy of the policy goes stale only from outside
  the server. `OthersKept`: no write of the server, on time or late, changes
  the bindings of an identity it does not name. `UpdateIsExact`: when an update
  is stored and nobody outside has edited since the clear, the service accounts
  have exactly the template's roles, whatever other requests did meanwhile.
  `ImplementsEdits`: refinement of `PolicyEdits`. `Answered`: liveness.
* `KeysAccountedFor`: a key that no secret holds is in the hands of its request, or
  was lost by one that failed or that a restart forgot, never by one counted OK; and
  of the requests with a client for the present cluster only one makes keys of its
  accounts. A request whose client is still for a deleted cluster does make a key of
  the new account of that name; it fails at the secret.
  `SecretHoldsKey`: a secret holds a key its account still has.
  `OkMeansComplete`: what is counted OK has all that ConfigCluster makes, made for that
  request, istio if the server installs it and the app if the request had it applied.
  `CountedOnce`: the counters add up. `Ends`: liveness.
* `SavedInOneProject`: while all requests create apps of one project, what is
  answered ok reached the repository (`OkMeansSaved`, which fails with two projects),
  and no clone is pushed inside a clone.
  `PushesOwnApp`: then a request pushes only its own app, and to the components that
  the repository has by then it only adds. Whatever requests there are, `PublishedWhole`:
  no repository ever holds half of an app; `PushesStayHome`: what is pushed into a
  project was generated for that project, over what the project had: no push of others
  is undone. Values of parameters that others set may be overwritten; that is what the
  code does.
* `NeverReverts`: the pod template never goes back to an earlier edit's.
  `Converges`: once users, others and failures stop, StatefulSet, Service and
  status match the notebook for good. In `Profile`, `NeverReverts` says that a role
  binding never names an earlier user than it did, `Converges` the same of namespace,
  role and binding, and `RestsWhenDone` that the controller has nothing queued, no
  news and no object about to go only if they match: no event that it needs is lost.
* `AppliesAgree`: applies of one application, at once or one after the other,
  amount to the configuration in its directory. `OkMeansApplied`: an apply of
  everything that ran alone and returned nil left the platform and all components
  in place, in its own cluster. `DeletedMeansGone`: a delete of the platform that
  ran alone and returned nil left no deployment (but a storage that is to stay), no
  binding of the application's service accounts and no endpoint, whatever earlier
  commands had left under way. `OthersKept`: as above, for kfctl's edits; a command's
  write changes the members of its own application only, the account it lets in
  through IAP among them, and takes no such account out.
  `ApplyStaysHome`: an apply puts nothing into another application's cluster,
  whatever context it finds.
* `OkMeansConfigured`: a generate of everything that returned nil leaves `app.yaml`,
  `gcp_config` and `ks_app` of one version, with the same names and with exactly the
  components of `app.yaml`, whatever was killed, failed or left of another version
  before. `InitMeansAsked`: an init that returned nil has the version asked for in
  the cache, and on gcp, or in a new directory, exactly that configuration in
  `app.yaml`. `FailsWithReason`: a command that nothing interrupted fails only because
  `ks_app` cannot be loaded, `app.yaml` is gone or not of the cached version, or (on
  minikube) a parameter is of no component: stages never trip over each other.
  `GenerateKeeps`: midway and after a kill too, no command but init changes platform,
  version or components, and the host's name stays unless another is asked for.
* `IndInv` (IamPolicy, Deploy, AppRepo, Notebook,
  Profile, Kfctl, KfApp): the invariants the proofs use, checked by TLC
  before they were proved. `TypeOK` is a conjunct of each.

Every property of a passing run has a mutant: a definition in the same module,
marked "Mutant:", that changes one mapped definition the way a plausible bug
would, and with which TLC finds the property violated.

## Bounds

| Bound | Stands for | Why it is enough |
|---|---|---|
| `MaxTries = 2` | ten attempts of `runCmd` and of the push; backoff's minute | one failure that is retried and one that is final are all the code tells apart |
| `MaxTries = 1` (KfApp) | five retries of ksonnet's init | what a failed try leaves is removed by the next one, or by none |
| `MaxPolls = 2` | 60 polls of a deployment | a poll that is followed by another, and the last one |
| two requests of the server, in the pairs of `MCPairs` | any number, any pair | the code's conflicts are between two; the theorems are for any number |
| `MaxOutside = 1` | edits and pushes by other clients | one falls into each window between a read and a write; in the proofs any number. The safety properties of `app_repo` were also checked once with two pushes by others (1,715,743 states, too many for its liveness in five minutes) |
| `MaxCrashes`, `MaxRestarts`, `MaxDeletes = 1` | restarts, deletions | one falls between any two steps |
| `MaxEdits = 2` | what users do to a notebook | create and edit, create and delete; in the proofs any number |
| `MaxMoves = 3` (Profile) | edits of the profile, tampering, failed calls, restarts, early collection, together | create, hand over and one trouble between, or delete and create again; each new role and binding fails once more by itself, without counting |
| `MaxMoves = 6` (KfApp) | commands, kills and failing calls | two configurations, an interrupted command of each, and the command that is judged |
| `MaxMoves = 3` (Kfctl) | kfctl commands, `generate`s and edits of the policy by others, together | a command that leaves something under way, one on another application, and the one that is judged; one that overlaps it and one edit between. Both applications let in the same account; in the proofs they share theirs or not |
| two applications, two runs | any number | a command, and one other that it meets; two clusters for the context to name |
| `Extra = {}`, no istio, no basic auth | optional deployments and objects | they are further entries of the same sequences |
| `MaxTrouble = 1` | pod changes, tampering, failed calls, restarts, early collection | one of any kind at any point; in the proofs any number |

## Fairness

Weak fairness of `Step(r)` for every request: goroutines that can run do run,
and since a mutex is only waited for by `TakeLock`/`GetProjectLock` steps that
are enabled while it is free, weak fairness suffices only because each request
holds it for a finite time and there are finitely many requests. External
services owe nothing: deployment manager may run forever, every call may fail.
Restarts, deletions and outside edits are never required to happen.

In `Notebook` the worker, the watches and the garbage collector are weakly fair;
failures of calls are bounded by `MaxTrouble`, which is to say that the API
server eventually answers. Users, pods and late writes are not fair. `Profile` is
the same, and its namespaces that are being deleted do go: the namespace controller
is weakly fair.

`Kfctl` and `KfApp` state no fairness and claim no liveness: every loop of kfctl is bounded
by a time or a number of passes, and the model lets it end at any of them, so
that a command ends is by construction. The runs of `Kfctl` use symmetry, which is
sound for the safety properties they check.

## Deadlock

`CHECK_DEADLOCK FALSE` in every configuration: each instance has finitely many
requests or edits, and the system rests when they are done. That no handler
stops before that is what `Answered`, `Ends` and `Converges` say.

## What is proved

All theorems hold for every value of the constants that satisfies the `ASSUME`
of the module: any number of requests, projects, accounts and roles, any number
of retries, outside edits, deletions and restarts.

* **IamPolicyProofs**: `TypeCorrect`, `Invariant`, `LockCorrect`,
  `StaleCorrect`, `OthersKeptCorrect`, `UpdateCorrect` and `Refinement`.
  `LockExcludes` alone is not enough for the others: the invariant `IndInv`
  adds that a copy whose etag is current *is* the current policy
  (`CopyCurrent`), that edits come in order (`InOrder`), that versions in the
  history are past (`PastVersions`), and that between a request's clear and its
  update the accounts hold nothing, or what the request's own unanswered update
  gave them (`CleanSinceClear`). A write is accepted only with the current etag,
  so by `CopyCurrent` it is an edit of the current policy: this gives
  `OthersKept` and the refinement; with `CleanSinceClear`, `UpdateIsExact`.
* **DeployProofs**: `TypeCorrect`, `Invariant`, `KeysCorrect`, `SecretsCorrect`,
  `OkCorrect`, `CountCorrect`. The argument is ownership: creating the namespace
  is refused to all but the first request of a cluster, so whoever is past it
  made everything it has passed (`Built`), and of the requests connected to that cluster
  only that one makes keys (`KeysOfOwner`). `KeysKnown` follows every key, those of stale
  requests included, from the hands of its request into the secret or to a request that
  ends without being counted OK. `Connected` ties a request's client to a cluster, which is
  what makes the claims survive a deletion.
* **NotebookProofs**: `TypeCorrect`, `Invariant` and `NeverRevertsCorrect`. That a
  template is never replaced by an older one is about where edits are passed on:
  from the server's notebook to the cache, to Reconcile's copy, to a write, to
  the StatefulSet and its cache. `InOrder` says that every later place holds an
  edit no newer than every earlier one, even across deletion and recreation;
  `PastVersions` and `CopyCurrent` that a version names one template; and so
  `NoOldWrites`: whatever write the server would still take, on time or late, is
  not older than what it replaces. `StepServed` sums up what any step does to the
  server, `ServerKeeps` and `SendKeeps` show that the invariant survives it.
* **ProfileProofs**: `TypeCorrect`, `OrderCorrect`, `NeverRevertsCorrect`, `Invariant`
  and `RestsCorrect`. That a role binding never names an earlier user than it did is
  Notebook's argument, about users instead of templates (`Ordered`): `InOrder` along the
  way from the profile to its cache, to Reconcile's copy, to a write under way, to the
  binding; `PastVersions`; and `NoOldWrites`, that no write which the server would still
  take names an older user. That the controller rests only on a cluster that matches the
  profile (`RestsWhenDone`, the safety half of `Converges`) is about what is left to wake
  it: the caches differ from the server only where a watch has an event (`Fresh`), and
  while there is a profile, what Reconcile has passed is in the cache as wanted, or its
  write is in hand, or there is an alarm, an entry in the queue or an event about what
  the controller owns (`Watchful`). An alarm is not lost: only the queue's `Take` clears
  one, and Reconcile then starts over from the cache. The hard step is the last update,
  after which Reconcile returns without a requeue (`CallWatchful`): the server takes it
  only at the version it was made from, so by `Known` the binding is the controller's,
  and so was the cached one, whose event then wakes it. An adopted binding would not do
  so, and would not be updated at all: its `RoleRef` cannot change.
* **AppRepoProofs**: `TypeCorrect`, `BaseInvariant`, `Invariant`, `PublishedWholeCorrect`,
  `PushesStayHomeCorrect`, `SavedCorrect` and `PushesOwnCorrect`. The working directory of the process may be in any
  request's clone when a git command of another runs, so the argument is not about
  who runs a command but about every clone at any time (`Derived`): its files differ
  from its origin only in what requests to create in its project have made; either
  nothing is staged or committed, or all there is; what is staged or committed are
  complete apps; and a clone whose version is the repository's has the repository's
  files as its origin. That only complete apps are staged needs two more parts:
  until its app is saved, a request changes in its clone only what it makes of the
  origin's entries (`Generating`), and the process is in a repository's directory only when that
  directory's app is complete (`Placed`). `PullDerived` is the crux: a rebase without
  conflict puts no app together from two halves. These parts are `BaseInv`, which holds
  for any requests. While all requests create apps in one project more is true (`OneInv`):
  the lock lets one of them work at a time (`Exclusive`), so that the process stays in the
  clone where that request moved it (`Located`). That clone then differs from its origin
  in what this one request makes (`Unmixed`), which is `PushesOwnApp` when it is pushed:
  the push is accepted only at the version of the clone's origin. For `SavedInOneProject`
  `Progress` follows what the request wants from the files to the index, the commit and
  the push: each of the app's kinds of files is there, or the repository has held it since
  the clone, which `saved` notes. A rebase may then drop a kind only because the origin
  already had it (`RebasedOwn`).
* **KfctlProofs**: `TypeCorrect`, `ApartCorrect`, `OthersKeptCorrect` and
  `ApplyStaysHomeCorrect`. `OthersKept` rests on `CopyCurrent`: a run that holds the
  etag of the present policy is between its read and its write and has that policy's
  members. `ApplyStaysHome` rests on `Homely`: while an apply of everything is alone,
  the stage before the making of its package manager (`Load`) is the one that makes
  its cluster the current context (`Credentials`), so that after it the context, and
  then the package manager's `target`, is its own cluster or one that is gone. The
  lemmas up to `StagesType` show this of the plan of every command, with and without
  the optional parts; `DoneHome` and `StepHome` that it survives each stage.

* **KfctlPlatformProofs**: `Invariant`, `AppliesAgreeCorrect`, `OkCorrect` and
  `DeletedCorrect`. Commands are plans, sequences of stages put together from optional
  parts, so the proof begins with what is in a plan: `StagesPlan` shows of the plan of
  every command the order that the rest relies on (`Orderly`), `TailPlan` that what is
  left of a plan keeps it, and `Outcomes` that a step of a run either stays in its
  stage, or goes on to the next, or ends the command. `AppliesAgree` is then a debt that
  somebody has to pay (`Agreeing`): what is not yet as in the directory, some apply of
  the application still has to do. A step pays its own stage and takes nothing
  back (`RunAgrees`), a new apply begins with the whole debt (`StartAgrees`), and
  deployment manager ends only operations that carry the present configuration
  (`OpEndsSound`); when no run is left, nothing can be owed. `OkMeansApplied` is the same of
  one run alone (`Applying`), with the context and the components besides; it takes
  `Homely` to know that the components are made in its own cluster. `DeletedMeansGone`
  (`Deleting`) makes no assumption on what was there before: a wait that
  ended well means that the operation that ended was the delete's own or that there is nothing
  left. The endpoint can appear from a deployment that an earlier apply left on its way,
  until that deployment is removed, so that the endpoint must be the last to go.
* **KfAppProofs**: `TypeCorrect`, `Invariant`, `ConfiguredCorrect`, `AskedCorrect`,
  `FailsCorrect` and `KeepsCorrect`, for any versions, however long their files are, and
  any number of commands, kills and tries. The one assumption besides the types is that
  `None` is no version, name, command, result or file. None of the four properties is
  inductive, as none says anything of a command that still runs. `IndInv` says where it
  is in its plan (`Orderly`: what is left is a tail of the plan of the platform that it
  began with) and what each stage that is no longer `Due` has left: `Asked` of an init,
  `Generating`, `PlatformWritten` and `ResourcesMade` of a generate. The difficulty is
  that `app.yaml` is read again half way, over what the command holds. `Generating`
  therefore says that on the way to that reading the file is either what it was when
  the command began, or what the platform's part has just saved, which is the command's
  own copy, so that the reading changes nothing (`MergedSame`, `GenerateReads`). `Proper`,
  what every configuration has whichever init it is from, is why a component never
  lacks the parameters that its prototype insists on. The lemmas up to `PlatformCourse`
  show what the plan of each command is and what can be left of it; after them there is
  one lemma for each action. `ShowFails`, `GenerateFails` and `NotInCache` give the reasons
  of `FailsWithReason`; `LeftoverIs` is what an interruption can leave.

Only model-checked: the liveness properties (liveness under fairness is out of
the prover's reach). Every safety property that a passing run checks is a theorem.

## Findings

The runs marked "violation" each show one disagreement between the code and what
a comment of the code says; `PROJECT.json` quotes both.

1. ApplyIamPolicy drops the error of its update phase (`gcpUtils.go:309`).
2. A wait for deployment manager that runs out is taken for success
   (`ksServer.go:1219`).
3. `os.Chdir` moves all requests of the process; CreateApp may answer ok with
   nothing saved (`ksServer.go:1015`).
4. The notebook controller does not notice a removed annotation
   (`util.go:61`).
5. kfctl's delete of everything goes on to the platform although deleting the
   components failed: the ksonnet package manager logs its errors and returns nil
   (`ksonnet.go:273`), where the coordinator says that any problem aborts
   (`coordinator.go:526`).

### What else the models show

Weaknesses that contradict no sentence of the repository, or that are too plain to
need a run:

* CreateApp drops the errors of writing the configuration copies
  (`ksServer.go:597`): a request may be answered ok with an app pushed that lacks
  them. `PublishedWhole` therefore speaks of components and environment.
* Apply clones without the project's lock (`ksServer.go:1055`), which the comment
  of CloneRepoToLocal asks of its callers (`ksServer.go:876`). Apply pushes
  nothing, and its clone is in a directory of its own; what the lock would have
  kept in place is the working directory, which the clone moves (`app_repo`).
* A clone that fails leaves its random directory on disk for the life of the server
  (`ksServer.go:923`), although the comment at `ksServer.go:880` says that it is
  deleted before the request ends: MakeDir, then a clone that fails, shows it. To
  repeat a CreateApp that succeeded ends, after ten attempts, in an error, because
  `git commit` fails when nothing changed.
* `sound` in Kfctl asks that an apply begin at rest, and the limits are real: an
  apply that begins while the namespace of an earlier `delete k8s` is still
  terminating finds the namespace and the old secrets, creates nothing, returns
  nil, and loses the secrets when the namespace is gone.
* An apply that finds an operation under way waits for that operation's end
  (`gcp.go`, updateDeployment) and returns nil without having sent its own
  configuration, if the directory was generated anew since.
* kfctl's delete leaves the binding of the account that apply let in through IAP
  (`gcp.go:1042`, `gcp.go:1080`): neither Delete (`gcp.go:967`) nor ClearIamPolicy
  (`iamutils.go:68`) names it. `DeletedMeansGone` speaks of service accounts.
* `delete k8s` talks to the cluster of the kubeconfig's current context. With two
  applications on one machine it deletes from whichever was applied last. This
  is why `ApplyStaysHome` speaks of applies of everything only.
* init on minikube, or without a platform, in a directory that has an `app.yaml`:
  nothing is written before the file is read again, so version, platform and
  components of the old file win, while the cache is of the version asked for. init
  returns nil, and every generate then fails for the missing version
  (`InitMeansAsked` excepts it).
* A generate that is killed while ksonnet makes `ks_app` may leave what ksonnet
  cannot load. "Clean up leftovers from previous run" (`ksonnet.go:428`) is then never
  reached, as every command, init included, ends where the application is loaded
  (`ksonnet.go:77`). A killed init leaves the cache of one version and `app.yaml` of
  another; `generate k8s` then removes `ks_app` before it fails.
* copyFile does not truncate (`gcp.go:1004`): after a change to a version with
  shorter files their old ends stay. `generate` without `--ipName` takes the default
  again, while a host name stays; `generate k8s` ignores flags for which `app.yaml`
  has a value. `show` fails on every platform, since none implements it, and the
  second time, since its directory exists.
* On minikube parameters are set for components `application` and `jupyter`, which
  the template of this snapshot does not list: generate fails there.
* Profile: an object without a controller reference (it was there before the
  profile) wakes nobody when it goes, and a role binding to another role makes
  Reconcile fail for good, since a binding's role cannot be changed. Every new role
  and binding costs a Reconcile that fails (`profile_controller.go:158`): what was
  found is still empty after the creation.

## Not modelled

Within the modelled components:

* AppRepo: a restart in the middle of a request (only the random directories
  outlive it); the steps of ksonnet inside generation, which completes the app or
  fails; what the cache of registries holds; the endpoint that creates and then
  applies is a create and an apply.
* Deploy: what InstallIstio leaves when it fails, beyond its stage.
* Notebook: informer resync (ten hours), labels added to the StatefulSet by
  others, a foreign StatefulSet of the same name, two controller pods at once.
  A cache moves to the newest version at once where the watch may deliver the
  versions between; a reader sees any of them by reading before the cache moves.
* Kfctl: the directory's configuration is one value there, and how it comes about is
  `KfApp`; the members and roles of the policy beyond whose they are; the content of
  secrets and the keys made for them (the deploy server's are in `Deploy`); cloud
  resources outside the cluster other than the endpoint; a request that is still on
  its way when its command is killed; that after a delete the ksonnet environment is
  gone (`ksonnet.go:275`), so that a later command's envSet fails until generate is
  run again (there, as everywhere, a call may fail, and need not).
* KfApp: two commands at once in one directory, which nothing in the code expects;
  namespace, zone, email, basic auth and istio, which pass through like the names;
  a file written in part (each is one write); platforms loaded as plugins.
* Profile: two controller pods at once; several subjects or rules in one binding or
  role (an object is as wanted or not).

Components without a module are listed in `PROJECT.json` with the reason: pure
functions and single-request servers, generated or declarative files, and those
of the plan.

## Plan

In this order, the most important behaviour first:

1. `CreateResource` and `IamBindings`: pure functions against reference
   definitions over bounded inputs (`CreateResourceFromFile`,
   `ReadIamBindingsYAML`, `RewriteIamPolicy`).
2. Kfctl over KfApp: apply and delete of what the directory really holds after a
   killed generate, in place of one value.
3. `ClickToDeploy`, `OpenMpi`; the metacontroller hooks as operators.
4. Proofs: an abstract deployment that Deploy implements; two controller pods in Notebook.
