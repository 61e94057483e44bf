------------------------------ MODULE AppRepo ------------------------------
(***************************************************************************)
(* How the deploy server keeps ksonnet apps in a project's source          *)
(* repository: CreateApp, Apply, GetApp, CloneRepoToLocal and SaveAppToRepo *)
(* (bootstrap/cmd/bootstrap/app/ksServer.go).                              *)
(*                                                                         *)
(* A request clones the repository into a random directory of its own,     *)
(* generates its app there, commits and pushes.  Requests to create an app *)
(* hold their project's lock; requests to apply one take no lock.  One     *)
(* mutex of the server guards the map of these locks and the cache of      *)
(* registries.  All requests share the working directory of the process: a *)
(* git command runs where the last os.Chdir of any request left it.        *)
(***************************************************************************)
EXTENDS Naturals

CONSTANTS
    Project, Request, App,
    Conf,        \* what a request has the app's environment and configurations from
    Comps,       \* the components and parameters a request asks for
    Job,         \* the requests' contents
    NoRequest,
    MaxTries,    \* attempts of a command before runCmd or the push gives up
    MaxOutside   \* bound: pushes by others, for each project

ASSUME RepoAssumption ==
    /\ NoRequest \notin Request
    /\ Job \subseteq [op: {"create", "apply"}, project: Project, app: App,
                     conf: Conf, comps: Comps]
    /\ MaxTries \in Nat \ {0}
    /\ MaxOutside \in [Project -> Nat]

(***************************************************************************)
(* An app's files fall into its components with their parameters, to which *)
(* requests add theirs; its environment, of which the address of the       *)
(* server counts here, set for every request; and the copies of the        *)
(* deployment's configuration, written anew for every request.  A clone    *)
(* made inside another is an entry of its own.  An entry has what it was   *)
(* made from, and whether it is whole or was left half made.               *)
(***************************************************************************)
FileKind == {"components", "environment", "configs"}
AppEntry == App \X FileKind
Components(a) == <<a, "components">>
Environment(a) == <<a, "environment">>
Configs(a) == <<a, "configs">>
Nested == <<"nested", "clone">>
Entry == AppEntry \union {Nested}
Source == Conf \union Comps
Content == [from: SUBSET Source, whole: BOOLEAN]
Nothing == [from |-> {}, whole |-> FALSE]
Stray   == [from |-> {}, whole |-> TRUE]
Part(c)  == [from |-> {c}, whole |-> FALSE]
Whole(c) == [from |-> {c}, whole |-> TRUE]
Files == [Entry -> Content]
NoFiles == [e \in Entry |-> Nothing]

(***************************************************************************)
(* A directory named after a project's repository.  git: it is a clone.    *)
(* The rebase that ran into a conflict leaves it stuck.                    *)
(***************************************************************************)
Work == [there: BOOLEAN, git: BOOLEAN, stuck: BOOLEAN, base: Nat,
         origin: Files, head: Files, index: Files, files: Files]
NoWork == [there |-> FALSE, git |-> FALSE, stuck |-> FALSE, base |-> 0,
           origin |-> NoFiles, head |-> NoFiles, index |-> NoFiles,
           files |-> NoFiles]

VARIABLES
    remote,   \* remote[p]: the files on master of p's source repository
    version,  \* version[p]: number of pushes to it
    lock,     \* lock[p]: the request that holds the project's mutex
    mux,      \* the request that holds the server's mutex
    cwd,      \* working directory of the process: whose, and where in it
    dir,      \* dir[r]: the random directory of r exists
    work,     \* work[r][p]: in the directory of r, the one of p's repository
    job,      \* job[r]: what request r asks for
    pc,       \* pc[r]: where request r is
    found,    \* found[r]: CloneRepoToLocal gave r the name of its directory
    tries,    \* tries[r]: failed attempts at this command
    reply,    \* reply[r]: the answer
    pushes,   \* pushes[p]: pushes by others so far (bound by MaxOutside)
    saved     \* history: saved[r]: the kinds of files of which the repository of
              \*   r's project has, since r cloned, held what r wants there

vars == <<remote, version, lock, mux, cwd, dir, work, job, pc, found, tries, reply,
          pushes, saved>>

locks == <<lock, mux>>

Cloning == {"repo", "chdir", "clone"}
Saving  == {"enter", "add", "commit", "push", "pull"}
Cloned  == {"load", "registries", "fetch", "generate"} \union Saving
PC == {"idle", "wait", "lock", "mkdir", "load", "registries", "fetch", "generate",
       "ok", "fail", "done"}
        \union Cloning \union Saving

TypeOK ==
    /\ remote \in [Project -> Files]
    /\ version \in [Project -> Nat]
    /\ lock \in [Project -> Request \union {NoRequest}]
    /\ mux \in Request \union {NoRequest}
    /\ cwd \in [req: Request \union {NoRequest}, place: {"top", "repo"}]
    /\ dir \in [Request -> BOOLEAN]
    /\ work \in [Request -> [Project -> Work]]
    /\ job \in [Request -> Job]
    /\ pc \in [Request -> PC]
    /\ found \in [Request -> BOOLEAN]
    /\ tries \in [Request -> 0 .. (MaxTries - 1)]
    /\ reply \in [Request -> {"none", "ok", "error"}]
    /\ pushes \in [Project -> Nat] /\ \A p \in Project : pushes[p] <= MaxOutside[p]
    /\ saved \in [Request -> SUBSET FileKind]

Init ==
    /\ remote = [p \in Project |-> NoFiles]
    /\ version = [p \in Project |-> 0]
    /\ lock = [p \in Project |-> NoRequest]
    /\ mux = NoRequest
    /\ cwd = [req |-> NoRequest, place |-> "top"]
    /\ dir = [r \in Request |-> FALSE]
    /\ work = [r \in Request |-> [p \in Project |-> NoWork]]
    /\ job \in [Request -> Job]
    /\ pc = [r \in Request |-> "idle"]
    /\ found = [r \in Request |-> FALSE]
    /\ tries = [r \in Request |-> 0]
    /\ reply = [r \in Request |-> "none"]
    /\ pushes = [p \in Project |-> 0]
    /\ saved = [r \in Request |-> {}]

Goto(r, at) ==
    /\ pc' = [pc EXCEPT ![r] = at]
    /\ tries' = [tries EXCEPT ![r] = 0]

\* A failed attempt: again, or up to MaxTries of them, then on to `after`.
Retry(r, again, after) ==
    IF tries[r] + 1 < MaxTries
    THEN /\ pc' = [pc EXCEPT ![r] = again]
         /\ tries' = [tries EXCEPT ![r] = @ + 1]
    ELSE Goto(r, after)

repos == <<remote, version, pushes, saved>>
----------------------------------------------------------------------------
(***************************************************************************)
(* The request arrives.  Both handlers first look the cluster up, and fail *)
(* without it.  CreateApp then waits for the project's lock, which Apply   *)
(* does without.                                                           *)
(***************************************************************************)
Start(r) ==
    /\ pc[r] = "idle"
    /\ \/ /\ Goto(r, IF job[r].op = "create" THEN "wait" ELSE "mkdir")
          /\ UNCHANGED reply
       \/ /\ Goto(r, "done")
          /\ reply' = [reply EXCEPT ![r] = "error"]
    /\ UNCHANGED <<repos, locks, cwd, dir, work, job, found>>

\* Mutant: CreateApp goes on without the lock.
TakeLockUnguarded(r) ==
    /\ pc[r] = "lock"
    /\ lock' = [lock EXCEPT ![job[r].project] = r]
    /\ Goto(r, "mkdir")
    /\ UNCHANGED <<repos, mux, cwd, dir, work, job, found, reply>>

\* The project's lock is looked up, or made, under the server's mutex.
GetProjectLock(r) ==
    /\ pc[r] = "wait"
    /\ mux = NoRequest
    /\ Goto(r, "lock")
    /\ UNCHANGED <<repos, locks, cwd, dir, work, job, found, reply>>

TakeLock(r) ==
    LET p == job[r].project IN
    /\ pc[r] = "lock"
    /\ lock[p] = NoRequest
    /\ lock' = [lock EXCEPT ![p] = r]
    /\ Goto(r, "mkdir")
    /\ UNCHANGED <<repos, mux, cwd, dir, work, job, found, reply>>

(***************************************************************************)
(* CloneRepoToLocal.  Without a clone it returns no directory name; GetApp *)
(* logs this and goes on, and nobody removes the directory.                *)
(***************************************************************************)
MakeDir(r) ==
    /\ pc[r] = "mkdir"
    /\ dir' = [dir EXCEPT ![r] = TRUE]
    /\ Goto(r, "repo")
    /\ UNCHANGED <<repos, locks, cwd, work, job, found, reply>>

\* The repository is looked up, or created, in up to ten attempts.
EnsureRepo(r) ==
    /\ pc[r] = "repo"
    /\ Goto(r, "chdir") \/ Goto(r, "load")
    /\ UNCHANGED <<repos, locks, cwd, dir, work, job, found, reply>>

ChdirTop(r) ==
    /\ pc[r] = "chdir"
    /\ cwd' = [req |-> r, place |-> "top"]
    /\ Goto(r, "clone")
    /\ UNCHANGED <<repos, locks, dir, work, job, found, reply>>

CloneOf(p) ==
    [there |-> TRUE, git |-> TRUE, stuck |-> FALSE, base |-> version[p],
     origin |-> remote[p], head |-> remote[p], index |-> remote[p],
     files |-> remote[p]]

\* The working directory still is a directory, in which a command can run.
CwdExists == cwd.req # NoRequest /\ dir[cwd.req]

\* The directory of cwd, when it is one named after a repository.
InRepo == CwdExists /\ cwd.place = "repo"
Here == work[cwd.req][job[cwd.req].project]

\* The directory of the process is changed by a git command.
Changed(w) == work' = [work EXCEPT ![cwd.req][job[cwd.req].project] = w]

\* The kinds of files of which a tree holds what a request for j wants there.
Held(j, tree) ==
    {k \in FileKind : LET now == tree[<<j.app, k>>] IN
        IF k = "components" THEN now.whole /\ j.comps \in now.from
                            ELSE now = Whole(j.conf)}

\* The repository of p comes to hold tree: it is noted for the requests that
\* have cloned it.
Note(p, tree) ==
    saved' = [s \in Request |-> IF pc[s] \in Cloned /\ job[s].project = p
                               THEN saved[s] \union Held(job[s], tree) ELSE saved[s]]

\* git clone runs where the process is: in a top directory without one of
\* the name, or among the files of a repository.
GitClone(r) ==
    LET p == job[r].project IN
    /\ pc[r] = "clone"
    /\ CwdExists
    /\ \/ /\ cwd.place = "top"
          /\ ~ work[cwd.req][p].there
          /\ work' = [work EXCEPT ![cwd.req][p] = CloneOf(p)]
       \/ /\ InRepo
          /\ Here.files[Nested] = Nothing
          /\ Changed([Here EXCEPT !.files[Nested] = Stray])
    /\ found' = [found EXCEPT ![r] = TRUE]
    /\ saved' = [saved EXCEPT ![r] = Held(job[r], remote[p])]
    /\ Goto(r, "load")
    /\ UNCHANGED <<remote, version, pushes, locks, cwd, dir, job, reply>>

\* The command fails, for its directory or for the network.
GitCloneFails(r) ==
    /\ pc[r] = "clone"
    /\ Retry(r, "clone", "load")
    /\ UNCHANGED <<repos, locks, cwd, dir, work, job, found, reply>>

----------------------------------------------------------------------------
(***************************************************************************)
(* GetApp as CreateApp uses it.  Without a directory name CreateApp fails. *)
(* An app that is there has the server of its environment set; otherwise   *)
(* the directory of the app is made, with the repository's above it if     *)
(* need be, and the app initialised.                                       *)
(* Loading an app may fail, which loses the directory's name.              *)
(***************************************************************************)
Begun(tree, a, c, m) ==
    [tree EXCEPT ![Components(a)] = IF @ = Nothing THEN Part(m) ELSE @,
                 ![Environment(a)] = Whole(c)]

LoadApp(r) ==
    LET p == job[r].project
        a == job[r].app
        tree == work[r][p].files IN
    /\ pc[r] = "load"
    /\ job[r].op = "create"
    /\ \/ /\ found[r]
          /\ work' = [work EXCEPT ![r][p] =
                        [@ EXCEPT !.there = TRUE,
                                  !.files = Begun(tree, a, job[r].conf, job[r].comps)]]
          /\ Goto(r, "registries")
          /\ UNCHANGED found
       \/ /\ found[r]
          /\ tree[Components(a)] # Nothing
          /\ found' = [found EXCEPT ![r] = FALSE]
          /\ Goto(r, "fail")
          /\ UNCHANGED work
       \/ /\ ~ found[r]
          /\ Goto(r, "fail")
          /\ UNCHANGED <<work, found>>
    /\ UNCHANGED <<repos, locks, cwd, dir, job, reply>>

(***************************************************************************)
(* getRegistryUri.  A registry that comes with the server needs no lock;   *)
(* one of a version of its own is looked up in the cache under the mutex   *)
(* of the server, and downloaded there if it is not in it.  What earlier   *)
(* requests have left in the cache is not modelled: it may be there.       *)
(***************************************************************************)
GetRegistryUri(r) ==
    /\ pc[r] = "registries"
    /\ \/ Goto(r, "generate") /\ UNCHANGED mux
       \/ Goto(r, "fail") /\ UNCHANGED mux
       \/ mux = NoRequest /\ mux' = r /\ Goto(r, "fetch")
    /\ UNCHANGED <<repos, lock, cwd, dir, work, job, found, reply>>

Fetch(r) ==
    /\ pc[r] = "fetch"
    /\ mux' = NoRequest
    /\ Goto(r, "generate") \/ Goto(r, "fail")
    /\ UNCHANGED <<repos, lock, cwd, dir, work, job, found, reply>>

(***************************************************************************)
(* The packages, components and parameters of the app, and its application *)
(* to the cluster.  An app that has components gets those it lacks, and    *)
(* the parameters of this request; none is taken away.  Anything may fail, *)
(* before, between or after these.  The configurations come last; an error *)
(* in writing them is dropped.                                             *)
(***************************************************************************)
WithComponents(tree, a, m) ==
    [tree EXCEPT ![Components(a)] = [from |-> @.from \union {m}, whole |-> TRUE]]
WithSome(tree, a, m) ==
    [tree EXCEPT ![Components(a)] = [from |-> @.from \union {m}, whole |-> FALSE]]
Generated(tree, a, c, m) ==
    [WithComponents(tree, a, m) EXCEPT ![Configs(a)] = Whole(c)]
HalfWritten(tree, a, c, m) ==
    [WithComponents(tree, a, m) EXCEPT ![Configs(a)] = Part(c)]

\* Mutant: CreateApp saves the app even when its generation failed.
GenerateUnchecked(r) ==
    /\ pc[r] = "generate"
    /\ \/ work' = [work EXCEPT ![r][job[r].project].files =
                       Generated(@, job[r].app, job[r].conf, job[r].comps)]
       \/ work' = [work EXCEPT ![r][job[r].project].files =
                       WithSome(@, job[r].app, job[r].comps)]
    /\ Goto(r, "enter")
    /\ UNCHANGED <<repos, locks, cwd, dir, job, found, reply>>

Generate(r) ==
    LET p == job[r].project
        a == job[r].app
        c == job[r].conf
        m == job[r].comps
        tree == work[r][p].files IN
    /\ pc[r] = "generate"
    /\ \/ /\ \E t \in {Generated(tree, a, c, m), HalfWritten(tree, a, c, m)} :
               work' = [work EXCEPT ![r][p] = [@ EXCEPT !.files = t]]
          /\ Goto(r, "enter")
       \/ /\ \E t \in {tree, WithSome(tree, a, m), WithComponents(tree, a, m)} :
               work' = [work EXCEPT ![r][p] = [@ EXCEPT !.files = t]]
          /\ Goto(r, "fail")
    /\ UNCHANGED <<repos, locks, cwd, dir, job, found, reply>>

(***************************************************************************)
(* GetApp as Apply uses it, the app's components applied from where it was *)
(* found.  Without a directory name the app's path is relative to the      *)
(* working directory, whoever set it.                                      *)
(***************************************************************************)
ApplyFrom(r) ==
    LET p == job[r].project IN
    IF found[r] THEN work[r][p].files[Components(job[r].app)]
    ELSE IF CwdExists /\ cwd.place = "top"
    THEN work[cwd.req][p].files[Components(job[r].app)]
    ELSE Nothing

ApplyApp(r) ==
    /\ pc[r] = "load"
    /\ job[r].op = "apply"
    /\ \/ /\ ApplyFrom(r) # Nothing
          /\ Goto(r, "ok")
          /\ UNCHANGED found
       \/ /\ Goto(r, "fail")
          /\ UNCHANGED found
       \/ /\ ApplyFrom(r) # Nothing
          /\ Goto(r, "fail")
          /\ found' = [found EXCEPT ![r] = FALSE]
    /\ UNCHANGED <<repos, locks, cwd, dir, work, job, reply>>

----------------------------------------------------------------------------
(***************************************************************************)
(* SaveAppToRepo.  git config and git add, then git commit, then git push, *)
(* each in the working directory of the process.                           *)
(***************************************************************************)
ChdirRepo(r) ==
    /\ pc[r] = "enter"
    /\ cwd' = [req |-> r, place |-> "repo"]
    /\ Goto(r, "add")
    /\ UNCHANGED <<repos, locks, dir, work, job, found, reply>>

InClone == InRepo /\ Here.git

GitAdd(r) ==
    /\ pc[r] = "add"
    /\ \/ /\ InClone
          /\ Changed([Here EXCEPT !.index = Here.files])
          /\ Goto(r, "commit")
       \/ /\ Retry(r, "add", "fail")
          /\ UNCHANGED work
    /\ UNCHANGED <<repos, locks, cwd, dir, job, found, reply>>

\* git commit fails when nothing is staged.
GitCommit(r) ==
    /\ pc[r] = "commit"
    /\ \/ /\ InClone
          /\ Here.index # Here.head
          /\ Changed([Here EXCEPT !.head = Here.index])
          /\ Goto(r, "push")
       \/ /\ ~ (InClone /\ Here.index # Here.head)
          /\ Retry(r, "commit", "fail")
          /\ UNCHANGED work
    /\ UNCHANGED <<repos, locks, cwd, dir, job, found, reply>>

\* Mutant: git push --force.
GitPushForced(r) ==
    LET p == job[cwd.req].project IN
    /\ pc[r] = "push"
    /\ InClone
    /\ version' = [version EXCEPT ![p] = @ + 1]
    /\ remote' = [remote EXCEPT ![p] = Here.head]
    /\ Note(p, Here.head)
    /\ Goto(r, "ok")
    /\ UNCHANGED <<pushes, locks, cwd, dir, work, job, found, reply>>

\* git push moves master forward to the clone's head, if it is not there yet.
GitPush(r) ==
    LET p == job[cwd.req].project IN
    /\ pc[r] = "push"
    /\ InClone
    /\ Here.base = version[p]
    /\ LET v == IF Here.head = Here.origin THEN version[p] ELSE version[p] + 1 IN
       /\ version' = [version EXCEPT ![p] = v]
       /\ Changed([Here EXCEPT !.origin = Here.head, !.base = v])
    /\ remote' = [remote EXCEPT ![p] = Here.head]
    /\ Note(p, Here.head)
    /\ Goto(r, "ok")
    /\ UNCHANGED <<pushes, locks, cwd, dir, job, found, reply>>

GitPushFails(r) ==
    /\ pc[r] = "push"
    /\ pc' = [pc EXCEPT ![r] = "pull"]
    /\ UNCHANGED <<repos, locks, cwd, dir, work, job, found, tries, reply>>

(***************************************************************************)
(* git pull --rebase.  It refuses files that are not committed.  Entries   *)
(* changed on one side are taken from it; one changed on both, to          *)
(* different contents, is a conflict.                                      *)
(***************************************************************************)
Rebased(p) ==
    [e \in Entry |-> IF Here.head[e] # Here.origin[e] THEN Here.head[e]
                                                      ELSE remote[p][e]]
Conflict(p) ==
    \E e \in Entry : /\ Here.head[e] # Here.origin[e]
                     /\ remote[p][e] # Here.origin[e]
                     /\ remote[p][e] # Here.head[e]

\* Mutant: the attempts end without an error.
GitPullGivesUp(r) ==
    /\ pc[r] = "pull"
    /\ Retry(r, "push", "ok")
    /\ UNCHANGED <<repos, locks, cwd, dir, work, job, found, reply>>

GitPull(r) ==
    LET p == job[cwd.req].project IN
    /\ pc[r] = "pull"
    /\ \/ /\ InClone
          /\ ~ Here.stuck
          /\ Here.files = Here.head
          /\ Here.index = Here.head
          /\ Changed(IF Conflict(p)
                     THEN [Here EXCEPT !.stuck = TRUE]
                     ELSE [Here EXCEPT !.base = version[p], !.origin = remote[p],
                             !.head = Rebased(p), !.index = Rebased(p),
                             !.files = Rebased(p)])
       \/ UNCHANGED work
    /\ Retry(r, "push", "fail")
    /\ UNCHANGED <<repos, locks, cwd, dir, job, found, reply>>

----------------------------------------------------------------------------
\* Mutant: an early return forgets the lock.
ReturnLocked(r) ==
    /\ pc[r] \in {"ok", "fail"}
    /\ reply' = [reply EXCEPT ![r] = IF pc[r] = "ok" THEN "ok" ELSE "error"]
    /\ dir' = [dir EXCEPT ![r] = @ /\ ~ found[r]]
    /\ work' = [work EXCEPT ![r] = IF found[r] THEN [q \in Project |-> NoWork] ELSE @]
    /\ lock' = [lock EXCEPT ![job[r].project] = IF pc[r] = "ok" THEN NoRequest ELSE @]
    /\ Goto(r, "done")
    /\ UNCHANGED <<repos, mux, cwd, job, found>>

(***************************************************************************)
(* The handler returns: its deferred RemoveAll removes the directory it    *)
(* knows by name, then CreateApp's Unlock runs.                            *)
(***************************************************************************)
Return(r) ==
    LET p == job[r].project IN
    /\ pc[r] \in {"ok", "fail"}
    /\ reply' = [reply EXCEPT ![r] = IF pc[r] = "ok" THEN "ok" ELSE "error"]
    /\ dir' = [dir EXCEPT ![r] = @ /\ ~ found[r]]
    /\ work' = [work EXCEPT ![r] = IF found[r] THEN [q \in Project |-> NoWork] ELSE @]
    /\ lock' = [lock EXCEPT ![p] = IF job[r].op = "create" THEN NoRequest ELSE @]
    /\ Goto(r, "done")
    /\ UNCHANGED <<repos, mux, cwd, job, found>>

\* Somebody else pushes an app, or replaces a part of one.
OutsidePush(p) ==
    /\ pushes[p] < MaxOutside[p]
    /\ \/ \E a \in App, c \in Conf, m \in Comps :
            /\ remote[p][Components(a)] = Nothing
            /\ remote' = [remote EXCEPT
                            ![p] = Generated(Begun(@, a, c, m), a, c, m)]
       \/ \E a \in App, k \in FileKind :
            LET e == <<a, k>> IN
            \E x \in IF k = "components" THEN Comps ELSE Conf :
              /\ remote[p][e] \notin {Nothing, Whole(x)}
              /\ remote' = [remote EXCEPT ![p][e] = Whole(x)]
    /\ version' = [version EXCEPT ![p] = @ + 1]
    /\ pushes' = [pushes EXCEPT ![p] = @ + 1]
    /\ Note(p, remote'[p])
    /\ UNCHANGED <<locks, cwd, dir, work, job, pc, found, tries, reply>>

Clone(r) == MakeDir(r) \/ EnsureRepo(r) \/ ChdirTop(r) \/ GitClone(r) \/ GitCloneFails(r)
Save(r) == \/ ChdirRepo(r) \/ GitAdd(r) \/ GitCommit(r)
           \/ GitPush(r) \/ GitPushFails(r) \/ GitPull(r)
Step(r) ==
    \/ Start(r) \/ GetProjectLock(r) \/ TakeLock(r) \/ Clone(r)
    \/ LoadApp(r) \/ GetRegistryUri(r) \/ Fetch(r) \/ Generate(r) \/ ApplyApp(r)
    \/ Save(r) \/ Return(r)

Next ==
    \/ \E r \in Request : Step(r)
    \/ \E p \in Project : OutsidePush(p)

Spec == Init /\ [][Next]_vars

\* Handler goroutines that can run do run.
FairSpec == Spec /\ \A r \in Request : WF_vars(Step(r))
----------------------------------------------------------------------------
(* Properties *)

(***************************************************************************)
(* CreateApp should answer without error only when the repository of the *)
(* project came to hold the app whole, with the components and the         *)
(* environment the request asked for.                                      *)
(***************************************************************************)
OkMeansSaved ==
    \A r \in Request : reply[r] = "ok" /\ job[r].op = "create" =>
                         {"components", "environment"} \subseteq saved[r]

\* It does so while all requests are to create apps in one project, so that
\* its lock keeps the working directory where the request has moved it.
\* Nor does it push a clone made inside the clone then.
OneProject == \A r, s \in Request : job[r].project = job[s].project /\ job[r].op = "create"
SavedInOneProject ==
    OneProject => OkMeansSaved /\ \A p \in Project : remote[p][Nested] = Nothing

(***************************************************************************)
(* No repository ever holds half of an app, whoever else moves the working *)
(* directory: an app is committed only when it is complete, and a rebase   *)
(* does not take one part of it from here and lose the other.              *)
(***************************************************************************)
AppsWhole(tree) ==
    \A a \in App :
        \/ tree[Components(a)] = Nothing /\ tree[Environment(a)] = Nothing
        \/ tree[Components(a)].whole /\ tree[Environment(a)].whole

PublishedWhole == \A p \in Project : AppsWhole(remote[p])

(***************************************************************************)
(* In one project a push of the server changes the app its request names,  *)
(* in the project it names and locks, to what that request generated, and  *)
(* nothing else.  To components it only adds: whatever was pushed before,  *)
(* by others meanwhile too, is among those it pushes.                      *)
(***************************************************************************)
ServerPush(p, e) == remote'[p][e] # remote[p][e] /\ pushes'[p] = pushes[p]

\* Request r turns what project p has at e from old to new.
Makes(r, p, e, old, new) ==
    /\ job[r].op = "create"
    /\ job[r].project = p
    /\ \/ e \in {Environment(job[r].app), Configs(job[r].app)} /\ new.from = {job[r].conf}
       \/ e = Components(job[r].app) /\ new.from = old.from \union {job[r].comps}

Pushed(r, p, e) == Makes(r, p, e, remote[p][e], remote'[p][e])

PushesOwnApp ==
    [][\A p \in Project, e \in Entry : ServerPush(p, e) /\ OneProject =>
         \E r \in Request : pc[r] = "push" /\ lock[p] = r /\ Pushed(r, p, e)]_vars

(***************************************************************************)
(* "This can strengthen data isolation among different requests"           *)
(* (ksServer.go:881).  Wherever the git commands of a request run, what    *)
(* they push into a project is an app that a request to create that app in *)
(* that project has generated, over what the project had: what others      *)
(* pushed is not reverted, and no components of theirs are lost.           *)
(***************************************************************************)
PushesStayHome ==
    [][\A p \in Project, e \in AppEntry : ServerPush(p, e) =>
         \E r \in Request : Pushed(r, p, e)]_vars

\* Trees with the same apps.
Agree(f, g) == \A e \in AppEntry : f[e] = g[e]

\* Nothing is staged or committed; or all there is to commit is staged, and
\* perhaps committed.
Clean(w) == Agree(w.index, w.origin) /\ Agree(w.head, w.origin)
Staged(w) == /\ Agree(w.index, w.files)
             /\ Agree(w.head, w.origin) \/ Agree(w.head, w.files)

\* A request in one of these may have been where its app is saved.
Entered == {"add", "commit", "push", "pull", "ok", "fail", "done"}

\* A clone w of p, whose repository holds tree at version v, differs from its
\* origin in what requests to create have made.
Derived(w, p, tree, v) ==
    /\ \A e \in AppEntry :
          \/ w.files[e] = w.origin[e]
          \/ \E q \in Request : Makes(q, p, e, w.origin[e], w.files[e])
    /\ Clean(w) \/ Staged(w)
    /\ AppsWhole(w.origin) /\ AppsWhole(w.index) /\ AppsWhole(w.head)
    /\ \A e \in AppEntry : w.origin[e] # Nothing => tree[e] # Nothing
    /\ w.git => w.base <= v /\ (w.base = v => w.origin = tree)

\* Until its app is saved, a request that is at `at` and has clones ws changes
\* nothing but that app's files, to what it makes.
Generating(r, at, ws) ==
    LET w == ws[job[r].project]
        p == job[r].project
        a == job[r].app IN
    /\ at \notin Entered =>
          /\ \A x \in Project : Clean(ws[x])
          /\ \A e \in AppEntry : \/ w.files[e] = w.origin[e]
                                \/ Makes(r, p, e, w.origin[e], w.files[e])
    /\ at \in {"registries", "fetch", "generate"} =>
          job[r].op = "create" /\ w.there /\ w.files[Environment(a)].whole
    /\ at \in Saving => AppsWhole(w.files)

\* The process is in a clone only when its request has the app complete.
Placed(c) ==
    c.place = "repo" =>
        /\ c.req \in Request
        /\ pc[c.req] \in Entered
        /\ AppsWhole(work[c.req][job[c.req].project].files)

(***************************************************************************)
(* The invariant behind PublishedWhole and PushesStayHome: whichever       *)
(* request's commands run there, a clone at the version of its repository  *)
(* differs from it by complete apps of requests for that project.          *)
(***************************************************************************)
BaseInv ==
    /\ TypeOK
    /\ PublishedWhole
    /\ \A r \in Request, p \in Project : Derived(work[r][p], p, remote[p], version[p])
    /\ \A r \in Request : Generating(r, pc[r], work[r])
    /\ Placed(cwd)

\* Requests to create work in one project one at a time.
Working == {"mkdir", "ok", "fail"} \union Cloning \union Cloned
Exclusive == \A r \in Request : pc[r] \in Working <=> lock[job[r].project] = r

\* The clone of r in its own directory.
Mine(r) == work[r][job[r].project]

\* The process is in the directory that r needs, where nobody was before r.
Located(r) ==
    /\ pc[r] \in {"idle", "wait", "lock", "mkdir"} \union Cloning =>
          ~ Mine(r).there /\ ~ found[r]
    /\ pc[r] \in Cloning \union Cloned => dir[r]
    /\ pc[r] = "clone" => cwd = [req |-> r, place |-> "top"]
    /\ pc[r] \in Saving \ {"enter"} => cwd = [req |-> r, place |-> "repo"]
    /\ pc[r] \in Cloned \ {"load"} => found[r]

\* The clone of r differs from its origin in what r makes; what r wants and the
\* repository has or had is noted.
Unmixed(r) ==
    LET w == Mine(r)
        p == job[r].project IN
    pc[r] \in Cloned /\ found[r] =>
        /\ w.git
        /\ w.origin[Nested] = Nothing
        /\ \A t \in {w.files, w.index, w.head}, e \in Entry :
              t[e] = w.origin[e] \/ Makes(r, p, e, w.origin[e], t[e])
        /\ Held(job[r], remote[p]) \union Held(job[r], w.origin) \subseteq saved[r]

\* What r wants of its app is noted, or held by the tree that is saved next.
Reaches(r, tree) == {"components", "environment"} \subseteq saved[r] \union Held(job[r], tree)
Progress(r) ==
    /\ pc[r] = "load" /\ found[r] => Mine(r).files = Mine(r).origin
    /\ pc[r] \in {"registries", "fetch", "generate"} =>
          "environment" \in Held(job[r], Mine(r).files)
    /\ pc[r] \in {"enter", "add"} => Reaches(r, Mine(r).files)
    /\ pc[r] = "commit" => Reaches(r, Mine(r).index)
    /\ pc[r] \in {"push", "pull"} => Reaches(r, Mine(r).head)
    /\ pc[r] = "ok" \/ reply[r] = "ok" => {"components", "environment"} \subseteq saved[r]
    /\ reply[r] = "ok" => pc[r] = "done"

(***************************************************************************)
(* The invariant behind SavedInOneProject and PushesOwnApp: the lock of    *)
(* the one project keeps the process in the clone of the request that      *)
(* holds it, and that clone has the request's own changes alone.           *)
(***************************************************************************)
OneInv ==
    OneProject =>
        /\ Exclusive
        /\ \A p \in Project : remote[p][Nested] = Nothing
        /\ \A r \in Request : Located(r) /\ Unmixed(r) /\ Progress(r)

IndInv == BaseInv /\ OneInv

\* Every request that arrived is answered.
Answered == \A r \in Request : pc[r] \notin {"idle", "done"} ~> pc[r] = "done"
=============================================================================
