---------------------------- MODULE AppRepoProofs ----------------------------
(***************************************************************************)
(* Theorems about AppRepo, for any projects, requests and apps, any number *)
(* of attempts and of pushes by others.                                    *)
(***************************************************************************)
EXTENDS AppRepo, TLAPS

USE RepoAssumption DEF repos, locks

-----------------------------------------------------------------------------
(* Types *)

LEMMA EntryType ==
    /\ \A a \in App, k \in FileKind : <<a, k>> \in Entry /\ <<a, k>> \in AppEntry
    /\ Nested \in Entry /\ Nested \notin AppEntry
    /\ AppEntry \subseteq Entry
  BY DEF Entry, AppEntry, Nested, FileKind

LEMMA ContentType ==
    /\ Nothing \in Content /\ Stray \in Content
    /\ \A c \in Source : Part(c) \in Content /\ Whole(c) \in Content
    /\ Conf \subseteq Source /\ Comps \subseteq Source
  BY DEF Nothing, Stray, Part, Whole, Content, Source

LEMMA NoWorkType == NoFiles \in Files /\ NoWork \in Work
  <1>1. NoFiles \in Files
    BY ContentType DEF NoFiles, Files
  <1>2. QED
    BY <1>1 DEF NoWork, Work

LEMMA JobType ==
    ASSUME TypeOK, NEW r \in Request
    PROVE  /\ job[r] \in Job
           /\ job[r].project \in Project /\ job[r].app \in App /\ job[r].conf \in Conf
           /\ job[r].comps \in Comps
           /\ job[r].op \in {"create", "apply"}
  BY DEF TypeOK

\* The trees that a request to create makes, entry by entry.
LEMMA BegunType ==
    ASSUME NEW t \in Files, NEW a \in App, NEW c \in Conf, NEW m \in Comps
    PROVE  /\ Begun(t, a, c, m) \in Files
           /\ Begun(t, a, c, m)[Environment(a)] = Whole(c)
           /\ Begun(t, a, c, m)[Components(a)] =
                 IF t[Components(a)] = Nothing THEN Part(m) ELSE t[Components(a)]
           /\ \A e \in Entry \ {Components(a), Environment(a)} : Begun(t, a, c, m)[e] = t[e]
  <1>1. Whole(c) \in Content /\ Part(m) \in Content
    BY ContentType
  <1>2. QED
    BY <1>1, EntryType DEF Begun, Files, Components, Environment, FileKind

LEMMA WithComponentsType ==
    ASSUME NEW t \in Files, NEW a \in App, NEW m \in Comps,
           NEW u \in {WithComponents(t, a, m), WithSome(t, a, m)}
    PROVE  /\ u \in Files
           /\ u[Components(a)].from = t[Components(a)].from \union {m}
           /\ u = WithComponents(t, a, m) => u[Components(a)].whole
           /\ \A e \in Entry \ {Components(a)} : u[e] = t[e]
  <1> DEFINE k == Components(a)
             x == [from |-> t[k].from \union {m}, whole |-> TRUE]
             y == [from |-> t[k].from \union {m}, whole |-> FALSE]
  <1>1. k \in Entry /\ t[k] \in Content /\ m \in Source
    BY EntryType, ContentType DEF Files, Components, FileKind
  <1>2. /\ x \in Content /\ x.from = t[k].from \union {m} /\ x.whole
        /\ y \in Content /\ y.from = t[k].from \union {m}
    BY <1>1 DEF Content, Source
  <1>3. /\ WithComponents(t, a, m) = [t EXCEPT ![k] = x]
        /\ WithSome(t, a, m) = [t EXCEPT ![k] = y]
    BY <1>1 DEF WithComponents, WithSome, Files
  <1> HIDE DEF k, x, y
  <1>4. \A z \in Content :
           /\ [t EXCEPT ![k] = z] \in Files /\ [t EXCEPT ![k] = z][k] = z
           /\ \A e \in Entry \ {k} : [t EXCEPT ![k] = z][e] = t[e]
    BY <1>1 DEF Files
  <1>5. \E z \in {x, y} :
           /\ u = [t EXCEPT ![k] = z]
           /\ u = WithComponents(t, a, m) => u = [t EXCEPT ![k] = x]
    BY <1>3
  <1>6. PICK z \in {x, y} :
           /\ u = [t EXCEPT ![k] = z]
           /\ u = WithComponents(t, a, m) => u = [t EXCEPT ![k] = x]
    BY <1>5
  <1>7. z \in Content /\ z.from = t[k].from \union {m}
    BY <1>2
  <1>8. /\ u \in Files /\ u[k] = z
        /\ \A e \in Entry \ {k} : u[e] = t[e]
    BY <1>4, <1>6, <1>7
  <1>9. u = [t EXCEPT ![k] = x] => u[k] = x
    BY <1>2, <1>4
  <1>10. QED
    BY <1>2, <1>6, <1>7, <1>8, <1>9 DEF k

LEMMA ConfiguredType ==
    ASSUME NEW t \in Files, NEW a \in App, NEW c \in Conf, NEW m \in Comps,
           NEW u \in {Generated(t, a, c, m), HalfWritten(t, a, c, m)}
    PROVE  /\ u \in Files
           /\ u[Configs(a)].from = {c}
           /\ \A e \in Entry \ {Configs(a)} : u[e] = WithComponents(t, a, m)[e]
  <1> DEFINE v == WithComponents(t, a, m)
  <1>1. v \in Files
    BY WithComponentsType
  <1>2. u \in {[v EXCEPT ![Configs(a)] = Whole(c)], [v EXCEPT ![Configs(a)] = Part(c)]}
    BY DEF Generated, HalfWritten
  <1> HIDE DEF v
  <1>3. Configs(a) \in Entry
    BY EntryType DEF Configs, FileKind
  <1>4. /\ Whole(c) \in Content /\ Whole(c).from = {c}
        /\ Part(c) \in Content /\ Part(c).from = {c}
    BY ContentType DEF Whole, Part
  <1>5. \A x \in Content : [v EXCEPT ![Configs(a)] = x] \in Files
    BY <1>1, <1>3 DEF Files
  <1>6. u \in Files /\ u[Configs(a)].from = {c}
    BY <1>1, <1>2, <1>3, <1>4, <1>5 DEF Files
  <1>7. \A e \in Entry \ {Configs(a)} : u[e] = v[e]
    BY <1>1, <1>2, <1>3 DEF Files
  <1>8. QED
    BY <1>6, <1>7 DEF v

LEMMA RebasedType ==
    ASSUME TypeOK, cwd.req \in Request, NEW p \in Project
    PROVE  Rebased(p) \in Files
  <1>1. Here \in Work
    BY JobType DEF TypeOK, Here
  <1>2. Here.head \in Files /\ remote[p] \in Files
    BY <1>1 DEF Work, TypeOK
  <1>3. QED
    BY <1>2 DEF Rebased, Files

\* One clone changes.
LEMMA OneChanged ==
    ASSUME TypeOK, NEW q \in Request, NEW p \in Project, NEW w \in Work,
           work' = [work EXCEPT ![q][p] = w]
    PROVE  /\ work' \in [Request -> [Project -> Work]]
           /\ work'[q][p] = w
           /\ \A r \in Request, s \in Project :
                 r # q \/ s # p => work'[r][s] = work[r][s]
  BY DEF TypeOK

LEMMA GotoType ==
    ASSUME TypeOK, NEW r \in Request, NEW at \in PC, Goto(r, at)
    PROVE  pc' \in [Request -> PC] /\ tries' \in [Request -> 0 .. (MaxTries - 1)]
  BY DEF TypeOK, Goto

LEMMA RetryType ==
    ASSUME TypeOK, NEW r \in Request, NEW at \in PC, NEW after \in PC, Retry(r, at, after)
    PROVE  pc' \in [Request -> PC] /\ tries' \in [Request -> 0 .. (MaxTries - 1)]
  <1>1. CASE tries[r] + 1 < MaxTries
    <2>1. tries[r] + 1 \in 0 .. (MaxTries - 1)
      BY <1>1 DEF TypeOK
    <2>2. /\ pc' = [pc EXCEPT ![r] = at]
          /\ tries' = [tries EXCEPT ![r] = tries[r] + 1]
      BY <1>1 DEF Retry
    <2>3. pc' \in [Request -> PC]
      BY <2>2 DEF TypeOK
    <2>4. tries' \in [Request -> 0 .. (MaxTries - 1)]
      BY <2>1, <2>2 DEF TypeOK
    <2>5. QED
      BY <2>3, <2>4
  <1>2. CASE ~ (tries[r] + 1 < MaxTries)
    BY <1>2, GotoType DEF Retry
  <1>3. QED
    BY <1>1, <1>2

\* The steps before and around generation that change no clone.
LEMMA HandlerType ==
    ASSUME TypeOK, NEW r \in Request,
           \/ Start(r) \/ GetProjectLock(r) \/ TakeLock(r)
           \/ MakeDir(r) \/ EnsureRepo(r) \/ ChdirTop(r) \/ GitCloneFails(r)
           \/ GetRegistryUri(r) \/ Fetch(r) \/ ApplyApp(r) \/ ChdirRepo(r)
           \/ GitPushFails(r)
    PROVE  TypeOK'
  <1>1. pc' \in [Request -> PC] /\ tries' \in [Request -> 0 .. (MaxTries - 1)]
    <2>1. CASE GitPushFails(r)
      BY <2>1 DEF GitPushFails, TypeOK, PC, Saving
    <2>2. CASE GitCloneFails(r)
      BY <2>2, RetryType DEF GitCloneFails, PC, Cloning
    <2>3. CASE \E at \in PC : Goto(r, at)
      BY <2>3, GotoType
    <2>4. QED
      BY <2>1, <2>2, <2>3
      DEF Start, GetProjectLock, TakeLock, MakeDir, EnsureRepo, ChdirTop, GetRegistryUri,
          Fetch, ApplyApp, ChdirRepo, PC, Cloning, Saving
  <1>2. CASE Start(r)
    BY <1>1, <1>2 DEF Start, TypeOK
  <1>3. CASE GetProjectLock(r) \/ EnsureRepo(r) \/ GitCloneFails(r) \/ GitPushFails(r)
    BY <1>1, <1>3 DEF GetProjectLock, EnsureRepo, GitCloneFails, GitPushFails, TypeOK
  <1>4. CASE TakeLock(r)
    <2>1. lock' \in [Project -> Request \union {NoRequest}]
      BY <1>4, JobType DEF TakeLock, TypeOK
    <2>2. QED
      BY <1>1, <1>4, <2>1 DEF TakeLock, TypeOK
  <1>5. CASE MakeDir(r)
    BY <1>1, <1>5 DEF MakeDir, TypeOK
  <1>6. CASE ChdirTop(r) \/ ChdirRepo(r)
    BY <1>1, <1>6 DEF ChdirTop, ChdirRepo, TypeOK
  <1>7. CASE GetRegistryUri(r) \/ Fetch(r)
    BY <1>1, <1>7 DEF GetRegistryUri, Fetch, TypeOK
  <1>8. CASE ApplyApp(r)
    BY <1>1, <1>8 DEF ApplyApp, TypeOK
  <1>9. QED
    BY <1>2, <1>3, <1>4, <1>5, <1>6, <1>7, <1>8

\* A step that changes clones.
LEMMA ChangeType ==
    ASSUME TypeOK, NEW r \in Request, NEW at \in PC, NEW after \in PC,
           Goto(r, at) \/ Retry(r, at, after),
           work' \in [Request -> [Project -> Work]],
           found' \in [Request -> BOOLEAN],
           saved' \in [Request -> SUBSET FileKind],
           UNCHANGED <<remote, version, pushes, locks, cwd, dir, job, reply>>
    PROVE  TypeOK'
  <1>1. pc' \in [Request -> PC] /\ tries' \in [Request -> 0 .. (MaxTries - 1)]
    BY GotoType, RetryType
  <1>2. QED
    BY <1>1 DEF TypeOK

\* Where the process is when it is in a clone.
LEMMA HereType ==
    ASSUME TypeOK, InRepo
    PROVE  /\ cwd.req \in Request /\ cwd.place = "repo"
           /\ job[cwd.req].project \in Project
           /\ Here \in Work
  <1>1. cwd.req \in Request /\ cwd.place = "repo"
    BY DEF TypeOK, InRepo, CwdExists
  <1>2. QED
    BY <1>1, JobType DEF TypeOK, Here

LEMMA CloneOfType == ASSUME TypeOK, NEW p \in Project PROVE CloneOf(p) \in Work
  BY DEF TypeOK, CloneOf, Work

\* What a step makes of the one clone it changes.
LEMMA ChangedType ==
    ASSUME TypeOK, InRepo, NEW w \in Work, Changed(w)
    PROVE  work' \in [Request -> [Project -> Work]]
  BY HereType, OneChanged DEF Changed

LEMMA WorkType ==
    ASSUME NEW w \in Work, NEW t \in Files
    PROVE  /\ [w EXCEPT !.files = t] \in Work
           /\ [w EXCEPT !.there = TRUE, !.files = t] \in Work
           /\ [w EXCEPT !.index = t] \in Work
           /\ [w EXCEPT !.head = t] \in Work
  BY DEF Work

LEMMA HeldType ==
    ASSUME NEW j, NEW t
    PROVE  Held(j, t) \in SUBSET FileKind
  BY DEF Held

LEMMA GitCloneType == ASSUME TypeOK, NEW r \in Request, GitClone(r) PROVE TypeOK'
  <1>1. cwd.req \in Request /\ job[r].project \in Project
    BY JobType DEF GitClone, CwdExists, TypeOK
  <1>2. work' \in [Request -> [Project -> Work]]
    <2>1. CASE work' = [work EXCEPT ![cwd.req][job[r].project] = CloneOf(job[r].project)]
      BY <1>1, <2>1, CloneOfType, OneChanged
    <2>2. CASE InRepo /\ Changed([Here EXCEPT !.files[Nested] = Stray])
      <3>1. Here \in Work
        BY <2>2, HereType
      <3>2. [Here.files EXCEPT ![Nested] = Stray] \in Files
        BY <3>1, EntryType, ContentType DEF Work, Files
      <3>3. [Here EXCEPT !.files[Nested] = Stray] \in Work
        BY <3>1, <3>2 DEF Work
      <3>4. QED
        BY <2>2, <3>3, ChangedType
    <2>3. QED
      BY <2>1, <2>2 DEF GitClone
  <1>3. saved' \in [Request -> SUBSET FileKind]
    BY HeldType DEF GitClone, TypeOK
  <1>4. found' \in [Request -> BOOLEAN]
    BY DEF GitClone, TypeOK
  <1>5. QED
    BY <1>2, <1>3, <1>4, ChangeType DEF GitClone, PC

LEMMA LoadAppType == ASSUME TypeOK, NEW r \in Request, LoadApp(r) PROVE TypeOK'
  <1> DEFINE w == work[r][job[r].project]
             t == Begun(w.files, job[r].app, job[r].conf, job[r].comps)
  <1>1. w \in Work /\ w.files \in Files
    BY JobType DEF TypeOK, Work
  <1>2. t \in Files
    BY <1>1, JobType, BegunType
  <1>3. work' = work \/ work' = [work EXCEPT ![r][job[r].project] =
                                    [w EXCEPT !.there = TRUE, !.files = t]]
    BY JobType DEF LoadApp, TypeOK
  <1> HIDE DEF w, t
  <1>4. work' \in [Request -> [Project -> Work]]
    <2>1. [w EXCEPT !.there = TRUE, !.files = t] \in Work
      BY <1>1, <1>2, WorkType, Zenon
    <2>2. QED
      BY <1>3, <2>1, OneChanged, JobType DEF TypeOK
  <1>5. found' \in [Request -> BOOLEAN] /\ saved' \in [Request -> SUBSET FileKind]
    BY DEF LoadApp, TypeOK
  <1>6. QED
    BY <1>4, <1>5, ChangeType DEF LoadApp, PC

\* What a request for m and c may leave of files f.
Outcome(f, a, c, m) ==
    {f, WithSome(f, a, m), WithComponents(f, a, m),
     Generated(f, a, c, m), HalfWritten(f, a, c, m)}

LEMMA OutcomeType ==
    ASSUME NEW f \in Files, NEW a \in App, NEW c \in Conf, NEW m \in Comps
    PROVE  Outcome(f, a, c, m) \subseteq Files
  <1>1. {WithSome(f, a, m), WithComponents(f, a, m)} \subseteq Files
    BY WithComponentsType
  <1>2. {Generated(f, a, c, m), HalfWritten(f, a, c, m)} \subseteq Files
    BY ConfiguredType
  <1>3. QED
    BY <1>1, <1>2 DEF Outcome

LEMMA GenerateType == ASSUME TypeOK, NEW r \in Request, Generate(r) PROVE TypeOK'
  <1> DEFINE w == work[r][job[r].project]
             a == job[r].app
             c == job[r].conf
             m == job[r].comps
  <1>1. w \in Work /\ w.files \in Files /\ a \in App /\ c \in Conf /\ m \in Comps
    BY JobType DEF TypeOK, Work
  <1>2. \E t \in Outcome(w.files, a, c, m) :
           work' = [work EXCEPT ![r][job[r].project] = [w EXCEPT !.files = t]]
    BY JobType DEF Generate, TypeOK, Outcome
  <1> HIDE DEF w, a, c, m
  <1>3. work' \in [Request -> [Project -> Work]]
    <2>1. Outcome(w.files, a, c, m) \subseteq Files
      BY <1>1, OutcomeType
    <2>2. \E u \in Work : work' = [work EXCEPT ![r][job[r].project] = u]
      BY <1>1, <1>2, <2>1, WorkType, Zenon
    <2>3. QED
      BY <2>2, OneChanged, JobType
  <1>4. found' \in [Request -> BOOLEAN] /\ saved' \in [Request -> SUBSET FileKind]
    BY DEF Generate, TypeOK
  <1>5. QED
    BY <1>3, <1>4, ChangeType DEF Generate, PC, Saving

LEMMA GitAddType == ASSUME TypeOK, NEW r \in Request, GitAdd(r) PROVE TypeOK'
  <1>1. work' \in [Request -> [Project -> Work]]
    <2>1. CASE InClone /\ Changed([Here EXCEPT !.index = Here.files])
      <3>1. Here \in Work /\ Here.files \in Files /\ InRepo
        BY <2>1, HereType DEF InClone, Work
      <3>2. QED
        BY <2>1, <3>1, WorkType, ChangedType, Zenon
    <2>2. CASE UNCHANGED work
      BY <2>2 DEF TypeOK
    <2>3. QED
      BY <2>1, <2>2 DEF GitAdd
  <1>2. found' \in [Request -> BOOLEAN] /\ saved' \in [Request -> SUBSET FileKind]
    BY DEF GitAdd, TypeOK
  <1>3. QED
    BY <1>1, <1>2, ChangeType DEF GitAdd, PC, Saving

LEMMA GitCommitType == ASSUME TypeOK, NEW r \in Request, GitCommit(r) PROVE TypeOK'
  <1>1. work' \in [Request -> [Project -> Work]]
    <2>1. CASE InClone /\ Changed([Here EXCEPT !.head = Here.index])
      <3>1. Here \in Work /\ Here.index \in Files /\ InRepo
        BY <2>1, HereType DEF InClone, Work
      <3>2. QED
        BY <2>1, <3>1, WorkType, ChangedType, Zenon
    <2>2. CASE UNCHANGED work
      BY <2>2 DEF TypeOK
    <2>3. QED
      BY <2>1, <2>2 DEF GitCommit
  <1>2. found' \in [Request -> BOOLEAN] /\ saved' \in [Request -> SUBSET FileKind]
    BY DEF GitCommit, TypeOK
  <1>3. QED
    BY <1>1, <1>2, ChangeType DEF GitCommit, PC, Saving

LEMMA GitPullType == ASSUME TypeOK, NEW r \in Request, GitPull(r) PROVE TypeOK'
  <1> DEFINE p == job[cwd.req].project
  <1>1. work' \in [Request -> [Project -> Work]]
    <2>1. CASE InClone /\ \E w \in {[Here EXCEPT !.stuck = TRUE],
                                   [Here EXCEPT !.base = version[p], !.origin = remote[p],
                                      !.head = Rebased(p), !.index = Rebased(p),
                                      !.files = Rebased(p)]} : Changed(w)
      <3>1. Here \in Work /\ p \in Project /\ cwd.req \in Request /\ InRepo
        BY <2>1, HereType DEF InClone
      <3>2. Rebased(p) \in Files /\ remote[p] \in Files /\ version[p] \in Nat
        BY <3>1, RebasedType DEF TypeOK
      <3>3. /\ [Here EXCEPT !.stuck = TRUE] \in Work
            /\ [Here EXCEPT !.base = version[p], !.origin = remote[p],
                  !.head = Rebased(p), !.index = Rebased(p), !.files = Rebased(p)] \in Work
        BY <3>1, <3>2 DEF Work
      <3>4. QED
        BY <2>1, <3>1, <3>3, ChangedType
    <2>2. CASE UNCHANGED work
      BY <2>2 DEF TypeOK
    <2>3. QED
      BY <2>1, <2>2 DEF GitPull
  <1>2. found' \in [Request -> BOOLEAN] /\ saved' \in [Request -> SUBSET FileKind]
    BY DEF GitPull, TypeOK
  <1>3. QED
    BY <1>1, <1>2, ChangeType DEF GitPull, PC, Saving

LEMMA GitPushType == ASSUME TypeOK, NEW r \in Request, GitPush(r) PROVE TypeOK'
  <1> DEFINE p == job[cwd.req].project
             v == IF Here.head = Here.origin THEN version[p] ELSE version[p] + 1
             w == [Here EXCEPT !.origin = Here.head, !.base = v]
  <1>1. /\ InRepo /\ Changed(w)
        /\ remote' = [remote EXCEPT ![p] = Here.head]
        /\ version' = [version EXCEPT ![p] = v]
    BY DEF GitPush, InClone
  <1>2. p \in Project /\ Here \in Work /\ Here.head \in Files
    BY <1>1, HereType DEF Work
  <1>3. v \in Nat
    BY <1>2 DEF TypeOK
  <1>4. w \in Work
    BY <1>2, <1>3 DEF Work
  <1> HIDE DEF p, v, w
  <1>5. /\ remote' \in [Project -> Files] /\ version' \in [Project -> Nat]
        /\ work' \in [Request -> [Project -> Work]]
    BY <1>1, <1>2, <1>3, <1>4, ChangedType DEF TypeOK
  <1>6. saved' \in [Request -> SUBSET FileKind]
    BY HeldType DEF GitPush, Note, TypeOK
  <1>7. pc' \in [Request -> PC] /\ tries' \in [Request -> 0 .. (MaxTries - 1)]
    BY GotoType DEF GitPush, PC
  <1>8. QED
    BY <1>5, <1>6, <1>7 DEF GitPush, TypeOK

LEMMA ReturnType == ASSUME TypeOK, NEW r \in Request, Return(r) PROVE TypeOK'
  <1>1. job[r].project \in Project
    BY JobType
  <1>2. work' \in [Request -> [Project -> Work]]
    BY NoWorkType DEF Return, TypeOK
  <1>3. dir' \in [Request -> BOOLEAN]
    BY DEF Return, TypeOK
  <1>4. lock' \in [Project -> Request \union {NoRequest}]
    BY <1>1 DEF Return, TypeOK
  <1>5. reply' \in [Request -> {"none", "ok", "error"}]
    BY DEF Return, TypeOK
  <1>6. pc' \in [Request -> PC] /\ tries' \in [Request -> 0 .. (MaxTries - 1)]
    BY GotoType DEF Return, PC
  <1>7. QED
    BY <1>2, <1>3, <1>4, <1>5, <1>6 DEF Return, TypeOK

LEMMA OutsideType == ASSUME TypeOK, NEW p \in Project, OutsidePush(p) PROVE TypeOK'
  <1>1. remote' \in [Project -> Files]
    <2>1. ASSUME NEW a \in App, NEW c \in Conf, NEW m \in Comps,
                 remote' = [remote EXCEPT ![p] = Generated(Begun(@, a, c, m), a, c, m)]
          PROVE  remote' \in [Project -> Files]
      <3>1. remote[p] \in Files /\ Begun(remote[p], a, c, m) \in Files
        BY BegunType DEF TypeOK
      <3>2. Generated(Begun(remote[p], a, c, m), a, c, m) \in Files
        BY <3>1, ConfiguredType
      <3>3. QED
        BY <2>1, <3>2 DEF TypeOK
    <2>2. ASSUME NEW a \in App, NEW k \in FileKind, NEW x \in Source,
                 remote' = [remote EXCEPT ![p][<<a, k>>] = Whole(x)]
          PROVE  remote' \in [Project -> Files]
      <3>1. <<a, k>> \in Entry /\ Whole(x) \in Content /\ remote[p] \in Files
        BY EntryType, ContentType DEF TypeOK
      <3>2. [remote[p] EXCEPT ![<<a, k>>] = Whole(x)] \in Files
        BY <3>1 DEF Files
      <3>3. QED
        BY <2>2, <3>2 DEF TypeOK
    <2>3. CASE \E a \in App, c \in Conf, m \in Comps :
                 remote' = [remote EXCEPT ![p] = Generated(Begun(@, a, c, m), a, c, m)]
      BY <2>1, <2>3
    <2>4. CASE \E a \in App, k \in FileKind, x \in Source :
                 remote' = [remote EXCEPT ![p][<<a, k>>] = Whole(x)]
      BY <2>2, <2>4
    <2>5. QED
      BY <2>3, <2>4 DEF OutsidePush, Source
  <1>2. version' \in [Project -> Nat]
    BY DEF OutsidePush, TypeOK
  <1>3. pushes' \in [Project -> Nat] /\ \A q \in Project : pushes'[q] <= MaxOutside[q]
    BY DEF OutsidePush, TypeOK
  <1>4. saved' \in [Request -> SUBSET FileKind]
    BY HeldType DEF OutsidePush, Note, TypeOK
  <1>5. QED
    BY <1>1, <1>2, <1>3, <1>4 DEF OutsidePush, TypeOK

LEMMA InitType == Init => TypeOK
  BY NoWorkType DEF Init, TypeOK, PC

LEMMA TypeStep == TypeOK /\ [Next]_vars => TypeOK'
  <1> SUFFICES ASSUME TypeOK, [Next]_vars PROVE TypeOK'
    OBVIOUS
  <1>1. ASSUME NEW r \in Request, Step(r) PROVE TypeOK'
    BY <1>1, HandlerType, GitCloneType, LoadAppType, GenerateType, GitAddType,
       GitCommitType, GitPushType, GitPullType, ReturnType
    DEF Step, Clone, Save
  <1>2. ASSUME NEW p \in Project, OutsidePush(p) PROVE TypeOK'
    BY <1>2, OutsideType
  <1>3. CASE UNCHANGED vars
    BY <1>3 DEF vars, TypeOK
  <1>4. QED
    BY <1>1, <1>2, <1>3 DEF Next

(***************************************************************************)
(* The types: no step leads into a tree or a clone that git could not have *)
(* made, attempts stay below their bound, and the process is in some       *)
(* request's directory or in none.                                         *)
(***************************************************************************)
THEOREM TypeCorrect == Spec => []TypeOK
  BY InitType, TypeStep, PTL DEF Spec

-----------------------------------------------------------------------------
(* What becomes of a clone *)

LEMMA KindType ==
    ASSUME NEW a \in App
    PROVE  Components(a) \in AppEntry /\ Environment(a) \in AppEntry /\ Configs(a) \in AppEntry
  BY EntryType DEF Components, Environment, Configs, FileKind

\* Kinds of files are told apart, and so are apps.
LEMMA KindsDiffer ==
    ASSUME NEW a \in App, NEW b \in App
    PROVE  /\ Components(a) # Environment(b) /\ Components(a) # Configs(b)
           /\ Environment(a) # Configs(b)
           /\ a # b => /\ Components(a) # Components(b) /\ Environment(a) # Environment(b)
                      /\ Configs(a) # Configs(b)
           /\ \A k \in FileKind : a # b => <<b, k>> \notin {Components(a), Environment(a), Configs(a)}
  BY DEF Components, Environment, Configs

LEMMA WholeIsSome ==
    ASSUME NEW x \in Content
    PROVE  /\ x.whole => x # Nothing
           /\ \A p, e, old : \A r \in Request :
                 TypeOK /\ Makes(r, p, e, old, x) => x # Nothing
  BY JobType DEF Nothing, Makes

\* A request goes on with what it makes of an entry: still it makes it of what
\* was there before.
LEMMA MakesMore ==
    ASSUME NEW r \in Request, job[r].op = "create", NEW e, NEW o, NEW x, NEW y,
           x = o \/ Makes(r, job[r].project, e, o, x),
           \/ y = x
           \/ /\ e \in {Environment(job[r].app), Configs(job[r].app)}
              /\ y.from = {job[r].conf}
           \/ e = Components(job[r].app) /\ y.from = x.from \union {job[r].comps},
           Components(job[r].app) \notin {Environment(job[r].app), Configs(job[r].app)}
    PROVE  y = o \/ Makes(r, job[r].project, e, o, y)
  BY DEF Makes

\* A request makes nothing of other apps.
LEMMA MakesOwn ==
    ASSUME NEW r \in Request, job[r].app \in App, NEW b \in App \ {job[r].app},
           NEW k \in FileKind, NEW p, NEW o, NEW x
    PROVE  ~ Makes(r, p, <<b, k>>, o, x)
  BY KindsDiffer DEF Makes

\* What has been staged or committed, a request to create has made.
LEMMA HeadMade ==
    ASSUME NEW w \in Work, NEW p, NEW t, NEW v, Derived(w, p, t, v),
           NEW e \in AppEntry, w.head[e] # w.origin[e]
    PROVE  \E q \in Request : Makes(q, p, e, w.origin[e], w.head[e])
  BY DEF Derived, Clean, Staged, Agree

LEMMA CloneDerived ==
    ASSUME TypeOK, PublishedWhole, NEW p \in Project
    PROVE  Derived(CloneOf(p), p, remote[p], version[p]) /\ Clean(CloneOf(p))
           /\ CloneOf(p).files = CloneOf(p).origin
  BY DEF TypeOK, PublishedWhole, Derived, CloneOf, Clean, Agree

LEMMA NoFilesWhole == AppsWhole(NoFiles)
  BY KindType, EntryType DEF AppsWhole, NoFiles

LEMMA NoWorkDerived ==
    ASSUME NEW p, NEW t, NEW v
    PROVE  Derived(NoWork, p, t, v) /\ Clean(NoWork) /\ AppsWhole(NoWork.files)
  BY NoFilesWhole, EntryType DEF Derived, NoWork, NoFiles, Clean, Agree

\* Files outside the apps do not matter.
LEMMA FilesDerived ==
    ASSUME NEW w \in Work, NEW u \in Work, NEW p, NEW t, NEW v, Derived(w, p, t, v),
           Agree(u.files, w.files),
           u.index = w.index, u.head = w.head, u.origin = w.origin,
           u.base = w.base, u.git = w.git
    PROVE  Derived(u, p, t, v)
  BY DEF Derived, Clean, Staged, Agree

LEMMA AgreeWhole ==
    ASSUME NEW f, NEW g, Agree(f, g), AppsWhole(f)
    PROVE  AppsWhole(g)
  BY KindType DEF Agree, AppsWhole

\* A request makes files of its app, nothing being staged.
LEMMA MadeDerived ==
    ASSUME NEW w \in Work, NEW u \in Work, NEW p, NEW t, NEW v, Derived(w, p, t, v),
           Clean(w), u.index = w.index, u.head = w.head, u.origin = w.origin,
           u.base = w.base, u.git = w.git,
           \A e \in AppEntry :
              \/ u.files[e] = w.origin[e]
              \/ \E q \in Request : Makes(q, p, e, w.origin[e], u.files[e])
    PROVE  Derived(u, p, t, v) /\ Clean(u)
  BY DEF Derived, Clean, Agree

LEMMA AddDerived ==
    ASSUME NEW w \in Work, NEW p, NEW t, NEW v, Derived(w, p, t, v), AppsWhole(w.files)
    PROVE  Derived([w EXCEPT !.index = w.files], p, t, v)
  <1> DEFINE u == [w EXCEPT !.index = w.files]
  <1>1. /\ u.index = w.files /\ u.files = w.files /\ u.head = w.head /\ u.origin = w.origin
        /\ u.base = w.base /\ u.git = w.git
    BY DEF Work
  <1> HIDE DEF u
  <1>2. Staged(u)
    BY <1>1 DEF Derived, Clean, Staged, Agree
  <1>3. Derived(u, p, t, v)
    BY <1>1, <1>2 DEF Derived
  <1>4. QED
    BY <1>3 DEF u

LEMMA CommitDerived ==
    ASSUME NEW w \in Work, NEW p, NEW t, NEW v, Derived(w, p, t, v)
    PROVE  Derived([w EXCEPT !.head = w.index], p, t, v)
  <1> DEFINE u == [w EXCEPT !.head = w.index]
  <1>1. /\ u.index = w.index /\ u.files = w.files /\ u.head = w.index /\ u.origin = w.origin
        /\ u.base = w.base /\ u.git = w.git
    BY DEF Work
  <1> HIDE DEF u
  <1>2. Clean(u) \/ Staged(u)
    BY <1>1 DEF Derived, Clean, Staged, Agree
  <1>3. Derived(u, p, t, v)
    BY <1>1, <1>2 DEF Derived
  <1>4. QED
    BY <1>3 DEF u

LEMMA PushDerived ==
    ASSUME NEW w \in Work, NEW p, NEW t, NEW v \in Nat, NEW n \in Nat, Derived(w, p, t, v)
    PROVE  Derived([w EXCEPT !.origin = w.head, !.base = n], p, w.head, n)
  <1> DEFINE u == [w EXCEPT !.origin = w.head, !.base = n]
  <1>1. /\ u.index = w.index /\ u.files = w.files /\ u.head = w.head /\ u.origin = w.head
        /\ u.base = n
    BY DEF Work
  <1> HIDE DEF u
  <1>2. Clean(u) \/ Staged(u)
    BY <1>1 DEF Derived, Clean, Staged, Agree
  <1>3. \A e \in AppEntry :
           \/ u.files[e] = u.origin[e]
           \/ \E q \in Request : Makes(q, p, e, u.origin[e], u.files[e])
    BY <1>1 DEF Derived, Clean, Staged, Agree
  <1>4. Derived(u, p, w.head, n)
    BY <1>1, <1>2, <1>3 DEF Derived
  <1>5. QED
    BY <1>4 DEF u

\* Pushed by somebody else, a repository only grows.
LEMMA GrownDerived ==
    ASSUME NEW w \in Work, NEW p, NEW t, NEW g, NEW v \in Nat, Derived(w, p, t, v),
           \A e \in AppEntry : t[e] # Nothing => g[e] # Nothing
    PROVE  Derived(w, p, g, v + 1)
  <1>1. w.git => w.base <= v + 1 /\ w.base # v + 1
    BY DEF Work, Derived
  <1>2. QED
    BY <1>1 DEF Derived

(***************************************************************************)
(* A rebase without conflict: what the clone has made stays its own, and   *)
(* no app is put together from two halves, as an app that the clone's      *)
(* origin had is still in the repository.                                  *)
(***************************************************************************)
LEMMA PullDerived ==
    ASSUME TypeOK, PublishedWhole, InRepo, NEW p \in Project,
           NEW v \in Nat, Derived(Here, p, remote[p], v),
           ~ Conflict(p), Here.files = Here.head, Here.index = Here.head
    PROVE  /\ Derived([Here EXCEPT !.base = version[p], !.origin = remote[p],
                         !.head = Rebased(p), !.index = Rebased(p), !.files = Rebased(p)],
                      p, remote[p], version[p])
           /\ AppsWhole(Rebased(p))
  <1> DEFINE t == remote[p]
             g == Rebased(p)
             u == [Here EXCEPT !.base = version[p], !.origin = t,
                               !.head = g, !.index = g, !.files = g]
  <1>1. Here \in Work /\ Here.head \in Files /\ Here.origin \in Files /\ t \in Files
        /\ cwd.req \in Request
    BY HereType DEF Work, TypeOK
  <1>2. \A e \in AppEntry :
           g[e] = IF Here.head[e] # Here.origin[e] THEN Here.head[e] ELSE t[e]
    BY EntryType DEF Rebased
  <1>3. /\ u.base = version[p] /\ u.origin = t /\ u.head = g /\ u.index = g /\ u.files = g
        /\ version[p] \in Nat
    BY <1>1 DEF Work, TypeOK
  <1>4. \A e \in AppEntry : Here.head[e] # Here.origin[e] =>
           t[e] = Here.origin[e] \/ t[e] = Here.head[e]
    BY EntryType DEF Conflict
  <1>5. \A e \in AppEntry : Here.head[e] # Here.origin[e] =>
           /\ \E q \in Request : Makes(q, p, e, Here.origin[e], Here.head[e])
           /\ Here.head[e] # Nothing
    BY <1>1, HeadMade, WholeIsSome, EntryType DEF Files
  <1>6. /\ AppsWhole(t) /\ AppsWhole(Here.origin) /\ AppsWhole(Here.head)
        /\ \A e \in AppEntry : Here.origin[e] # Nothing => t[e] # Nothing
    BY DEF PublishedWhole, Derived
  <1> HIDE DEF u, g, t
  <1>7. \A e \in AppEntry :
           \/ g[e] = t[e]
           \/ \E q \in Request : Makes(q, p, e, t[e], g[e])
    BY <1>2, <1>4, <1>5
  <1>8. AppsWhole(g)
    <2> SUFFICES ASSUME NEW a \in App
                 PROVE  \/ g[Components(a)] = Nothing /\ g[Environment(a)] = Nothing
                        \/ g[Components(a)].whole /\ g[Environment(a)].whole
      BY DEF AppsWhole
    <2> DEFINE k == Components(a)
               n == Environment(a)
    <2>1. k \in AppEntry /\ n \in AppEntry /\ k # n
      BY KindType, KindsDiffer
    <2>2. \A x \in Content : x.whole => x # Nothing
      BY WholeIsSome
    <2>3. /\ Here.head[k] \in Content /\ Here.head[n] \in Content
          /\ Here.origin[k] \in Content /\ Here.origin[n] \in Content
          /\ t[k] \in Content /\ t[n] \in Content
      BY <1>1, <2>1, EntryType DEF Files
    <2>4. /\ \/ t[k] = Nothing /\ t[n] = Nothing
             \/ t[k].whole /\ t[n].whole
          /\ \/ Here.origin[k] = Nothing /\ Here.origin[n] = Nothing
             \/ Here.origin[k].whole /\ Here.origin[n].whole
          /\ \/ Here.head[k] = Nothing /\ Here.head[n] = Nothing
             \/ Here.head[k].whole /\ Here.head[n].whole
      BY <1>6 DEF AppsWhole
    <2> HIDE DEF k, n
    <2>6. \/ g[k] = Nothing /\ g[n] = Nothing
          \/ g[k].whole /\ g[n].whole
      <3>1. CASE Here.head[k] # Here.origin[k]
        <4>1. Here.head[k].whole /\ Here.head[n].whole /\ g[k] = Here.head[k]
          BY <1>2, <1>5, <2>1, <2>4, <3>1
        <4>2. CASE Here.head[n] # Here.origin[n]
          BY <1>2, <2>1, <4>1, <4>2
        <4>3. CASE Here.head[n] = Here.origin[n]
          <5>1. t[n] # Nothing
            BY <1>6, <2>1, <2>2, <2>3, <4>1, <4>3
          <5>2. QED
            BY <1>2, <2>1, <2>4, <4>1, <4>3, <5>1
        <4>4. QED
          BY <4>2, <4>3
      <3>2. CASE Here.head[k] = Here.origin[k] /\ Here.head[n] # Here.origin[n]
        <4>1. Here.head[k].whole /\ Here.head[n].whole
          BY <1>5, <2>1, <2>4, <3>2
        <4>2. t[k].whole
          BY <1>6, <2>1, <2>2, <2>3, <2>4, <3>2, <4>1
        <4>3. QED
          BY <1>2, <2>1, <3>2, <4>1, <4>2
      <3>3. CASE Here.head[k] = Here.origin[k] /\ Here.head[n] = Here.origin[n]
        BY <1>2, <2>1, <2>4, <3>3
      <3>4. QED
        BY <3>1, <3>2, <3>3
    <2>7. QED
      BY <2>6 DEF k, n
  <1>9. Staged(u)
    BY <1>3 DEF Staged, Agree
  <1>10. Derived(u, p, t, version[p])
    BY <1>3, <1>6, <1>7, <1>8, <1>9 DEF Derived
  <1>11. QED
    BY <1>8, <1>10 DEF u, g, t

-----------------------------------------------------------------------------
(* The invariant, step by step *)

Making == {"registries", "fetch", "generate"}

\* Request r moves on, never back from where its app is saved.
Moves(r, at) ==
    /\ pc' = [pc EXCEPT ![r] = at]
    /\ pc[r] \in Entered => at \in Entered

\* It neither begins to generate its app nor to save it.
Calm(r, at) ==
    /\ at \in Making => pc[r] \in Making
    /\ at \in Saving => pc[r] \in Saving

LEMMA BaseFrom ==
    ASSUME TypeOK', job' = job,
           \A p \in Project : AppsWhole(remote'[p]),
           \A r \in Request, p \in Project : Derived(work'[r][p], p, remote'[p], version'[p]),
           \A r \in Request : Generating(r, pc'[r], work'[r]),
           cwd'.place = "repo" =>
               /\ cwd'.req \in Request
               /\ pc'[cwd'.req] \in Entered
               /\ AppsWhole(work'[cwd'.req][job[cwd'.req].project].files)
    PROVE  BaseInv'
  <1>1. \A r \in Request, p \in Project : Derived(work[r][p], p, remote[p], version[p])'
    BY DEF Derived, Makes
  <1>2. \A r \in Request : Generating(r, pc[r], work[r])'
    BY DEF Generating, Makes
  <1>3. PublishedWhole' /\ Placed(cwd)'
    BY DEF PublishedWhole, Placed
  <1>4. QED
    BY <1>1, <1>2, <1>3 DEF BaseInv

LEMMA PcKeeps ==
    ASSUME BaseInv, TypeOK', NEW r \in Request, NEW at \in PC, Moves(r, at), Calm(r, at),
           UNCHANGED <<work, remote, version, job>>,
           \/ cwd' = cwd
           \/ cwd'.place = "top"
           \/ cwd'.req = r /\ pc[r] \in Saving /\ at \in Entered
    PROVE  BaseInv'
  <1>1. pc'[r] = at /\ \A q \in Request \ {r} : pc'[q] = pc[q]
    BY DEF Moves, BaseInv, TypeOK
  <1>2. \A q \in Request : Generating(q, pc'[q], work'[q])
    <2>1. Generating(r, at, work[r])
      BY DEF Generating, BaseInv, Moves, Calm, Making
    <2>2. QED
      BY <1>1, <2>1 DEF BaseInv
  <1>3. CASE cwd' = cwd
    BY <1>1, <1>2, <1>3, BaseFrom DEF BaseInv, PublishedWhole, Placed, Moves
  <1>4. CASE cwd'.place = "top"
    BY <1>2, <1>4, BaseFrom DEF BaseInv, PublishedWhole
  <1>5. CASE cwd'.req = r /\ pc[r] \in Saving /\ at \in Entered
    <2>1. AppsWhole(work[r][job[r].project].files)
      BY <1>5 DEF BaseInv, Generating
    <2>2. QED
      BY <1>1, <1>2, <1>5, <2>1, BaseFrom DEF BaseInv, PublishedWhole
  <1>6. QED
    BY <1>3, <1>4, <1>5

LEMMA OneKeeps ==
    ASSUME BaseInv, TypeOK', NEW r \in Request, NEW at \in PC, Moves(r, at),
           NEW q \in Request, NEW p \in Project, NEW w \in Work,
           work' = [work EXCEPT ![q][p] = w],
           UNCHANGED <<remote, version, job, cwd>>,
           Derived(w, p, remote[p], version[p]),
           Generating(q, pc'[q], work'[q]),
           r # q => Calm(r, at),
           cwd.place = "repo" /\ cwd.req = q /\ p = job[q].project => AppsWhole(w.files)
    PROVE  BaseInv'
  <1>1. pc'[r] = at /\ \A s \in Request \ {r} : pc'[s] = pc[s]
    BY DEF Moves, BaseInv, TypeOK
  <1>2. /\ work'[q][p] = w
        /\ \A s \in Request, x \in Project : s # q \/ x # p => work'[s][x] = work[s][x]
        /\ \A s \in Request \ {q} : work'[s] = work[s]
    BY OneChanged DEF BaseInv, TypeOK
  <1>3. \A s \in Request : Generating(s, pc'[s], work'[s])
    <2>1. r # q => Generating(r, at, work[r])
      BY DEF Generating, BaseInv, Moves, Calm, Making
    <2>2. QED
      BY <1>1, <1>2, <2>1 DEF BaseInv
  <1>4. \A s \in Request, x \in Project : Derived(work'[s][x], x, remote'[x], version'[x])
    BY <1>2 DEF BaseInv
  <1>5. cwd.place = "repo" =>
               /\ cwd.req \in Request
               /\ pc'[cwd.req] \in Entered
               /\ AppsWhole(work'[cwd.req][job[cwd.req].project].files)
    <2> SUFFICES ASSUME cwd.place = "repo"
                 PROVE  /\ cwd.req \in Request
                        /\ pc'[cwd.req] \in Entered
                        /\ AppsWhole(work'[cwd.req][job[cwd.req].project].files)
      OBVIOUS
    <2>1. /\ cwd.req \in Request /\ pc[cwd.req] \in Entered
          /\ AppsWhole(work[cwd.req][job[cwd.req].project].files)
          /\ job[cwd.req].project \in Project
      BY JobType DEF BaseInv, Placed
    <2>2. pc'[cwd.req] \in Entered
      BY <1>1, <2>1 DEF Moves
    <2>3. AppsWhole(work'[cwd.req][job[cwd.req].project].files)
      BY <1>2, <2>1
    <2>4. QED
      BY <2>1, <2>2, <2>3, Zenon
  <1>6. QED
    BY <1>3, <1>4, <1>5, BaseFrom DEF BaseInv, PublishedWhole

LEMMA RetryMoves ==
    ASSUME NEW r \in Request, NEW at \in PC, NEW after \in PC, Retry(r, at, after)
    PROVE  \E x \in {at, after} : pc' = [pc EXCEPT ![r] = x]
  BY DEF Retry, Goto

LEMMA HandlerKeeps ==
    ASSUME BaseInv, TypeOK', NEW r \in Request,
           \/ Start(r) \/ GetProjectLock(r) \/ TakeLock(r)
           \/ MakeDir(r) \/ EnsureRepo(r) \/ ChdirTop(r) \/ GitCloneFails(r)
           \/ GetRegistryUri(r) \/ Fetch(r) \/ ApplyApp(r) \/ ChdirRepo(r)
           \/ GitPushFails(r)
    PROVE  BaseInv'
  <1> USE PcKeeps DEF PC, Cloning, Saving, Making, Entered, Moves, Calm, Goto
  <1>1. CASE Start(r)
    BY <1>1 DEF Start
  <1>2. CASE GetProjectLock(r)
    BY <1>2 DEF GetProjectLock
  <1>3. CASE TakeLock(r)
    BY <1>3 DEF TakeLock
  <1>4. CASE MakeDir(r)
    BY <1>4 DEF MakeDir
  <1>5. CASE EnsureRepo(r)
    BY <1>5 DEF EnsureRepo
  <1>6. CASE ChdirTop(r)
    BY <1>6 DEF ChdirTop
  <1>7. CASE GitCloneFails(r)
    BY <1>7, RetryMoves DEF GitCloneFails
  <1>8. CASE GetRegistryUri(r)
    BY <1>8 DEF GetRegistryUri
  <1>9. CASE Fetch(r)
    BY <1>9 DEF Fetch
  <1>10. CASE ApplyApp(r)
    BY <1>10 DEF ApplyApp
  <1>11. CASE ChdirRepo(r)
    BY <1>11 DEF ChdirRepo
  <1>12. CASE GitPushFails(r)
    BY <1>12 DEF GitPushFails
  <1>13. QED
    BY <1>1, <1>2, <1>3, <1>4, <1>5, <1>6, <1>7, <1>8, <1>9, <1>10, <1>11, <1>12

LEMMA GitCloneKeeps == ASSUME BaseInv, TypeOK', NEW r \in Request, GitClone(r) PROVE BaseInv'
  <1>1. /\ TypeOK /\ PublishedWhole /\ cwd.req \in Request
        /\ Moves(r, "load") /\ Calm(r, "load") /\ "load" \in PC
        /\ UNCHANGED <<remote, version, job, cwd>>
    BY DEF GitClone, Goto, Moves, Calm, Entered, Making, Saving, PC, CwdExists, BaseInv, TypeOK
  <1>2. pc'[r] = "load" /\ \A q \in Request \ {r} : pc'[q] = pc[q]
    BY <1>1 DEF Moves, TypeOK
  <1> DEFINE q == cwd.req
  <1>3. CASE cwd.place = "top" /\ ~ work[q][job[r].project].there
             /\ work' = [work EXCEPT ![q][job[r].project] = CloneOf(job[r].project)]
    <2> DEFINE p == job[r].project
               w == CloneOf(p)
    <2>1. p \in Project /\ w \in Work
      BY <1>1, JobType, CloneOfType
    <2>2. Derived(w, p, remote[p], version[p]) /\ Clean(w) /\ w.files = w.origin
          /\ AppsWhole(w.files)
      BY <1>1, <2>1, CloneDerived DEF PublishedWhole, CloneOf
    <2>3. work' = [work EXCEPT ![q][p] = w]
      BY <1>3
    <2>4. ~ work[q][p].there
      BY <1>3
    <2> HIDE DEF w, p
    <2>5. /\ work'[q][p] = w
          /\ \A x \in Project \ {p} : work'[q][x] = work[q][x]
      BY <1>1, <2>1, <2>3 DEF TypeOK
    <2>6. Generating(q, pc'[q], work'[q])
      <3>1. Generating(q, pc'[q], work[q])
        BY <1>1, <1>2 DEF BaseInv, Generating, Entered, Making, Saving, Moves, Calm
      <3>2. CASE job[q].project = p
        <4>1. pc'[q] \notin Making
          BY <2>4, <3>1, <3>2 DEF Generating, Making
        <4>2. \A e \in AppEntry : w.files[e] = w.origin[e]
          BY <2>2
        <4>3. pc'[q] \notin Entered => \A x \in Project : Clean(work'[q][x])
          BY <2>2, <2>5, <3>1 DEF Generating
        <4>4. work'[q][job[q].project] = w
          BY <2>5, <3>2
        <4>5. QED
          BY <2>2, <4>1, <4>2, <4>3, <4>4 DEF Generating, Making
      <3>3. CASE job[q].project # p
        <4>1. pc'[q] \notin Entered => \A x \in Project : Clean(work'[q][x])
          BY <2>2, <2>5, <3>1 DEF Generating
        <4>2. work'[q][job[q].project] = work[q][job[q].project]
          BY <1>1, <2>5, <3>3, JobType
        <4>3. QED
          BY <3>1, <4>1, <4>2, Zenon DEF Generating
      <3>4. QED
        BY <3>2, <3>3
    <2>7. QED
      BY <1>1, <1>3, <2>1, <2>2, <2>6, <2>3, OneKeeps
  <1>4. CASE InRepo /\ Changed([Here EXCEPT !.files[Nested] = Stray])
    <2> DEFINE p == job[q].project
               w == [Here EXCEPT !.files[Nested] = Stray]
    <2>1. p \in Project /\ Here \in Work /\ cwd.place = "repo"
      BY <1>1, <1>4, HereType
    <2>2. /\ w \in Work /\ Agree(w.files, Here.files) /\ w.index = Here.index
          /\ w.head = Here.head /\ w.origin = Here.origin
          /\ w.base = Here.base /\ w.git = Here.git
      <3>1. [Here.files EXCEPT ![Nested] = Stray] \in Files
        BY <2>1, EntryType, ContentType DEF Work, Files
      <3>2. Agree([Here.files EXCEPT ![Nested] = Stray], Here.files)
        BY <2>1, EntryType DEF Work, Files, Agree
      <3>3. QED
        BY <2>1, <3>1, <3>2 DEF Work
    <2>3. Derived(w, p, remote[p], version[p])
      <3>1. Derived(Here, p, remote[p], version[p])
        BY <1>1, <2>1 DEF BaseInv, Here
      <3>2. QED
        BY <2>1, <2>2, <3>1, FilesDerived
    <2>4. AppsWhole(w.files)
      <3>1. AppsWhole(Here.files)
        BY <2>1 DEF BaseInv, Placed, Here
      <3>2. Agree(Here.files, w.files)
        BY <2>2 DEF Agree
      <3>3. QED
        BY <3>1, <3>2, AgreeWhole
    <2>5. work' = [work EXCEPT ![q][p] = w]
      BY <1>4 DEF Changed
    <2> HIDE DEF w
    <2>6. pc'[q] \in Entered /\ work'[q][p] = w
      <3>1. pc[q] \in Entered
        BY <2>1 DEF BaseInv, Placed
      <3>2. work'[q][p] = w
        BY <1>1, <2>1, <2>5 DEF TypeOK
      <3>3. QED
        BY <1>1, <1>2, <3>1, <3>2 DEF Moves
    <2>7. Generating(q, pc'[q], work'[q])
      BY <2>4, <2>6 DEF Generating, Entered
    <2>8. QED
      BY <1>1, <2>1, <2>2, <2>3, <2>4, <2>5, <2>7, OneKeeps
  <1>5. QED
    BY <1>3, <1>4 DEF GitClone

\* A request that is not where its app is saved yet has nothing staged, and its
\* clone is like its origin but for what the request makes.
LEMMA EarlyClone ==
    ASSUME BaseInv, NEW r \in Request, pc[r] \notin Entered
    PROVE  LET w == work[r][job[r].project] IN
           /\ w \in Work /\ w.files \in Files /\ w.origin \in Files /\ Clean(w)
           /\ Derived(w, job[r].project, remote[job[r].project], version[job[r].project])
           /\ AppsWhole(w.origin)
           /\ \A e \in AppEntry : \/ w.files[e] = w.origin[e]
                                 \/ Makes(r, job[r].project, e, w.origin[e], w.files[e])
  <1> DEFINE p == job[r].project
             w == work[r][p]
  <1>1. p \in Project /\ TypeOK
    BY JobType DEF BaseInv
  <1>2. w \in Work /\ w.files \in Files /\ w.origin \in Files
    BY <1>1 DEF TypeOK, Work
  <1>3. Derived(w, p, remote[p], version[p]) /\ Generating(r, pc[r], work[r])
    BY <1>1 DEF BaseInv
  <1>4. AppsWhole(w.origin)
    BY <1>3 DEF Derived
  <1>5. Clean(w)
    BY <1>1, <1>3 DEF Generating
  <1>6. \A e \in AppEntry : \/ w.files[e] = w.origin[e]
                           \/ Makes(r, p, e, w.origin[e], w.files[e])
    BY <1>3 DEF Generating
  <1> HIDE DEF w
  <1>7. QED
    BY <1>2, <1>3, <1>4, <1>5, <1>6, Zenon DEF w

\* To begin an app, or to go on with one, is to make it of what was there.
LEMMA BegunMakes ==
    ASSUME TypeOK, NEW r \in Request, job[r].op = "create", NEW E \in SUBSET Entry,
           NEW o \in Files, NEW f \in Files, NEW t \in Files,
           \A e \in E : f[e] = o[e] \/ Makes(r, job[r].project, e, o[e], f[e]),
           t[Environment(job[r].app)] = Whole(job[r].conf),
           t[Components(job[r].app)] =
              IF f[Components(job[r].app)] = Nothing THEN Part(job[r].comps)
                                                     ELSE f[Components(job[r].app)],
           \A e \in Entry \ {Components(job[r].app), Environment(job[r].app)} : t[e] = f[e],
           NEW e \in E
    PROVE  t[e] = o[e] \/ Makes(r, job[r].project, e, o[e], t[e])
  <1> DEFINE a == job[r].app
  <1>1. a \in App /\ Components(a) \notin {Environment(a), Configs(a)}
    BY JobType, KindsDiffer
  <1>2. Whole(job[r].conf).from = {job[r].conf} /\ Part(job[r].comps).from = {job[r].comps}
        /\ Nothing.from = {}
    BY DEF Whole, Part, Nothing
  <1>3. \/ t[e] = f[e]
        \/ e \in {Environment(a), Configs(a)} /\ t[e].from = {job[r].conf}
        \/ e = Components(a) /\ t[e].from = f[e].from \union {job[r].comps}
    BY <1>2
  <1>4. f[e] = o[e] \/ Makes(r, job[r].project, e, o[e], f[e])
    OBVIOUS
  <1>5. QED
    BY <1>1, <1>3, <1>4, MakesMore

LEMMA GenerateMakes ==
    ASSUME TypeOK, NEW r \in Request, job[r].op = "create", NEW E \in SUBSET Entry,
           NEW o \in Files, NEW f \in Files, NEW t \in Files,
           \A e \in E : f[e] = o[e] \/ Makes(r, job[r].project, e, o[e], f[e]),
           \/ t[Components(job[r].app)] = f[Components(job[r].app)]
           \/ t[Components(job[r].app)].from =
                 f[Components(job[r].app)].from \union {job[r].comps},
           \/ t[Configs(job[r].app)] = f[Configs(job[r].app)]
           \/ t[Configs(job[r].app)].from = {job[r].conf},
           \A e \in Entry \ {Components(job[r].app), Configs(job[r].app)} : t[e] = f[e],
           NEW e \in E
    PROVE  t[e] = o[e] \/ Makes(r, job[r].project, e, o[e], t[e])
  <1> DEFINE a == job[r].app
  <1>1. a \in App /\ Components(a) \notin {Environment(a), Configs(a)}
    BY JobType, KindsDiffer
  <1>2. \/ t[e] = f[e]
        \/ e \in {Environment(a), Configs(a)} /\ t[e].from = {job[r].conf}
        \/ e = Components(a) /\ t[e].from = f[e].from \union {job[r].comps}
    OBVIOUS
  <1>3. f[e] = o[e] \/ Makes(r, job[r].project, e, o[e], f[e])
    OBVIOUS
  <1>4. QED
    BY <1>1, <1>2, <1>3, MakesMore

LEMMA LoadAppKeeps == ASSUME BaseInv, TypeOK', NEW r \in Request, LoadApp(r) PROVE BaseInv'
  <1> DEFINE p == job[r].project
             a == job[r].app
             c == job[r].conf
             m == job[r].comps
             w == work[r][p]
             t == Begun(w.files, a, c, m)
             u == [w EXCEPT !.there = TRUE, !.files = t]
  <1>1. /\ TypeOK /\ p \in Project /\ a \in App /\ c \in Conf /\ m \in Comps
        /\ job[r].op = "create"
        /\ pc[r] = "load" /\ UNCHANGED <<remote, version, job, cwd>>
    BY JobType DEF LoadApp, BaseInv
  <1>2. CASE UNCHANGED work /\ Goto(r, "fail")
    BY <1>1, <1>2, PcKeeps
    DEF PC, Saving, Making, Entered, Moves, Calm, Goto
  <1>3. CASE Goto(r, "registries") /\ work' = [work EXCEPT ![r][p] = u]
    <2>1. /\ w \in Work /\ w.files \in Files /\ w.origin \in Files /\ Clean(w)
          /\ Derived(w, p, remote[p], version[p])
          /\ \A e \in AppEntry : \/ w.files[e] = w.origin[e]
                                \/ Makes(r, p, e, w.origin[e], w.files[e])
      BY <1>1, EarlyClone DEF Entered
    <2>2. /\ t \in Files
          /\ t[Environment(a)] = Whole(c)
          /\ t[Components(a)] =
                IF w.files[Components(a)] = Nothing THEN Part(m) ELSE w.files[Components(a)]
          /\ \A e \in Entry \ {Components(a), Environment(a)} : t[e] = w.files[e]
      BY <1>1, <2>1, BegunType
    <2>3. work' = [work EXCEPT ![r][p] = u]
      BY <1>3
    <2> HIDE DEF w, t
    <2>4. /\ u \in Work /\ u.files = t /\ u.index = w.index /\ u.head = w.head
          /\ u.origin = w.origin /\ u.base = w.base /\ u.git = w.git /\ u.there = TRUE
      BY <2>1, <2>2 DEF Work
    <2> HIDE DEF u
    <2>5. \A e \in AppEntry :
             u.files[e] = w.origin[e] \/ Makes(r, p, e, w.origin[e], u.files[e])
      <3>1. AppEntry \in SUBSET Entry
        BY EntryType
      <3>2. \A e \in AppEntry :
               t[e] = w.origin[e] \/ Makes(r, p, e, w.origin[e], t[e])
        BY <1>1, <2>1, <2>2, <3>1, BegunMakes
      <3>3. QED
        BY <2>4, <3>2
    <2>6. Derived(u, p, remote[p], version[p]) /\ Clean(u)
      BY <2>1, <2>4, <2>5, MadeDerived
    <2>7. /\ work'[r][p] = u
          /\ \A x \in Project \ {p} : work'[r][x] = work[r][x]
          /\ pc'[r] = "registries"
      BY <1>1, <1>3, <2>3, <2>4 DEF TypeOK, Goto
    <2>8. Generating(r, pc'[r], work'[r])
      <3>1. \A x \in Project : Clean(work[r][x])
        BY <1>1 DEF BaseInv, Generating, Entered
      <3>2. u.files[Environment(a)].whole
        BY <2>2, <2>4 DEF Whole
      <3>3. QED
        BY <1>1, <2>4, <2>5, <2>6, <2>7, <3>1, <3>2 DEF Generating, Saving
    <2>9. ~ (cwd.place = "repo" /\ cwd.req = r)
      BY <1>1 DEF BaseInv, Placed, Entered
    <2>10. Moves(r, "registries") /\ "registries" \in PC
      BY <1>1, <1>3 DEF Moves, Goto, Entered, PC
    <2>11. QED
      BY <1>1, <2>3, <2>4, <2>6, <2>8, <2>9, <2>10, OneKeeps
  <1>4. QED
    BY <1>2, <1>3 DEF LoadApp

\* The files that generation may leave.
LEMMA Outcomes ==
    ASSUME NEW f \in Files, NEW a \in App, NEW c \in Conf, NEW m \in Comps,
           NEW t \in Outcome(f, a, c, m)
    PROVE  /\ t \in Files
           /\ \/ t[Components(a)] = f[Components(a)]
              \/ t[Components(a)].from = f[Components(a)].from \union {m}
           /\ \/ t[Configs(a)] = f[Configs(a)]
              \/ t[Configs(a)].from = {c}
           /\ \A e \in Entry \ {Components(a), Configs(a)} : t[e] = f[e]
           /\ t \in {Generated(f, a, c, m), HalfWritten(f, a, c, m)} =>
                 t[Components(a)].whole /\ m \in t[Components(a)].from
  <1> DEFINE v == WithComponents(f, a, m)
             h == WithSome(f, a, m)
             Done == {Generated(f, a, c, m), HalfWritten(f, a, c, m)}
  <1>1. /\ v \in Files
        /\ v[Components(a)].from = f[Components(a)].from \union {m}
        /\ v[Components(a)].whole
        /\ \A e \in Entry \ {Components(a)} : v[e] = f[e]
    BY WithComponentsType
  <1>2. /\ h \in Files
        /\ h[Components(a)].from = f[Components(a)].from \union {m}
        /\ \A e \in Entry \ {Components(a)} : h[e] = f[e]
    BY WithComponentsType
  <1>3. \A x \in Done :
           /\ x \in Files /\ x[Configs(a)].from = {c}
           /\ \A e \in Entry \ {Configs(a)} : x[e] = v[e]
    BY ConfiguredType
  <1>4. t \in {f, h, v} \/ t \in Done
    BY DEF Outcome
  <1>5. /\ Components(a) \in Entry /\ Configs(a) \in Entry
        /\ Components(a) # Configs(a)
    BY KindType, EntryType, KindsDiffer
  <1> HIDE DEF v, h, Done
  <1>6. CASE t \in Done
    BY <1>1, <1>3, <1>5, <1>6
  <1>7. CASE t \in {f, h, v} /\ t \notin Done
    BY <1>1, <1>2, <1>5, <1>7 DEF Done
  <1>8. QED
    BY <1>4, <1>6, <1>7

LEMMA GenerateKeeps == ASSUME BaseInv, TypeOK', NEW r \in Request, Generate(r) PROVE BaseInv'
  <1> DEFINE p == job[r].project
             a == job[r].app
             c == job[r].conf
             m == job[r].comps
             w == work[r][p]
             Done == {Generated(w.files, a, c, m), HalfWritten(w.files, a, c, m)}
  <1>1. /\ TypeOK /\ p \in Project /\ a \in App /\ c \in Conf /\ m \in Comps
        /\ pc[r] = "generate" /\ UNCHANGED <<remote, version, job, cwd>>
    BY JobType DEF Generate, BaseInv
  <1>2. PICK t \in Outcome(w.files, a, c, m) :
           /\ work' = [work EXCEPT ![r][p] = [w EXCEPT !.files = t]]
           /\ Goto(r, "fail") \/ (t \in Done /\ Goto(r, "enter"))
    BY <1>1 DEF Generate, Outcome
  <1> DEFINE u == [w EXCEPT !.files = t]
  <1>3. /\ w \in Work /\ w.files \in Files /\ w.origin \in Files /\ Clean(w)
        /\ Derived(w, p, remote[p], version[p]) /\ AppsWhole(w.origin)
        /\ \A e \in AppEntry : \/ w.files[e] = w.origin[e]
                              \/ Makes(r, p, e, w.origin[e], w.files[e])
    BY <1>1, EarlyClone, Zenon DEF Entered
  <1>4. job[r].op = "create" /\ w.there /\ w.files[Environment(a)].whole
    BY <1>1 DEF BaseInv, Generating
  <1> HIDE DEF w, a, c, m
  <1>5. /\ t \in Files
        /\ \/ t[Components(a)] = w.files[Components(a)]
           \/ t[Components(a)].from = w.files[Components(a)].from \union {m}
        /\ t[Configs(a)] = w.files[Configs(a)] \/ t[Configs(a)].from = {c}
        /\ \A e \in Entry \ {Components(a), Configs(a)} : t[e] = w.files[e]
        /\ t \in Done => t[Components(a)].whole
    BY <1>1, <1>2, <1>3, Outcomes
  <1>6. work' = [work EXCEPT ![r][p] = u] /\ (Goto(r, "fail") \/ (t \in Done /\ Goto(r, "enter")))
    BY <1>2
  <1> HIDE DEF Done
  <1>7. /\ u \in Work /\ u.files = t /\ u.index = w.index /\ u.head = w.head
        /\ u.origin = w.origin /\ u.base = w.base /\ u.git = w.git /\ u.there = w.there
    BY <1>3, <1>5 DEF Work
  <1> HIDE DEF u
  <1>8. \A e \in AppEntry :
           u.files[e] = w.origin[e] \/ Makes(r, p, e, w.origin[e], u.files[e])
    <2>1. AppEntry \in SUBSET Entry
      BY EntryType
    <2>2. \A e \in AppEntry :
             t[e] = w.origin[e] \/ Makes(r, p, e, w.origin[e], t[e])
      BY <1>1, <1>3, <1>4, <1>5, <2>1, GenerateMakes DEF a, c, m
    <2>3. QED
      BY <1>7, <2>2
  <1>9. Derived(u, p, remote[p], version[p]) /\ Clean(u)
    BY <1>3, <1>7, <1>8, MadeDerived
  <1>10. /\ work'[r][p] = u
         /\ \A x \in Project \ {p} : work'[r][x] = work[r][x]
    BY <1>1, <1>6, <1>7 DEF TypeOK
  <1>11. t \in Done => AppsWhole(u.files)
    <2> SUFFICES ASSUME t \in Done, NEW b \in App
                 PROVE  \/ t[Components(b)] = Nothing /\ t[Environment(b)] = Nothing
                        \/ t[Components(b)].whole /\ t[Environment(b)].whole
      BY <1>7 DEF AppsWhole
    <2>1. CASE b = a
      <3>1. Environment(a) \in Entry \ {Components(a), Configs(a)}
        BY <1>1, KindType, EntryType, KindsDiffer
      <3>2. QED
        BY <1>4, <1>5, <2>1, <3>1
    <2>2. CASE b # a
      <3>1. b \in App \ {job[r].app} /\ job[r].app \in App
        BY <1>1, <2>2 DEF a
      <3>2. \A k \in FileKind : t[<<b, k>>] = w.origin[<<b, k>>]
        BY <1>7, <1>8, <3>1, MakesOwn, EntryType
      <3>3. t[Components(b)] = w.origin[Components(b)]
        BY <3>2 DEF Components, FileKind
      <3>4. t[Environment(b)] = w.origin[Environment(b)]
        BY <3>2 DEF Environment, FileKind
      <3>5. QED
        BY <1>3, <3>3, <3>4 DEF AppsWhole
    <2>3. QED
      BY <2>1, <2>2
  <1>12. ~ (cwd.place = "repo" /\ cwd.req = r)
    BY <1>1 DEF BaseInv, Placed, Entered
  <1>13. ASSUME NEW at \in {"fail", "enter"}, Goto(r, at), at = "enter" => t \in Done
         PROVE  BaseInv'
    <2>1. pc'[r] = at /\ Moves(r, at) /\ at \in PC
      BY <1>1, <1>13 DEF TypeOK, Goto, Moves, Entered, PC, Saving
    <2>2. Generating(r, pc'[r], work'[r])
      <3>1. \A x \in Project : Clean(work[r][x])
        BY <1>1 DEF BaseInv, Generating, Entered
      <3>2. at \in Saving => at = "enter"
        BY <1>13 DEF Saving
      <3>3. QED
        BY <1>1, <1>7, <1>8, <1>9, <1>10, <1>11, <1>13, <2>1, <3>1, <3>2 DEF Generating
    <2>3. QED
      BY <1>1, <1>6, <1>7, <1>9, <1>12, <2>1, <2>2, OneKeeps
  <1>14. QED
    BY <1>6, <1>13

\* A git command changes the clone in which the process is.
LEMMA HereKeeps ==
    ASSUME BaseInv, TypeOK', NEW r \in Request, NEW at \in PC, Moves(r, at), Calm(r, at),
           InRepo, NEW w \in Work, Changed(w),
           UNCHANGED <<remote, version, job, cwd>>,
           Derived(w, job[cwd.req].project, remote[job[cwd.req].project],
                   version[job[cwd.req].project]),
           AppsWhole(w.files)
    PROVE  BaseInv'
  <1> DEFINE q == cwd.req
             p == job[q].project
  <1>1. /\ TypeOK /\ q \in Request /\ p \in Project /\ cwd.place = "repo"
        /\ pc[q] \in Entered
    BY HereType DEF BaseInv, Placed
  <1>2. work' = [work EXCEPT ![q][p] = w]
    BY DEF Changed
  <1>3. pc'[q] \in Entered
    BY <1>1 DEF Moves, TypeOK
  <1>4. work'[q][p] = w
    BY <1>1, <1>2 DEF TypeOK
  <1>5. Generating(q, pc'[q], work'[q])
    BY <1>3, <1>4 DEF Generating, Entered
  <1>6. QED
    BY <1>1, <1>2, <1>5, OneKeeps

\* The clone in which the process is has its request's app complete.
LEMMA HereWhole ==
    ASSUME BaseInv, InRepo
    PROVE  /\ TypeOK /\ cwd.req \in Request /\ job[cwd.req].project \in Project /\ Here \in Work
           /\ Here = work[cwd.req][job[cwd.req].project]
           /\ AppsWhole(Here.files)
           /\ Derived(Here, job[cwd.req].project, remote[job[cwd.req].project],
                      version[job[cwd.req].project])
  <1>1. /\ TypeOK /\ cwd.req \in Request /\ cwd.place = "repo"
        /\ job[cwd.req].project \in Project /\ Here \in Work
    BY HereType DEF BaseInv
  <1>2. QED
    BY <1>1 DEF BaseInv, Placed, Here

LEMMA SavingMoves ==
    ASSUME NEW r \in Request, pc[r] \in Saving \ {"enter"},
           NEW at \in {"add", "commit", "push", "pull", "fail"}, pc' = [pc EXCEPT ![r] = at]
    PROVE  Moves(r, at) /\ Calm(r, at) /\ at \in PC
  BY DEF Moves, Calm, Saving, Making, Entered, PC

LEMMA GitAddKeeps == ASSUME BaseInv, TypeOK', NEW r \in Request, GitAdd(r) PROVE BaseInv'
  <1>1. pc[r] \in Saving \ {"enter"} /\ UNCHANGED <<remote, version, job, cwd>>
    BY DEF GitAdd, Saving
  <1>2. CASE InClone /\ Changed([Here EXCEPT !.index = Here.files]) /\ Goto(r, "commit")
    <2> DEFINE w == [Here EXCEPT !.index = Here.files]
    <2>1. InRepo /\ Here \in Work /\ AppsWhole(Here.files)
      BY <1>2, HereWhole DEF InClone
    <2>2. w \in Work /\ w.files = Here.files
      BY <2>1 DEF Work
    <2>3. Derived(w, job[cwd.req].project, remote[job[cwd.req].project],
                  version[job[cwd.req].project])
      BY <2>1, HereWhole, AddDerived
    <2>4. Changed(w)
      BY <1>2
    <2> HIDE DEF w
    <2>5. Moves(r, "commit") /\ Calm(r, "commit") /\ "commit" \in PC
      BY <1>1, <1>2, SavingMoves DEF Goto
    <2>6. QED
      BY <1>1, <2>1, <2>2, <2>3, <2>4, <2>5, HereKeeps
  <1>3. CASE Retry(r, "add", "fail") /\ UNCHANGED work
    <2>1. \E at \in {"add", "fail"} : pc' = [pc EXCEPT ![r] = at]
      BY <1>3, RetryMoves DEF PC, Saving
    <2>2. QED
      BY <1>1, <1>3, <2>1, SavingMoves, PcKeeps
  <1>4. QED
    BY <1>2, <1>3 DEF GitAdd

LEMMA GitCommitKeeps == ASSUME BaseInv, TypeOK', NEW r \in Request, GitCommit(r) PROVE BaseInv'
  <1>1. pc[r] \in Saving \ {"enter"} /\ UNCHANGED <<remote, version, job, cwd>>
    BY DEF GitCommit, Saving
  <1>2. CASE InClone /\ Changed([Here EXCEPT !.head = Here.index]) /\ Goto(r, "push")
    <2> DEFINE w == [Here EXCEPT !.head = Here.index]
    <2>1. InRepo /\ Here \in Work /\ AppsWhole(Here.files)
      BY <1>2, HereWhole DEF InClone
    <2>2. w \in Work /\ w.files = Here.files
      BY <2>1 DEF Work
    <2>3. Derived(w, job[cwd.req].project, remote[job[cwd.req].project],
                  version[job[cwd.req].project])
      BY <2>1, HereWhole, CommitDerived
    <2>4. Changed(w)
      BY <1>2
    <2> HIDE DEF w
    <2>5. Moves(r, "push") /\ Calm(r, "push") /\ "push" \in PC
      BY <1>1, <1>2, SavingMoves DEF Goto
    <2>6. QED
      BY <1>1, <2>1, <2>2, <2>3, <2>4, <2>5, HereKeeps
  <1>3. CASE Retry(r, "commit", "fail") /\ UNCHANGED work
    <2>1. \E at \in {"commit", "fail"} : pc' = [pc EXCEPT ![r] = at]
      BY <1>3, RetryMoves DEF PC, Saving
    <2>2. QED
      BY <1>1, <1>3, <2>1, SavingMoves, PcKeeps
  <1>4. QED
    BY <1>2, <1>3 DEF GitCommit

LEMMA GitPullKeeps == ASSUME BaseInv, TypeOK', NEW r \in Request, GitPull(r) PROVE BaseInv'
  <1> DEFINE p == job[cwd.req].project
             u == [Here EXCEPT !.base = version[p], !.origin = remote[p],
                     !.head = Rebased(p), !.index = Rebased(p), !.files = Rebased(p)]
  <1>1. pc[r] \in Saving \ {"enter"} /\ UNCHANGED <<remote, version, job, cwd>>
    BY DEF GitPull, Saving
  <1>2. PICK at \in {"push", "fail"} : pc' = [pc EXCEPT ![r] = at]
    <2>1. Retry(r, "push", "fail") /\ "push" \in PC /\ "fail" \in PC
      BY DEF GitPull, PC, Saving
    <2>2. QED
      BY <2>1, RetryMoves
  <1>3. Moves(r, at) /\ Calm(r, at) /\ at \in PC
    BY <1>1, <1>2, SavingMoves
  <1>4. CASE UNCHANGED work
    BY <1>1, <1>3, <1>4, PcKeeps
  <1>5. CASE InClone /\ Changed([Here EXCEPT !.stuck = TRUE])
    <2> DEFINE w == [Here EXCEPT !.stuck = TRUE]
    <2>1. /\ InRepo /\ Here \in Work /\ AppsWhole(Here.files)
          /\ Derived(Here, p, remote[p], version[p])
      BY <1>5, HereWhole DEF InClone
    <2>2. /\ w \in Work /\ w.files = Here.files /\ w.index = Here.index /\ w.head = Here.head
          /\ w.origin = Here.origin /\ w.base = Here.base /\ w.git = Here.git
      BY <2>1 DEF Work
    <2>3. Changed(w)
      BY <1>5
    <2> HIDE DEF w
    <2>4. Derived(w, p, remote[p], version[p])
      BY <2>1, <2>2, FilesDerived DEF Agree
    <2>5. QED
      BY <1>1, <1>3, <2>1, <2>2, <2>3, <2>4, HereKeeps
  <1>6. CASE /\ InClone /\ Here.files = Here.head /\ Here.index = Here.head
             /\ ~ Conflict(p) /\ Changed(u)
    <2>1. /\ InRepo /\ Here \in Work /\ Derived(Here, p, remote[p], version[p])
          /\ TypeOK /\ p \in Project /\ cwd.req \in Request
      BY <1>6, HereWhole DEF InClone
    <2>2. Rebased(p) \in Files /\ remote[p] \in Files /\ version[p] \in Nat
      BY <2>1, RebasedType DEF TypeOK
    <2>3. u \in Work /\ u.files = Rebased(p)
      BY <2>1, <2>2 DEF Work
    <2>4. Derived(u, p, remote[p], version[p]) /\ AppsWhole(u.files)
      <3>1. Derived(u, p, remote[p], version[p]) /\ AppsWhole(Rebased(p))
        <4>1. PublishedWhole
          BY DEF BaseInv
        <4>2. QED
          BY <1>6, <2>1, <2>2, <4>1, PullDerived, Zenon
      <3>2. QED
        BY <2>3, <3>1
    <2>5. Changed(u)
      BY <1>6
    <2> HIDE DEF u
    <2>6. QED
      BY <1>1, <1>3, <2>1, <2>3, <2>4, <2>5, HereKeeps
  <1>7. QED
    BY <1>4, <1>5, <1>6 DEF GitPull

LEMMA ReturnKeeps == ASSUME BaseInv, TypeOK', NEW r \in Request, Return(r) PROVE BaseInv'
  <1>1. /\ TypeOK /\ pc[r] \in {"ok", "fail"} /\ UNCHANGED <<remote, version, job, cwd>>
    BY DEF Return, BaseInv
  <1>2. pc'[r] = "done" /\ \A s \in Request \ {r} : pc'[s] = pc[s]
    BY <1>1 DEF Return, Goto, TypeOK
  <1>3. /\ work'[r] \in {work[r], [x \in Project |-> NoWork]}
        /\ \A s \in Request \ {r} : work'[s] = work[s]
    BY <1>1 DEF Return, TypeOK
  <1>4. \A s \in Request, x \in Project : Derived(work'[s][x], x, remote'[x], version'[x])
    BY <1>1, <1>3, NoWorkDerived DEF BaseInv
  <1>5. \A s \in Request : Generating(s, pc'[s], work'[s])
    <2>1. Generating(r, pc'[r], work'[r])
      BY <1>2 DEF Generating, Entered, Saving
    <2>2. QED
      BY <1>2, <1>3, <2>1 DEF BaseInv
  <1>6. ASSUME cwd.place = "repo"
        PROVE  /\ cwd.req \in Request
               /\ pc'[cwd.req] \in Entered
               /\ AppsWhole(work'[cwd.req][job[cwd.req].project].files)
    <2>1. /\ cwd.req \in Request /\ pc[cwd.req] \in Entered
          /\ AppsWhole(work[cwd.req][job[cwd.req].project].files)
          /\ job[cwd.req].project \in Project
      BY <1>6, JobType DEF BaseInv, Placed
    <2>2. pc'[cwd.req] \in Entered
      BY <1>2, <2>1 DEF Entered
    <2>3. AppsWhole(work'[cwd.req][job[cwd.req].project].files)
      BY <1>3, <2>1, NoWorkDerived
    <2>4. QED
      BY <2>1, <2>2, <2>3
  <1>7. QED
    BY <1>1, <1>4, <1>5, <1>6, BaseFrom DEF BaseInv, PublishedWhole

\* Where the process is, the clone is pushed only at the version of its repository.
LEMMA PushFrom ==
    ASSUME BaseInv, NEW r \in Request, GitPush(r)
    PROVE  LET p == job[cwd.req].project IN
           /\ TypeOK /\ cwd.req \in Request /\ p \in Project /\ Here \in Work
           /\ Here = work[cwd.req][p] /\ AppsWhole(Here.files)
           /\ Derived(Here, p, remote[p], version[p])
           /\ Here.origin = remote[p]
           /\ version[p] \in Nat
           /\ remote' = [remote EXCEPT ![p] = Here.head]
           /\ \E v \in Nat, w \in Work :
                 /\ v = IF Here.head = Here.origin THEN version[p] ELSE version[p] + 1
                 /\ w.files = Here.files
                 /\ Derived(w, p, Here.head, v)
                 /\ version' = [version EXCEPT ![p] = v]
                 /\ work' = [work EXCEPT ![cwd.req][p] = w]
  <1> DEFINE p == job[cwd.req].project
  <1>1. /\ TypeOK /\ cwd.req \in Request /\ p \in Project /\ Here \in Work
        /\ Here = work[cwd.req][p] /\ AppsWhole(Here.files)
        /\ Derived(Here, p, remote[p], version[p])
    BY HereWhole DEF GitPush, InClone
  <1>2. /\ Here.git /\ Here.base = version[p]
        /\ remote' = [remote EXCEPT ![p] = Here.head]
    BY DEF GitPush, InClone
  <1>3. \E v, w : /\ v = IF Here.head = Here.origin THEN version[p] ELSE version[p] + 1
                 /\ w = [Here EXCEPT !.origin = Here.head, !.base = v]
                 /\ version' = [version EXCEPT ![p] = v]
                 /\ work' = [work EXCEPT ![cwd.req][p] = w]
    BY Zenon DEF GitPush, Changed
  <1> HIDE DEF p
  <1>4. PICK v, w : /\ v = IF Here.head = Here.origin THEN version[p] ELSE version[p] + 1
                    /\ w = [Here EXCEPT !.origin = Here.head, !.base = v]
                    /\ version' = [version EXCEPT ![p] = v]
                    /\ work' = [work EXCEPT ![cwd.req][p] = w]
    BY <1>3, Zenon
  <1>5. version[p] \in Nat
    BY <1>1 DEF TypeOK
  <1>6. v \in Nat
    BY <1>4, <1>5
  <1>7. Here.origin = remote[p]
    BY <1>1, <1>2 DEF Derived
  <1>8. w \in Work /\ w.files = Here.files
    BY <1>1, <1>4, <1>6 DEF Work
  <1>9. Derived(w, p, Here.head, v)
    BY <1>1, <1>4, <1>5, <1>6, PushDerived
  <1>10. QED
    BY <1>1, <1>2, <1>4, <1>5, <1>6, <1>7, <1>8, <1>9, Zenon DEF p

LEMMA GitPushKeeps == ASSUME BaseInv, TypeOK', NEW r \in Request, GitPush(r) PROVE BaseInv'
  <1> DEFINE q == cwd.req
             p == job[q].project
             g == Here.head
  <1>0. PICK v \in Nat, w \in Work :
           /\ v = IF g = Here.origin THEN version[p] ELSE version[p] + 1
           /\ w.files = Here.files
           /\ Derived(w, p, g, v)
           /\ version' = [version EXCEPT ![p] = v]
           /\ work' = [work EXCEPT ![q][p] = w]
    BY PushFrom, Zenon
  <1>1. /\ TypeOK /\ q \in Request /\ p \in Project /\ Here \in Work
        /\ Here = work[q][p] /\ AppsWhole(Here.files)
        /\ Derived(Here, p, remote[p], version[p])
        /\ Here.origin = remote[p]
        /\ version[p] \in Nat
        /\ remote' = [remote EXCEPT ![p] = g]
    BY PushFrom, Zenon
  <1> HIDE DEF p, q, g
  <1>2. pc[r] = "push" /\ Goto(r, "ok") /\ UNCHANGED <<job, cwd>>
    BY DEF GitPush
  <1>3. pc'[r] = "ok" /\ \A s \in Request \ {r} : pc'[s] = pc[s]
    BY <1>1, <1>2 DEF Goto, TypeOK
  <1>4. g \in Files /\ remote[p] \in Files /\ AppsWhole(g)
    BY <1>1 DEF Work, Derived, TypeOK, g
  <1>5. \A e \in AppEntry : remote[p][e] # Nothing => g[e] # Nothing
    <2> SUFFICES ASSUME NEW e \in AppEntry, remote[p][e] # Nothing PROVE g[e] # Nothing
      OBVIOUS
    <2>1. CASE g[e] = Here.origin[e]
      BY <1>1, <2>1
    <2>2. CASE g[e] # Here.origin[e]
      <3>1. \E s \in Request : Makes(s, p, e, Here.origin[e], g[e])
        BY <1>1, <2>2, HeadMade DEF g
      <3>2. g[e] \in Content
        BY <1>4, EntryType DEF Files
      <3>3. QED
        BY <1>1, <3>1, <3>2, WholeIsSome
    <2>3. QED
      BY <2>1, <2>2
  <1>6. ASSUME NEW s \in Request
        PROVE  Derived(work[s][p], p, g, v)
    <2>1. work[s][p] \in Work /\ Derived(work[s][p], p, remote[p], version[p])
      <3>1. TypeOK /\ p \in Project
        BY <1>1
      <3>2. QED
        BY <3>1 DEF BaseInv, TypeOK
    <2>2. CASE g = Here.origin
      <3>1. g = remote[p] /\ v = version[p]
        BY <1>0, <1>1, <2>2
      <3>2. QED
        BY <2>1, <3>1
    <2>3. CASE g # Here.origin
      <3>1. Derived(work[s][p], p, g, version[p] + 1)
        BY <1>1, <1>5, <2>1, GrownDerived
      <3>2. QED
        BY <1>0, <2>3, <3>1
    <2>4. QED
      BY <2>2, <2>3
  <1>7. /\ remote'[p] = g /\ version'[p] = v /\ work'[q][p] = w
        /\ \A x \in Project \ {p} : remote'[x] = remote[x] /\ version'[x] = version[x]
        /\ \A s \in Request, x \in Project : s # q \/ x # p => work'[s][x] = work[s][x]
        /\ \A s \in Request \ {q} : work'[s] = work[s]
    BY <1>0, <1>1 DEF TypeOK
  <1>8. \A x \in Project : AppsWhole(remote'[x])
    BY <1>4, <1>7 DEF BaseInv, PublishedWhole
  <1>9. ASSUME NEW s \in Request, NEW x \in Project
        PROVE  Derived(work'[s][x], x, remote'[x], version'[x])
    <2>1. CASE x = p
      BY <1>0, <1>1, <1>6, <1>7, <2>1
    <2>2. CASE x # p
      BY <1>7, <2>2 DEF BaseInv
    <2>3. QED
      BY <2>1, <2>2
  <1>10. cwd.place = "repo" /\ pc'[q] \in Entered
    <2>1. cwd.place = "repo" /\ pc[q] \in Entered
      BY DEF GitPush, InClone, InRepo, BaseInv, Placed, q
    <2>2. QED
      BY <1>1, <1>3, <2>1 DEF Entered
  <1>11. \A s \in Request : Generating(s, pc'[s], work'[s])
    <2>1. Generating(q, pc'[q], work'[q])
      <3>1. work'[q][job[q].project] = w
        BY <1>7 DEF p
      <3>2. QED
        BY <1>0, <1>1, <1>10, <3>1 DEF Generating, Entered
    <2>2. Generating(r, "ok", work[r])
      BY DEF Generating, Entered, Saving
    <2>3. ASSUME NEW s \in Request, s # q PROVE Generating(s, pc'[s], work'[s])
      <3>1. Generating(s, pc[s], work[s]) /\ work'[s] = work[s]
        BY <1>7, <2>3 DEF BaseInv
      <3>2. QED
        BY <1>3, <2>2, <3>1
    <2>4. QED
      BY <2>1, <2>3
  <1>12. /\ cwd'.req \in Request
         /\ pc'[cwd'.req] \in Entered
         /\ AppsWhole(work'[cwd'.req][job[cwd'.req].project].files)
    BY <1>0, <1>1, <1>2, <1>7, <1>10, Zenon DEF p, q
  <1>13. QED
    BY <1>2, <1>8, <1>9, <1>11, <1>12, BaseFrom

\* What others push is complete, and takes nothing away.
LEMMA OutsideGrows ==
    ASSUME TypeOK, PublishedWhole, NEW p \in Project, OutsidePush(p)
    PROVE  \E g \in Files :
             /\ remote' = [remote EXCEPT ![p] = g]
             /\ AppsWhole(g) /\ g[Nested] = remote[p][Nested]
             /\ \A e \in AppEntry : remote[p][e] # Nothing => g[e] # Nothing
  <1> DEFINE t == remote[p]
  <1>1. t \in Files /\ AppsWhole(t)
    BY DEF TypeOK, PublishedWhole
  <1>2. CASE \E a \in App, c \in Conf, m \in Comps :
               /\ t[Components(a)] = Nothing
               /\ remote' = [remote EXCEPT ![p] = Generated(Begun(t, a, c, m), a, c, m)]
    <2>1. PICK a \in App, c \in Conf, m \in Comps :
             /\ t[Components(a)] = Nothing
             /\ remote' = [remote EXCEPT ![p] = Generated(Begun(t, a, c, m), a, c, m)]
      BY <1>2
    <2> HIDE DEF t
    <2>2. /\ {Components(a), Environment(a), Configs(a)} \subseteq AppEntry
          /\ AppEntry \subseteq Entry
          /\ Components(a) # Environment(a) /\ Components(a) # Configs(a)
          /\ Environment(a) # Configs(a)
      BY KindType, KindsDiffer, EntryType
    <2>3. Whole(c).whole /\ \A x : x.whole \/ x.from = {c} => x # Nothing
      BY DEF Whole, Nothing
    <2> DEFINE f == Begun(t, a, c, m)
               h == WithComponents(f, a, m)
               g == Generated(f, a, c, m)
    <2>4. /\ f \in Files /\ f[Environment(a)] = Whole(c)
          /\ \A e \in Entry \ {Components(a), Environment(a)} : f[e] = t[e]
      BY <1>1, BegunType
    <2>5. /\ h[Components(a)].whole
          /\ \A e \in Entry \ {Components(a)} : h[e] = f[e]
      <3> HIDE DEF f
      <3>1. QED
        BY <2>4, WithComponentsType
    <2>6. /\ g \in Files /\ g[Configs(a)].from = {c}
          /\ \A e \in Entry \ {Configs(a)} : g[e] = h[e]
      <3> HIDE DEF f
      <3>1. QED
        BY <2>4, ConfiguredType
    <2>7. remote' = [remote EXCEPT ![p] = g]
      BY <2>1
    <2> HIDE DEF g, h, f
    <2>8. /\ g[Components(a)].whole /\ g[Environment(a)].whole
          /\ \A e \in Entry \ {Components(a), Environment(a), Configs(a)} : g[e] = t[e]
      BY <2>2, <2>3, <2>4, <2>5, <2>6
    <2>9. AppsWhole(g)
      <3> SUFFICES ASSUME NEW b \in App
                   PROVE  \/ g[Components(b)] = Nothing /\ g[Environment(b)] = Nothing
                          \/ g[Components(b)].whole /\ g[Environment(b)].whole
        BY DEF AppsWhole
      <3>1. CASE b = a
        BY <2>8, <3>1
      <3>2. CASE b # a
        <4>1. {Components(b), Environment(b)} \subseteq
                 Entry \ {Components(a), Environment(a), Configs(a)}
          BY <3>2, KindType, KindsDiffer, EntryType
        <4>2. QED
          BY <1>1, <2>8, <4>1 DEF AppsWhole
      <3>3. QED
        BY <3>1, <3>2
    <2>10. \A e \in AppEntry : t[e] # Nothing => g[e] # Nothing
      BY <2>2, <2>3, <2>6, <2>8
    <2>11. g[Nested] = t[Nested]
      BY <2>2, <2>8, EntryType
    <2>12. QED
      BY <2>6, <2>7, <2>9, <2>10, <2>11 DEF t
  <1>3. CASE \E e \in AppEntry, x \in Source :
               /\ t[e] # Nothing
               /\ remote' = [remote EXCEPT ![p] = [t EXCEPT ![e] = Whole(x)]]
    <2>1. PICK e \in AppEntry, x \in Source :
             /\ t[e] # Nothing
             /\ remote' = [remote EXCEPT ![p] = [t EXCEPT ![e] = Whole(x)]]
      BY <1>3
    <2> HIDE DEF t
    <2> DEFINE g == [t EXCEPT ![e] = Whole(x)]
    <2>2. Whole(x) \in Content /\ Whole(x).whole /\ Whole(x) # Nothing
      BY ContentType DEF Whole, Nothing
    <2>3. /\ e \in Entry /\ g \in Files /\ g[e] = Whole(x)
          /\ \A y \in Entry \ {e} : g[y] = t[y]
      BY <1>1, <2>2, EntryType DEF Files
    <2>4. remote' = [remote EXCEPT ![p] = g]
      BY <2>1
    <2> HIDE DEF g
    <2>5. AppsWhole(g)
      <3> SUFFICES ASSUME NEW b \in App
                   PROVE  \/ g[Components(b)] = Nothing /\ g[Environment(b)] = Nothing
                          \/ g[Components(b)].whole /\ g[Environment(b)].whole
        BY DEF AppsWhole
      <3>1. /\ \/ t[Components(b)] = Nothing /\ t[Environment(b)] = Nothing
               \/ t[Components(b)].whole /\ t[Environment(b)].whole
            /\ Components(b) \in Entry /\ Environment(b) \in Entry
        BY <1>1, KindType, EntryType DEF AppsWhole
      <3>2. CASE e \notin {Components(b), Environment(b)}
        BY <2>3, <3>1, <3>2
      <3>3. CASE e \in {Components(b), Environment(b)}
        BY <2>1, <2>2, <2>3, <3>1, <3>3
      <3>4. QED
        BY <3>2, <3>3
    <2>6. \A y \in AppEntry : t[y] # Nothing => g[y] # Nothing
      BY <2>2, <2>3, EntryType
    <2>7. g[Nested] = t[Nested]
      BY <2>3, EntryType
    <2>8. QED
      BY <2>3, <2>4, <2>5, <2>6, <2>7 DEF t
  <1>4. QED
    <2>1. remote[p] = t /\ \A a \in App, k \in FileKind : <<a, k>> \in AppEntry
      BY EntryType
    <2>2. QED
      BY <1>2, <1>3, <2>1, ContentType DEF OutsidePush, TypeOK

LEMMA OutsideKeeps == ASSUME BaseInv, TypeOK', NEW p \in Project, OutsidePush(p) PROVE BaseInv'
  <1>1. TypeOK /\ PublishedWhole
    BY DEF BaseInv
  <1>2. PICK g \in Files :
           /\ remote' = [remote EXCEPT ![p] = g]
           /\ AppsWhole(g)
           /\ \A e \in AppEntry : remote[p][e] # Nothing => g[e] # Nothing
    BY <1>1, OutsideGrows
  <1>3. /\ version' = [version EXCEPT ![p] = version[p] + 1]
        /\ UNCHANGED <<cwd, work, job, pc>> /\ version[p] \in Nat
    BY <1>1 DEF OutsidePush, TypeOK
  <1>4. /\ remote'[p] = g /\ version'[p] = version[p] + 1
        /\ \A x \in Project \ {p} : remote'[x] = remote[x] /\ version'[x] = version[x]
    BY <1>1, <1>2, <1>3 DEF TypeOK
  <1>5. \A x \in Project : AppsWhole(remote'[x])
    BY <1>1, <1>2, <1>4 DEF PublishedWhole
  <1>6. ASSUME NEW s \in Request, NEW x \in Project
        PROVE  Derived(work'[s][x], x, remote'[x], version'[x])
    <2>1. work[s][x] \in Work /\ Derived(work[s][x], x, remote[x], version[x])
      BY <1>1 DEF BaseInv, TypeOK
    <2>2. CASE x = p
      <3>1. Derived(work[s][p], p, g, version[p] + 1)
        BY <1>2, <1>3, <2>1, <2>2, GrownDerived
      <3>2. QED
        BY <1>3, <1>4, <2>2, <3>1
    <2>3. CASE x # p
      BY <1>3, <1>4, <2>1, <2>3
    <2>4. QED
      BY <2>2, <2>3
  <1>7. /\ \A s \in Request : Generating(s, pc'[s], work'[s])
        /\ cwd'.place = "repo" =>
              /\ cwd'.req \in Request
              /\ pc'[cwd'.req] \in Entered
              /\ AppsWhole(work'[cwd'.req][job[cwd'.req].project].files)
    BY <1>3 DEF BaseInv, Placed
  <1>8. QED
    BY <1>3, <1>5, <1>6, <1>7, BaseFrom

LEMMA BaseInit == Init => BaseInv
  <1> SUFFICES ASSUME Init PROVE BaseInv
    OBVIOUS
  <1>1. TypeOK
    BY InitType
  <1>2. PublishedWhole
    BY NoFilesWhole DEF Init, PublishedWhole
  <1>3. \A r \in Request, p \in Project : Derived(work[r][p], p, remote[p], version[p])
    BY NoWorkDerived DEF Init
  <1>4. ASSUME NEW r \in Request PROVE Generating(r, pc[r], work[r])
    <2>1. /\ pc[r] = "idle" /\ job[r].project \in Project
          /\ \A p \in Project : work[r][p] = NoWork
      BY <1>1, JobType DEF Init
    <2>2. \A p \in Project : Clean(work[r][p])
      BY <2>1, NoWorkDerived
    <2>3. \A e \in AppEntry : NoWork.files[e] = NoWork.origin[e]
      BY DEF NoWork
    <2>4. QED
      BY <2>1, <2>2, <2>3 DEF Generating, Saving
  <1>5. Placed(cwd)
    BY DEF Init, Placed
  <1>6. QED
    BY <1>1, <1>2, <1>3, <1>4, <1>5 DEF BaseInv

LEMMA BaseStep == BaseInv /\ [Next]_vars => BaseInv'
  <1> SUFFICES ASSUME BaseInv, [Next]_vars PROVE BaseInv'
    OBVIOUS
  <1>1. TypeOK'
    BY TypeStep DEF BaseInv
  <1>2. ASSUME NEW r \in Request, Step(r) PROVE BaseInv'
    BY <1>1, <1>2, HandlerKeeps, GitCloneKeeps, LoadAppKeeps, GenerateKeeps, GitAddKeeps,
       GitCommitKeeps, GitPushKeeps, GitPullKeeps, ReturnKeeps
    DEF Step, Clone, Save
  <1>3. ASSUME NEW p \in Project, OutsidePush(p) PROVE BaseInv'
    BY <1>1, <1>3, OutsideKeeps
  <1>4. CASE UNCHANGED vars
    BY <1>1, <1>4, BaseFrom DEF vars, BaseInv, PublishedWhole, Placed
  <1>5. QED
    BY <1>2, <1>3, <1>4 DEF Next

(***************************************************************************)
(* Whatever directory the requests' git commands run in, what a clone has  *)
(* staged or committed over its origin are complete apps that requests to  *)
(* create made for the clone's project; and a clone at the version of its  *)
(* repository has that repository's files as its origin.                   *)
(***************************************************************************)
THEOREM BaseInvariant == Spec => []BaseInv
  BY BaseInit, BaseStep, PTL DEF Spec

(***************************************************************************)
(* No repository of any project ever holds half of an app, for all the     *)
(* moves of the process's directory between the clones of all requests.    *)
(***************************************************************************)
THEOREM PublishedWholeCorrect == Spec => []PublishedWhole
  <1>1. BaseInv => PublishedWhole
    BY DEF BaseInv
  <1>2. QED
    BY <1>1, BaseInvariant, PTL

\* What the server pushes, a request's git push does.
LEMMA PushIsGit ==
    ASSUME TypeOK, PublishedWhole, [Next]_vars, NEW p \in Project, NEW e \in Entry,
           ServerPush(p, e)
    PROVE  \E r \in Request : GitPush(r)
  <1>1. ASSUME NEW q \in Project, OutsidePush(q) PROVE FALSE
    <2>1. pushes' = [pushes EXCEPT ![q] = pushes[q] + 1]
      BY <1>1 DEF OutsidePush
    <2>2. pushes'[q] # pushes[q]
      BY <2>1 DEF TypeOK
    <2>3. PICK g : remote' = [remote EXCEPT ![q] = g]
      BY <1>1, OutsideGrows
    <2>4. p # q => remote'[p] = remote[p]
      BY <2>3 DEF TypeOK
    <2>5. QED
      BY <2>2, <2>4 DEF ServerPush
  <1>2. remote' # remote
    BY DEF ServerPush
  <1>3. (\E r \in Request : GitPush(r)) \/ (\E q \in Project : OutsidePush(q))
    BY <1>2, Zenon
    DEF Next, Step, Clone, Save, vars, Start, GetProjectLock, TakeLock, MakeDir, EnsureRepo,
        ChdirTop, GitClone, GitCloneFails, LoadApp, GetRegistryUri, Fetch, Generate,
        ApplyApp, ChdirRepo, GitAdd, GitCommit, GitPushFails, GitPull, Return
  <1>4. QED
    BY <1>1, <1>3

LEMMA PushStays ==
    ASSUME BaseInv, [Next]_vars, NEW p \in Project, NEW e \in AppEntry, ServerPush(p, e)
    PROVE  \E r \in Request : Pushed(r, p, e)
  <1>1. ASSUME NEW r \in Request, GitPush(r)
        PROVE  \E s \in Request : Pushed(s, p, e)
    <2> DEFINE x == job[cwd.req].project
    <2>1. /\ TypeOK /\ x \in Project /\ Here \in Work
          /\ Derived(Here, x, remote[x], version[x])
          /\ Here.origin = remote[x]
          /\ remote' = [remote EXCEPT ![x] = Here.head]
      BY <1>1, PushFrom, Zenon
    <2> HIDE DEF x
    <2>2. remote'[x] = Here.head /\ \A y \in Project \ {x} : remote'[y] = remote[y]
      BY <2>1 DEF TypeOK
    <2>3. p = x /\ Here.head[e] # Here.origin[e]
      BY <2>1, <2>2 DEF ServerPush
    <2>4. \E s \in Request : Makes(s, p, e, Here.origin[e], Here.head[e])
      BY <2>1, <2>3, HeadMade
    <2>5. QED
      BY <2>1, <2>2, <2>3, <2>4 DEF Pushed
  <1>2. \E r \in Request : GitPush(r)
    BY EntryType, PushIsGit DEF BaseInv
  <1>3. QED
    BY <1>1, <1>2

(***************************************************************************)
(* "This can strengthen data isolation among different requests": whoever  *)
(* moves the process's directory, what the server pushes into a project is *)
(* an app that some request to create it there has made.                   *)
(***************************************************************************)
THEOREM PushesStayHomeCorrect == Spec => PushesStayHome
  <1>1. BaseInv /\ [Next]_vars =>
          [\A p \in Project, e \in AppEntry : ServerPush(p, e) =>
             \E r \in Request : Pushed(r, p, e)]_vars
    BY PushStays
  <1>2. QED
    BY <1>1, BaseInvariant, PTL DEF Spec, PushesStayHome

-----------------------------------------------------------------------------
(* Requests to create apps in one project *)

LEMMA NextPc ==
    ASSUME TypeOK, NEW r \in Request, NEW at, pc' = [pc EXCEPT ![r] = at]
    PROVE  pc'[r] = at /\ \A s \in Request \ {r} : pc'[s] = pc[s]
  BY DEF TypeOK

\* What the invariant says of the request that holds the lock, and of all others.
LEMMA Alone ==
    ASSUME OneProject, OneInv, NEW r \in Request, pc[r] \in Working
    PROVE  /\ job[r].op = "create" /\ lock[job[r].project] = r
           /\ \A s \in Request \ {r} : pc[s] \notin Working
           /\ Located(r) /\ Unmixed(r) /\ Progress(r)
           /\ \A p \in Project : remote[p][Nested] = Nothing
  BY DEF OneInv, Exclusive, OneProject

\* A request that is not at work is as it was while another one works.
LEMMA OthersKeep ==
    ASSUME NEW s \in Request, pc[s] \notin Working,
           Located(s), Progress(s), job' = job,
           pc'[s] = pc[s], work'[s] = work[s], found'[s] = found[s],
           reply'[s] = reply[s], saved'[s] = saved[s]
    PROVE  Located(s)' /\ Unmixed(s)' /\ Progress(s)'
  <1>1. pc[s] \notin Cloning \union Cloned \union {"ok"}
    BY DEF Working
  <1>2. pc[s] \notin Saving \union {"load", "registries", "fetch", "generate", "clone"}
    BY <1>1 DEF Cloned, Cloning
  <1>3. Located(s)'
    BY <1>1, <1>2 DEF Located, Mine
  <1>4. Unmixed(s)'
    BY <1>1 DEF Unmixed
  <1>5. Progress(s)'
    BY <1>2 DEF Progress, Saving, Working
  <1>6. QED
    BY <1>3, <1>4, <1>5

\* The tree t differs from o in what request r makes.
Own(r, o, t) ==
    \A e \in Entry : t[e] = o[e] \/ Makes(r, job[r].project, e, o[e], t[e])

LEMMA UnmixedIs ==
    ASSUME NEW r \in Request, Unmixed(r), pc[r] \in Cloned, found[r]
    PROVE  LET w == Mine(r) IN
           /\ w.git /\ w.origin[Nested] = Nothing
           /\ Own(r, w.origin, w.files) /\ Own(r, w.origin, w.index) /\ Own(r, w.origin, w.head)
           /\ Held(job[r], remote[job[r].project]) \subseteq saved[r]
           /\ Held(job[r], w.origin) \subseteq saved[r]
  BY DEF Unmixed, Own

LEMMA UnmixedFrom ==
    ASSUME NEW r \in Request, job' = job, NEW w, work'[r][job[r].project] = w,
           w.git, w.origin[Nested] = Nothing,
           Own(r, w.origin, w.files), Own(r, w.origin, w.index), Own(r, w.origin, w.head),
           Held(job[r], remote'[job[r].project]) \subseteq saved'[r],
           Held(job[r], w.origin) \subseteq saved'[r]
    PROVE  Unmixed(r)'
  BY DEF Unmixed, Own, Mine, Makes

\* The clone of a request is as it was.
LEMMA UnmixedKeeps ==
    ASSUME NEW r \in Request, Unmixed(r), UNCHANGED <<remote, work, job, saved>>,
           pc'[r] \in Cloned /\ found'[r] => pc[r] \in Cloned /\ found[r]
    PROVE  Unmixed(r)'
  <1> SUFFICES ASSUME pc'[r] \in Cloned, found'[r] PROVE Unmixed(r)'
    BY DEF Unmixed
  <1>1. pc[r] \in Cloned /\ found[r]
    OBVIOUS
  <1> DEFINE w == Mine(r)
  <1>2. /\ w.git /\ w.origin[Nested] = Nothing
        /\ Own(r, w.origin, w.files) /\ Own(r, w.origin, w.index) /\ Own(r, w.origin, w.head)
        /\ Held(job[r], remote[job[r].project]) \subseteq saved[r]
        /\ Held(job[r], w.origin) \subseteq saved[r]
    BY <1>1, UnmixedIs
  <1>3. work'[r][job[r].project] = w
    BY DEF Mine
  <1> HIDE DEF w
  <1>4. QED
    BY <1>2, <1>3, UnmixedFrom

\* A step of the request at work, after which it still is.
LEMMA OneFrom ==
    ASSUME OneProject, OneInv, NEW r \in Request, pc[r] \in Working, pc'[r] \in Working,
           UNCHANGED <<lock, job>>,
           \A p \in Project : remote'[p][Nested] = Nothing,
           \A s \in Request \ {r} :
              /\ pc'[s] = pc[s] /\ work'[s] = work[s] /\ found'[s] = found[s]
              /\ reply'[s] = reply[s] /\ saved'[s] = saved[s],
           Located(r)', Unmixed(r)', Progress(r)'
    PROVE  OneInv'
  <1>1. \A s \in Request \ {r} : pc[s] \notin Working
    BY Alone
  <1>2. Exclusive'
    BY DEF OneInv, Exclusive
  <1>3. ASSUME NEW s \in Request \ {r} PROVE Located(s)' /\ Unmixed(s)' /\ Progress(s)'
    <2>1. Located(s) /\ Progress(s)
      BY DEF OneInv
    <2>2. QED
      BY <1>1, <2>1, OthersKeep
  <1>4. QED
    BY <1>2, <1>3 DEF OneInv

\* It changes no clone and no repository.
LEMMA OneMoves ==
    ASSUME TypeOK, OneProject, OneInv, NEW r \in Request, NEW at \in Working,
           pc[r] \in Working, pc' = [pc EXCEPT ![r] = at],
           UNCHANGED <<remote, work, job, lock, found, reply, saved>>,
           at \in Cloned => pc[r] \in Cloned \/ ~ found[r],
           Located(r)', Progress(r)'
    PROVE  OneInv'
  <1>1. pc'[r] = at /\ \A s \in Request \ {r} : pc'[s] = pc[s]
    BY NextPc
  <1>2. Unmixed(r)'
    <2>1. Unmixed(r)
      BY Alone
    <2>2. pc'[r] \in Cloned /\ found'[r] => pc[r] \in Cloned /\ found[r]
      BY <1>1
    <2>3. UNCHANGED <<remote, work, job, saved>>
      OBVIOUS
    <2>4. QED
      BY <2>1, <2>2, <2>3, UnmixedKeeps
  <1>3. \A p \in Project : remote'[p][Nested] = Nothing
    BY DEF OneInv
  <1>4. QED
    BY <1>1, <1>2, <1>3, OneFrom

\* The steps of a request before it holds the lock.
LEMMA EarlyOne ==
    ASSUME TypeOK, OneProject, OneInv, NEW r \in Request,
           Start(r) \/ GetProjectLock(r) \/ TakeLock(r)
    PROVE  OneInv'
  <1>1. /\ pc[r] \in {"idle", "wait", "lock"} /\ job[r].op = "create"
        /\ job[r].project \in Project
        /\ UNCHANGED <<remote, work, job, cwd, dir, found, saved>>
    BY JobType DEF Start, GetProjectLock, TakeLock, OneProject
  <1>2. PICK at \in {"wait", "lock", "mkdir", "done"} :
           /\ pc' = [pc EXCEPT ![r] = at]
           /\ at # "mkdir" => lock' = lock
           /\ at = "mkdir" => /\ lock[job[r].project] = NoRequest /\ UNCHANGED reply
                             /\ lock' = [lock EXCEPT ![job[r].project] = r]
    BY <1>1 DEF Start, GetProjectLock, TakeLock, Goto
  <1>3. /\ pc'[r] = at /\ \A s \in Request \ {r} : pc'[s] = pc[s]
        /\ reply'[r] \in {reply[r], "error"} /\ \A s \in Request \ {r} : reply'[s] = reply[s]
    <2>1. reply' = reply \/ reply' = [reply EXCEPT ![r] = "error"]
      BY DEF Start, GetProjectLock, TakeLock
    <2>2. QED
      BY <1>2, <2>1, NextPc DEF TypeOK
  <1>4. pc[r] \notin Working /\ (at \in Working <=> at = "mkdir")
    BY <1>1 DEF Working, Cloned, Cloning, Saving
  <1>5. Exclusive'
    <2>1. CASE at = "mkdir"
      <3>1. \A s \in Request : pc[s] \notin Working
        BY <1>1, <1>2, <2>1 DEF OneInv, Exclusive, OneProject
      <3>2. lock'[job[r].project] = r
        BY <1>1, <1>2, <2>1 DEF TypeOK
      <3>3. QED
        BY <1>1, <1>3, <1>4, <2>1, <3>1, <3>2 DEF Exclusive, OneProject
    <2>2. CASE at # "mkdir"
      BY <1>1, <1>2, <1>3, <1>4, <2>2 DEF OneInv, Exclusive
    <2>3. QED
      BY <2>1, <2>2
  <1>6. ASSUME NEW s \in Request PROVE Located(s)' /\ Unmixed(s)' /\ Progress(s)'
    <2>1. Located(s) /\ Unmixed(s) /\ Progress(s)
      BY DEF OneInv
    <2>2. CASE s = r
      <3>1. Located(r)'
        BY <1>1, <1>2, <1>3, <2>1, <2>2 DEF Located, Mine, Cloning, Cloned, Saving
      <3>2. Unmixed(r)'
        BY <1>2, <1>3 DEF Unmixed, Cloned, Saving
      <3>3. Progress(r)'
        BY <1>1, <1>2, <1>3, <2>1, <2>2 DEF Progress
      <3>4. QED
        BY <2>2, <3>1, <3>2, <3>3
    <2>3. CASE s # r
      <3>1. pc'[s] = pc[s] /\ reply'[s] = reply[s]
        BY <1>3, <2>3
      <3>2. Located(s)'
        BY <1>1, <2>1, <3>1 DEF Located, Mine
      <3>3. Unmixed(s)'
        BY <1>1, <2>1, <3>1, UnmixedKeeps
      <3>4. Progress(s)'
        BY <1>1, <2>1, <3>1 DEF Progress, Mine, Held, Reaches
      <3>5. QED
        BY <3>2, <3>3, <3>4
    <2>4. QED
      BY <2>2, <2>3
  <1>7. QED
    BY <1>1, <1>5, <1>6 DEF OneInv

\* The places of a request that works.
LEMMA WorkingPlaces ==
    /\ Working = {"mkdir", "repo", "chdir", "clone", "load", "registries", "fetch", "generate",
                  "enter", "add", "commit", "push", "pull", "ok", "fail"}
    /\ Cloned = {"load", "registries", "fetch", "generate", "enter", "add", "commit", "push",
                 "pull"}
  BY DEF Working, Cloned, Cloning, Saving

\* The steps of the request at work that change neither clones nor repositories.
LEMMA HandlerOne ==
    ASSUME TypeOK, OneProject, OneInv, NEW r \in Request,
           \/ MakeDir(r) \/ EnsureRepo(r) \/ ChdirTop(r) \/ GitCloneFails(r)
           \/ GetRegistryUri(r) \/ Fetch(r) \/ ChdirRepo(r) \/ GitPushFails(r)
    PROVE  OneInv'
  <1>1. /\ pc[r] \in {"mkdir", "repo", "chdir", "clone", "registries", "fetch", "enter", "push"}
        /\ UNCHANGED <<remote, work, job, lock, found, reply, saved>>
    BY DEF MakeDir, EnsureRepo, ChdirTop, GitCloneFails, GetRegistryUri, Fetch, ChdirRepo,
           GitPushFails
  <1>2. pc[r] \in Working
    BY <1>1, WorkingPlaces
  <1>3. Located(r) /\ Progress(r)
    BY DEF OneInv
  <1>4. PICK at : pc' = [pc EXCEPT ![r] = at] /\ pc'[r] = at /\
           \/ MakeDir(r) /\ pc[r] = "mkdir" /\ at = "repo"
           \/ EnsureRepo(r) /\ pc[r] = "repo" /\ at \in {"chdir", "load"}
           \/ ChdirTop(r) /\ pc[r] = "chdir" /\ at = "clone"
           \/ GitCloneFails(r) /\ pc[r] = "clone" /\ at \in {"clone", "load"}
           \/ GetRegistryUri(r) /\ pc[r] = "registries" /\ at \in {"fetch", "generate", "fail"}
           \/ Fetch(r) /\ pc[r] = "fetch" /\ at \in {"generate", "fail"}
           \/ ChdirRepo(r) /\ pc[r] = "enter" /\ at = "add"
           \/ GitPushFails(r) /\ pc[r] = "push" /\ at = "pull"
    BY NextPc DEF MakeDir, EnsureRepo, ChdirTop, GitCloneFails, GetRegistryUri, Fetch,
                  ChdirRepo, GitPushFails, Goto, Retry
  <1>5. at \in Working
    BY <1>4, WorkingPlaces
  <1>6. at \in Cloned => pc[r] \in Cloned \/ ~ found[r]
    BY <1>3, <1>4, WorkingPlaces DEF Located, Cloning
  <1>7. Located(r)'
    <2>1. MakeDir(r) \/ dir' = dir
      BY <1>4 DEF EnsureRepo, ChdirTop, GitCloneFails, GetRegistryUri, Fetch, ChdirRepo,
                  GitPushFails
    <2>2. at \in Cloning \union Cloned => dir'[r]
      <3>1. CASE MakeDir(r)
        BY <3>1 DEF MakeDir, TypeOK
      <3>2. CASE dir' = dir /\ ~ MakeDir(r)
        BY <1>3, <1>4, <3>2, WorkingPlaces DEF Located, Cloning
      <3>3. QED
        BY <2>1, <3>1, <3>2
    <2>3. at = "clone" => cwd' = [req |-> r, place |-> "top"]
      BY <1>3, <1>4 DEF ChdirTop, GitCloneFails, Located
    <2>4. at \in Saving \ {"enter"} => cwd' = [req |-> r, place |-> "repo"]
      BY <1>3, <1>4 DEF ChdirRepo, GitPushFails, Located, Saving
    <2>5. at \in {"idle", "wait", "lock", "mkdir"} \union Cloning => ~ Mine(r).there /\ ~ found[r]
      BY <1>3, <1>4 DEF Located, Cloning
    <2>6. at \in Cloned \ {"load"} => found[r]
      BY <1>3, <1>4, WorkingPlaces DEF Located
    <2>7. QED
      BY <1>1, <1>4, <2>2, <2>3, <2>4, <2>5, <2>6 DEF Located, Mine
  <1>8. Progress(r)'
    <2>1. at = "load" => ~ found[r]
      BY <1>3, <1>4 DEF Located, Cloning
    <2>2. reply[r] # "ok" /\ at \notin {"ok", "commit"}
      BY <1>2, <1>3, <1>4, WorkingPlaces DEF Progress
    <2>3. QED
      BY <1>1, <1>3, <1>4, <2>1, <2>2 DEF Progress, Mine, Reaches
  <1>9. QED
    BY <1>1, <1>2, <1>4, <1>5, <1>6, <1>7, <1>8, OneMoves

\* A failed attempt of a git command in the clone.
LEMMA RetryOne ==
    ASSUME TypeOK, OneProject, OneInv, NEW r \in Request, pc[r] \in {"add", "commit", "pull"},
           NEW at \in {pc[r], "push", "fail"}, at = "push" => pc[r] = "pull",
           pc' = [pc EXCEPT ![r] = at],
           UNCHANGED <<remote, work, cwd, dir, job, lock, found, reply, saved>>
    PROVE  OneInv'
  <1>1. Located(r) /\ Progress(r) /\ pc'[r] = at
    BY NextPc DEF OneInv
  <1>2. /\ pc[r] \in Working /\ at \in Working /\ pc[r] \in Cloned
        /\ pc[r] \in Saving \ {"enter"}
    BY WorkingPlaces DEF Saving
  <1>3. Located(r)'
    BY <1>1, <1>2, WorkingPlaces DEF Located, Mine, Cloning
  <1>4. Progress(r)'
    BY <1>1 DEF Progress, Mine, Reaches
  <1>5. QED
    BY <1>2, <1>3, <1>4, OneMoves

LEMMA OwnSame == ASSUME NEW r, NEW t PROVE Own(r, t, t)
  BY DEF Own

\* The request at work changes its own clone.
LEMMA OneChanges ==
    ASSUME TypeOK, OneProject, OneInv, NEW r \in Request, NEW at \in Working,
           pc[r] \in Working, pc' = [pc EXCEPT ![r] = at],
           NEW w \in Work, work' = [work EXCEPT ![r][job[r].project] = w],
           UNCHANGED <<remote, job, lock, reply>>,
           \A s \in Request \ {r} : found'[s] = found[s] /\ saved'[s] = saved[s],
           Located(r)', Progress(r)',
           at \in Cloned =>
              /\ w.git /\ w.origin[Nested] = Nothing
              /\ Own(r, w.origin, w.files) /\ Own(r, w.origin, w.index)
              /\ Own(r, w.origin, w.head)
              /\ Held(job[r], remote[job[r].project]) \subseteq saved'[r]
              /\ Held(job[r], w.origin) \subseteq saved'[r]
    PROVE  OneInv'
  <1>1. pc'[r] = at /\ \A s \in Request \ {r} : pc'[s] = pc[s]
    BY NextPc
  <1>2. work'[r][job[r].project] = w /\ \A s \in Request \ {r} : work'[s] = work[s]
    BY JobType, OneChanged DEF TypeOK
  <1>3. Unmixed(r)'
    <2>1. CASE at \in Cloned
      BY <1>2, <2>1, UnmixedFrom
    <2>2. CASE at \notin Cloned
      BY <1>1, <2>2 DEF Unmixed
    <2>3. QED
      BY <2>1, <2>2
  <1>4. \A p \in Project : remote'[p][Nested] = Nothing
    BY DEF OneInv
  <1>5. QED
    BY <1>1, <1>2, <1>3, <1>4, OneFrom

\* git clone runs in the directory of the request, where nothing is.
LEMMA GitCloneOne ==
    ASSUME TypeOK, OneProject, OneInv, NEW r \in Request, GitClone(r)
    PROVE  OneInv'
  <1> DEFINE p == job[r].project
             w == CloneOf(p)
  <1>1. /\ pc[r] = "clone" /\ pc[r] \in Working /\ pc[r] \in Cloning /\ "load" \in Working
        /\ p \in Project
    BY WorkingPlaces, JobType DEF GitClone, Cloning
  <1>2. Located(r) /\ Progress(r) /\ remote[p][Nested] = Nothing
    BY <1>1 DEF OneInv
  <1>3. /\ cwd = [req |-> r, place |-> "top"] /\ ~ work[r][p].there /\ dir[r]
        /\ UNCHANGED <<remote, job, lock, reply, cwd, dir>>
    BY <1>1, <1>2 DEF Located, Mine, GitClone
  <1>4. work' = [work EXCEPT ![r][p] = w]
    BY <1>3 DEF GitClone, InRepo
  <1>5. /\ pc' = [pc EXCEPT ![r] = "load"] /\ found' = [found EXCEPT ![r] = TRUE]
        /\ saved' = [saved EXCEPT ![r] = Held(job[r], remote[p])]
    BY DEF GitClone, Goto
  <1>6. /\ w \in Work /\ w.git /\ w.origin = remote[p] /\ w.files = remote[p]
        /\ w.index = remote[p] /\ w.head = remote[p]
    BY <1>1, CloneOfType DEF CloneOf
  <1> HIDE DEF w
  <1>7. /\ work'[r][p] = w /\ pc'[r] = "load" /\ found'[r] = TRUE
        /\ saved'[r] = Held(job[r], remote[p])
        /\ \A s \in Request \ {r} : found'[s] = found[s] /\ saved'[s] = saved[s]
    <2>1. work'[r][p] = w
      BY <1>1, <1>4, <1>6, OneChanged
    <2>2. QED
      BY <1>5, <2>1 DEF TypeOK
  <1>8. Located(r)'
    BY <1>3, <1>7 DEF Located, Cloning, Saving
  <1>9. Progress(r)'
    BY <1>1, <1>2, <1>3, <1>6, <1>7 DEF Progress, Mine
  <1>10. /\ w.git /\ w.origin[Nested] = Nothing
         /\ Own(r, w.origin, w.files) /\ Own(r, w.origin, w.index) /\ Own(r, w.origin, w.head)
         /\ Held(job[r], remote[p]) \subseteq saved'[r]
         /\ Held(job[r], w.origin) \subseteq saved'[r]
    BY <1>2, <1>6, <1>7, OwnSame
  <1>11. QED
    BY <1>1, <1>3, <1>4, <1>5, <1>6, <1>7, <1>8, <1>9, <1>10, OneChanges

LEMMA HeldIs ==
    ASSUME NEW j, NEW t
    PROVE  /\ "environment" \in Held(j, t) <=> t[Environment(j.app)] = Whole(j.conf)
           /\ "components" \in Held(j, t) <=>
                 t[Components(j.app)].whole /\ j.comps \in t[Components(j.app)].from
  BY DEF Held, Environment, Components, FileKind

\* The request at work fails; whatever its clone is like then, it is not saved.
LEMMA FailOne ==
    ASSUME TypeOK, OneProject, OneInv, NEW r \in Request, pc[r] \in Working,
           pc' = [pc EXCEPT ![r] = "fail"], UNCHANGED <<remote, job, lock, reply, saved>>,
           \A s \in Request \ {r} : found'[s] = found[s] /\ work'[s] = work[s]
    PROVE  OneInv'
  <1>1. pc'[r] = "fail" /\ \A s \in Request \ {r} : pc'[s] = pc[s]
    BY NextPc
  <1>2. "fail" \in Working /\ "fail" \notin Cloned /\ "fail" \notin Cloning
    BY WorkingPlaces DEF Cloning
  <1>3. reply[r] # "ok" /\ \A p \in Project : remote[p][Nested] = Nothing
    BY WorkingPlaces DEF OneInv, Progress
  <1>4. Located(r)' /\ Unmixed(r)' /\ Progress(r)'
    BY <1>1, <1>2, <1>3 DEF Located, Unmixed, Progress, Cloned
  <1>5. QED
    BY <1>1, <1>2, <1>3, <1>4, OneFrom

LEMMA LoadAppOne ==
    ASSUME BaseInv, OneProject, OneInv, NEW r \in Request, LoadApp(r)
    PROVE  OneInv'
  <1> DEFINE p == job[r].project
             a == job[r].app
             c == job[r].conf
             m == job[r].comps
             w == work[r][p]
             t == Begun(w.files, a, c, m)
             u == [w EXCEPT !.there = TRUE, !.files = t]
  <1>1. /\ TypeOK /\ p \in Project /\ a \in App /\ c \in Conf /\ m \in Comps
        /\ w \in Work /\ w.files \in Files /\ w.origin \in Files
        /\ pc[r] = "load" /\ pc[r] \in Working /\ job[r].op = "create"
        /\ UNCHANGED <<remote, job, lock, reply, saved, dir, cwd>>
    BY JobType, WorkingPlaces DEF LoadApp, BaseInv, TypeOK, Work
  <1>2. CASE /\ UNCHANGED work /\ pc' = [pc EXCEPT ![r] = "fail"]
             /\ found' \in {found, [found EXCEPT ![r] = FALSE]}
    <2>1. \A s \in Request \ {r} : found'[s] = found[s] /\ work'[s] = work[s]
      BY <1>1, <1>2 DEF TypeOK
    <2>2. QED
      BY <1>1, <1>2, <2>1, FailOne
  <1>3. CASE /\ found[r] /\ UNCHANGED found
             /\ work' = [work EXCEPT ![r][p] = u]
             /\ pc' = [pc EXCEPT ![r] = "registries"]
    <2>1. Located(r) /\ Progress(r) /\ Unmixed(r)
      BY DEF OneInv
    <2>2. /\ w.git /\ w.origin[Nested] = Nothing
          /\ Own(r, w.origin, w.index) /\ Own(r, w.origin, w.head)
          /\ Held(job[r], remote[p]) \subseteq saved[r]
          /\ Held(job[r], w.origin) \subseteq saved[r]
      BY <1>1, <1>3, <2>1, UnmixedIs, WorkingPlaces DEF Mine
    <2>3. w.files = w.origin
      BY <1>1, <1>3, <2>1 DEF Progress, Mine
    <2>4. /\ t \in Files
          /\ t[Environment(a)] = Whole(c)
          /\ t[Components(a)] =
                IF w.files[Components(a)] = Nothing THEN Part(m) ELSE w.files[Components(a)]
          /\ \A e \in Entry \ {Components(a), Environment(a)} : t[e] = w.files[e]
      BY <1>1, BegunType
    <2>5. work' = [work EXCEPT ![r][p] = u]
      BY <1>3
    <2> HIDE DEF w, t
    <2>6. /\ u \in Work /\ u.files = t /\ u.index = w.index /\ u.head = w.head
          /\ u.origin = w.origin /\ u.git = w.git
      BY <1>1, <2>4 DEF Work
    <2> HIDE DEF u
    <2>7. Own(r, w.origin, t)
      <3>1. \A e \in Entry : w.files[e] = w.origin[e] \/ Makes(r, p, e, w.origin[e], w.files[e])
        BY <2>3
      <3>2. \A e \in Entry : t[e] = w.origin[e] \/ Makes(r, p, e, w.origin[e], t[e])
        BY <1>1, <2>4, <3>1, BegunMakes
      <3>3. QED
        BY <3>2 DEF Own
    <2>8. "environment" \in Held(job[r], t)
      BY <2>4, HeldIs
    <2>9. work'[r][p] = u /\ pc'[r] = "registries"
      <3>1. work'[r][p] = u
        BY <1>1, <2>5, <2>6, OneChanged
      <3>2. QED
        BY <1>1, <1>3, <3>1, NextPc
    <2>10. Located(r)'
      BY <1>1, <1>3, <2>1, <2>9, WorkingPlaces DEF Located, Cloning, Saving
    <2>11. reply[r] # "ok"
      BY <1>1, <2>1 DEF Progress
    <2>12. Progress(r)'
      BY <1>1, <2>6, <2>8, <2>9, <2>11 DEF Progress, Mine
    <2>13. "registries" \in Working
      BY WorkingPlaces
    <2>14. QED
      BY <1>1, <1>3, <2>2, <2>5, <2>6, <2>7, <2>10, <2>12, <2>13, OneChanges
  <1>4. QED
    BY <1>2, <1>3 DEF LoadApp, Goto

LEMMA GenerateOne ==
    ASSUME BaseInv, OneProject, OneInv, NEW r \in Request, Generate(r)
    PROVE  OneInv'
  <1> DEFINE p == job[r].project
             a == job[r].app
             c == job[r].conf
             m == job[r].comps
             w == work[r][p]
             Done == {Generated(w.files, a, c, m), HalfWritten(w.files, a, c, m)}
  <1>1. /\ TypeOK /\ p \in Project /\ a \in App /\ c \in Conf /\ m \in Comps
        /\ pc[r] = "generate" /\ pc[r] \in Working
        /\ UNCHANGED <<remote, job, lock, reply, saved, found, dir, cwd>>
    BY JobType, WorkingPlaces DEF Generate, BaseInv
  <1>2. PICK t \in Outcome(w.files, a, c, m) :
           /\ work' = [work EXCEPT ![r][p] = [w EXCEPT !.files = t]]
           /\ Goto(r, "fail") \/ (t \in Done /\ Goto(r, "enter"))
    BY <1>1 DEF Generate, Outcome
  <1> DEFINE u == [w EXCEPT !.files = t]
  <1>3. w \in Work /\ w.files \in Files /\ w.origin \in Files
    BY <1>1, EarlyClone, Zenon DEF Entered
  <1>4. Located(r) /\ Progress(r) /\ Unmixed(r) /\ job[r].op = "create"
    BY DEF OneInv, OneProject
  <1>5. found[r] /\ pc[r] \in Cloned
    BY <1>1, <1>4, WorkingPlaces DEF Located
  <1>6. /\ w.git /\ w.origin[Nested] = Nothing
        /\ Own(r, w.origin, w.files) /\ Own(r, w.origin, w.index) /\ Own(r, w.origin, w.head)
        /\ Held(job[r], remote[p]) \subseteq saved[r]
        /\ Held(job[r], w.origin) \subseteq saved[r]
    BY <1>4, <1>5, UnmixedIs DEF Mine
  <1>7. w.files[Environment(a)] = Whole(c) /\ reply[r] # "ok"
    BY <1>1, <1>4, HeldIs DEF Progress, Mine
  <1> HIDE DEF w, a, c, m
  <1>8. /\ t \in Files
        /\ \/ t[Components(a)] = w.files[Components(a)]
           \/ t[Components(a)].from = w.files[Components(a)].from \union {m}
        /\ t[Configs(a)] = w.files[Configs(a)] \/ t[Configs(a)].from = {c}
        /\ \A e \in Entry \ {Components(a), Configs(a)} : t[e] = w.files[e]
        /\ t \in Done => t[Components(a)].whole /\ m \in t[Components(a)].from
    BY <1>1, <1>2, <1>3, Outcomes
  <1>9. work' = [work EXCEPT ![r][p] = u]
    BY <1>2
  <1> HIDE DEF Done
  <1>10. /\ u \in Work /\ u.files = t /\ u.index = w.index /\ u.head = w.head
         /\ u.origin = w.origin /\ u.git = w.git
    BY <1>3, <1>8 DEF Work
  <1> HIDE DEF u
  <1>11. work'[r][p] = u /\ \A s \in Request \ {r} : work'[s] = work[s]
    BY <1>1, <1>9, <1>10, OneChanged DEF TypeOK
  <1>12. CASE Goto(r, "fail")
    BY <1>1, <1>11, <1>12, FailOne DEF Goto
  <1>13. CASE t \in Done /\ Goto(r, "enter")
    <2>1. Own(r, w.origin, t)
      <3>1. \A e \in Entry : w.files[e] = w.origin[e] \/ Makes(r, p, e, w.origin[e], w.files[e])
        BY <1>6 DEF Own
      <3>2. \A e \in Entry : t[e] = w.origin[e] \/ Makes(r, p, e, w.origin[e], t[e])
        BY <1>1, <1>3, <1>4, <1>8, <3>1, GenerateMakes DEF a, c, m
      <3>3. QED
        BY <3>2 DEF Own
    <2>2. Environment(a) \in Entry \ {Components(a), Configs(a)}
      BY <1>1, KindType, EntryType, KindsDiffer
    <2>3. {"components", "environment"} \subseteq Held(job[r], t)
      BY <1>7, <1>8, <1>13, <2>2, HeldIs DEF a, c, m
    <2>4. pc' = [pc EXCEPT ![r] = "enter"] /\ pc'[r] = "enter" /\ "enter" \in Working
      BY <1>1, <1>13, NextPc, WorkingPlaces DEF Goto
    <2>5. Located(r)'
      BY <1>1, <1>4, <1>5, <2>4, WorkingPlaces DEF Located, Cloning
    <2>6. Progress(r)'
      BY <1>1, <1>7, <1>10, <1>11, <2>3, <2>4 DEF Progress, Mine, Reaches
    <2>7. QED
      BY <1>1, <1>6, <1>9, <1>10, <2>1, <2>4, <2>5, <2>6, OneChanges
  <1>14. QED
    BY <1>2, <1>12, <1>13

\* Where the git commands of the request at work run.
LEMMA HereMine ==
    ASSUME TypeOK, OneProject, OneInv, NEW r \in Request, pc[r] \in Saving \ {"enter"}
    PROVE  /\ pc[r] \in Working /\ pc[r] \in Cloned /\ found[r]
           /\ cwd = [req |-> r, place |-> "repo"]
           /\ Here = work[r][job[r].project] /\ Here = Mine(r)
           /\ job[r].project \in Project /\ Here \in Work
           /\ \A w : Changed(w) <=> work' = [work EXCEPT ![r][job[r].project] = w]
           /\ Located(r) /\ Progress(r) /\ reply[r] # "ok"
           /\ Here.git /\ Here.origin[Nested] = Nothing
           /\ Own(r, Here.origin, Here.files) /\ Own(r, Here.origin, Here.index)
           /\ Own(r, Here.origin, Here.head)
           /\ Held(job[r], remote[job[r].project]) \subseteq saved[r]
           /\ Held(job[r], Here.origin) \subseteq saved[r]
  <1>1. pc[r] \in Working /\ pc[r] \in Cloned \ {"load"} /\ pc[r] # "done"
    BY WorkingPlaces DEF Saving
  <1>2. Located(r) /\ Unmixed(r) /\ Progress(r) /\ job[r].project \in Project
    BY JobType DEF OneInv
  <1>3. found[r] /\ cwd = [req |-> r, place |-> "repo"] /\ reply[r] # "ok"
    BY <1>1, <1>2 DEF Located, Progress
  <1>4. /\ Here = work[r][job[r].project] /\ Here = Mine(r)
        /\ \A w : Changed(w) <=> work' = [work EXCEPT ![r][job[r].project] = w]
    BY <1>3 DEF Here, Mine, Changed
  <1>5. Here \in Work
    <2>1. work[r][job[r].project] \in Work
      BY <1>2 DEF TypeOK
    <2>2. QED
      BY <1>4, <2>1
  <1>6. /\ Here.git /\ Here.origin[Nested] = Nothing
        /\ Own(r, Here.origin, Here.files) /\ Own(r, Here.origin, Here.index)
        /\ Own(r, Here.origin, Here.head)
        /\ Held(job[r], remote[job[r].project]) \subseteq saved[r]
        /\ Held(job[r], Here.origin) \subseteq saved[r]
    BY <1>1, <1>2, <1>3, <1>4, UnmixedIs
  <1>7. QED
    BY <1>1, <1>2, <1>3, <1>4, <1>5, <1>6

\* What the git commands of the request at work make of its clone.
LEMMA SaveOne ==
    ASSUME TypeOK, OneProject, OneInv, NEW r \in Request, pc[r] \in Saving \ {"enter"},
           NEW at \in {"commit", "push", "fail"}, pc' = [pc EXCEPT ![r] = at],
           NEW w \in Work, Changed(w),
           UNCHANGED <<remote, job, lock, reply, found, saved, cwd, dir>>,
           w.git, w.origin[Nested] = Nothing,
           Own(r, w.origin, w.files), Own(r, w.origin, w.index), Own(r, w.origin, w.head),
           Held(job[r], w.origin) \subseteq saved[r],
           at = "commit" => Reaches(r, w.index),
           at = "push" => Reaches(r, w.head)
    PROVE  OneInv'
  <1> DEFINE p == job[r].project
  <1>1. /\ pc[r] \in Working /\ pc[r] \in Cloned /\ p \in Project /\ Located(r)
        /\ cwd = [req |-> r, place |-> "repo"] /\ found[r] /\ reply[r] # "ok"
        /\ work' = [work EXCEPT ![r][p] = w]
        /\ Held(job[r], remote[p]) \subseteq saved[r]
    BY HereMine
  <1>2. work'[r][p] = w
    BY <1>1, OneChanged
  <1>3. pc'[r] = at /\ at \in Working /\ at \notin Cloning
    BY NextPc, WorkingPlaces DEF Cloning
  <1>4. Located(r)'
    BY <1>1, <1>3, WorkingPlaces DEF Located
  <1>5. Progress(r)'
    BY <1>1, <1>2, <1>3 DEF Progress, Mine, Reaches
  <1>6. QED
    BY <1>1, <1>3, <1>4, <1>5, OneChanges

LEMMA GitAddOne ==
    ASSUME TypeOK, OneProject, OneInv, NEW r \in Request, GitAdd(r)
    PROVE  OneInv'
  <1>1. /\ pc[r] = "add" /\ pc[r] \in Saving \ {"enter"}
        /\ UNCHANGED <<remote, job, lock, reply, found, saved, cwd, dir>>
    BY DEF GitAdd, Saving
  <1>2. CASE Changed([Here EXCEPT !.index = Here.files]) /\ Goto(r, "commit")
    <2> DEFINE w == [Here EXCEPT !.index = Here.files]
    <2>1. /\ Here \in Work /\ Here.git /\ Here.origin[Nested] = Nothing
          /\ Own(r, Here.origin, Here.files) /\ Own(r, Here.origin, Here.head)
          /\ Held(job[r], Here.origin) \subseteq saved[r]
      BY <1>1, HereMine
    <2>2. Reaches(r, Here.files)
      BY <1>1, HereMine DEF Progress
    <2>3. /\ w \in Work /\ w.files = Here.files /\ w.index = Here.files /\ w.head = Here.head
          /\ w.origin = Here.origin /\ w.git
      BY <2>1 DEF Work
    <2>4. Changed(w) /\ pc' = [pc EXCEPT ![r] = "commit"]
      BY <1>2 DEF Goto
    <2> HIDE DEF w
    <2>5. QED
      BY <1>1, <2>1, <2>2, <2>3, <2>4, SaveOne
  <1>3. CASE Retry(r, "add", "fail") /\ UNCHANGED work
    <2>1. \E at \in {"add", "fail"} : pc' = [pc EXCEPT ![r] = at]
      BY <1>3, RetryMoves DEF PC, Saving
    <2>2. QED
      BY <1>1, <1>3, <2>1, RetryOne
  <1>4. QED
    BY <1>2, <1>3 DEF GitAdd

LEMMA GitCommitOne ==
    ASSUME TypeOK, OneProject, OneInv, NEW r \in Request, GitCommit(r)
    PROVE  OneInv'
  <1>1. /\ pc[r] = "commit" /\ pc[r] \in Saving \ {"enter"}
        /\ UNCHANGED <<remote, job, lock, reply, found, saved, cwd, dir>>
    BY DEF GitCommit, Saving
  <1>2. CASE Changed([Here EXCEPT !.head = Here.index]) /\ Goto(r, "push")
    <2> DEFINE w == [Here EXCEPT !.head = Here.index]
    <2>1. /\ Here \in Work /\ Here.git /\ Here.origin[Nested] = Nothing
          /\ Own(r, Here.origin, Here.files) /\ Own(r, Here.origin, Here.index)
          /\ Held(job[r], Here.origin) \subseteq saved[r]
      BY <1>1, HereMine
    <2>2. Reaches(r, Here.index)
      BY <1>1, HereMine DEF Progress
    <2>3. /\ w \in Work /\ w.files = Here.files /\ w.index = Here.index /\ w.head = Here.index
          /\ w.origin = Here.origin /\ w.git
      BY <2>1 DEF Work
    <2>4. Changed(w) /\ pc' = [pc EXCEPT ![r] = "push"]
      BY <1>2 DEF Goto
    <2> HIDE DEF w
    <2>5. QED
      BY <1>1, <2>1, <2>2, <2>3, <2>4, SaveOne
  <1>3. CASE Retry(r, "commit", "fail") /\ UNCHANGED work
    <2>1. \E at \in {"commit", "fail"} : pc' = [pc EXCEPT ![r] = at]
      BY <1>3, RetryMoves DEF PC, Saving
    <2>2. QED
      BY <1>1, <1>3, <2>1, RetryOne
  <1>4. QED
    BY <1>2, <1>3 DEF GitCommit

\* A rebase without conflict leaves what the request has made, and no more, on
\* top of what the repository now holds; it loses nothing the request wants
\* unless the repository had that.
LEMMA RebasedOwn ==
    ASSUME TypeOK, OneProject, OneInv, NEW r \in Request, pc[r] = "pull",
           ~ Conflict(job[r].project)
    PROVE  LET p == job[r].project IN
           Own(r, remote[p], Rebased(p)) /\ Reaches(r, Rebased(p))
  <1> DEFINE p == job[r].project
             a == job[r].app
             o == Here.origin
             h == Here.head
             t == remote[p]
             g == Rebased(p)
  <1>1. /\ p \in Project /\ a \in App /\ Own(r, o, h) /\ Held(job[r], o) \subseteq saved[r]
        /\ Held(job[r], t) \subseteq saved[r] /\ Reaches(r, h)
    BY HereMine, JobType DEF Saving, Progress
  <1>2. \A e \in Entry : g[e] = IF h[e] # o[e] THEN h[e] ELSE t[e]
    BY DEF Rebased
  <1>3. \A e \in Entry : h[e] # o[e] => t[e] = o[e] \/ t[e] = h[e]
    BY DEF Conflict
  <1> HIDE DEF o, h, t, g
  <1>4. Own(r, t, g)
    <2> SUFFICES ASSUME NEW e \in Entry, g[e] # t[e]
                 PROVE  Makes(r, p, e, t[e], g[e])
      BY DEF Own
    <2>1. g[e] = h[e] /\ h[e] # o[e] /\ t[e] = o[e]
      BY <1>2, <1>3
    <2>2. QED
      BY <1>1, <2>1 DEF Own
  <1>5. Reaches(r, g)
    <2>1. Environment(a) \in Entry /\ Components(a) \in Entry
      BY <1>1, KindType, EntryType
    <2>2. ASSUME "environment" \notin saved[r] PROVE "environment" \in Held(job[r], g)
      <3>1. h[Environment(a)] = Whole(job[r].conf) /\ o[Environment(a)] # Whole(job[r].conf)
        BY <1>1, <2>2, HeldIs DEF Reaches
      <3>2. g[Environment(a)] = Whole(job[r].conf)
        BY <1>2, <2>1, <3>1
      <3>3. QED
        BY <3>2, HeldIs
    <2>3. ASSUME "components" \notin saved[r] PROVE "components" \in Held(job[r], g)
      <3>1. /\ h[Components(a)].whole /\ job[r].comps \in h[Components(a)].from
            /\ h[Components(a)] # o[Components(a)]
        BY <1>1, <2>3, HeldIs DEF Reaches
      <3>2. g[Components(a)].whole /\ job[r].comps \in g[Components(a)].from
        BY <1>2, <2>1, <3>1
      <3>3. QED
        BY <3>2, HeldIs
    <2>4. QED
      BY <2>2, <2>3 DEF Reaches
  <1>6. QED
    BY <1>4, <1>5 DEF t, g

LEMMA GitPullOne ==
    ASSUME TypeOK, OneProject, OneInv, NEW r \in Request, GitPull(r)
    PROVE  OneInv'
  <1> DEFINE p == job[r].project
             u == [Here EXCEPT !.base = version[p], !.origin = remote[p],
                     !.head = Rebased(p), !.index = Rebased(p), !.files = Rebased(p)]
  <1>1. /\ pc[r] = "pull" /\ pc[r] \in Saving \ {"enter"}
        /\ UNCHANGED <<remote, job, lock, reply, found, saved, cwd, dir>>
    BY DEF GitPull, Saving
  <1>2. PICK at \in {"push", "fail"} : pc' = [pc EXCEPT ![r] = at]
    <2>1. Retry(r, "push", "fail") /\ "push" \in PC /\ "fail" \in PC
      BY DEF GitPull, PC, Saving
    <2>2. QED
      BY <2>1, RetryMoves
  <1>3. /\ Here \in Work /\ Here.git /\ Here.origin[Nested] = Nothing /\ p \in Project
        /\ cwd.req = r /\ Reaches(r, Here.head)
        /\ Own(r, Here.origin, Here.files) /\ Own(r, Here.origin, Here.index)
        /\ Own(r, Here.origin, Here.head)
        /\ Held(job[r], Here.origin) \subseteq saved[r]
        /\ Held(job[r], remote[p]) \subseteq saved[r]
    BY <1>1, HereMine DEF Progress
  <1>4. CASE UNCHANGED work
    BY <1>1, <1>2, <1>4, RetryOne
  <1>5. CASE Changed([Here EXCEPT !.stuck = TRUE])
    <2> DEFINE w == [Here EXCEPT !.stuck = TRUE]
    <2>1. /\ w \in Work /\ w.files = Here.files /\ w.index = Here.index /\ w.head = Here.head
          /\ w.origin = Here.origin /\ w.git
      BY <1>3 DEF Work
    <2>2. Changed(w)
      BY <1>5
    <2> HIDE DEF w
    <2>3. QED
      BY <1>1, <1>2, <1>3, <2>1, <2>2, SaveOne
  <1>6. CASE ~ Conflict(p) /\ Changed(u)
    <2>1. Rebased(p) \in Files /\ remote[p] \in Files /\ version[p] \in Nat
      BY <1>3, RebasedType DEF TypeOK
    <2>2. /\ u \in Work /\ u.files = Rebased(p) /\ u.index = Rebased(p) /\ u.head = Rebased(p)
          /\ u.origin = remote[p] /\ u.git
      BY <1>3, <2>1 DEF Work
    <2>3. Changed(u)
      BY <1>6
    <2> HIDE DEF u
    <2>4. Own(r, remote[p], Rebased(p)) /\ Reaches(r, Rebased(p))
      BY <1>1, <1>6, RebasedOwn
    <2>5. remote[p][Nested] = Nothing
      BY <1>3 DEF OneInv
    <2>6. QED
      BY <1>1, <1>2, <1>3, <2>2, <2>3, <2>4, <2>5, SaveOne
  <1>7. QED
    BY <1>3, <1>4, <1>5, <1>6 DEF GitPull

\* What the request at work pushes is its clone's head, which differs from what
\* the repository holds in what the request makes.
LEMMA PushOne ==
    ASSUME BaseInv, OneProject, OneInv, NEW r \in Request, GitPush(r)
    PROVE  LET p == job[r].project IN
           /\ p \in Project /\ pc[r] = "push" /\ lock[p] = r
           /\ Own(r, remote[p], Here.head) /\ remote[p][Nested] = Nothing
           /\ remote' = [remote EXCEPT ![p] = Here.head]
           /\ \E w \in Work : work' = [work EXCEPT ![r][p] = w]
  <1> DEFINE p == job[r].project
  <1>1. pc[r] = "push" /\ pc[r] \in Saving \ {"enter"} /\ TypeOK
    BY DEF GitPush, Saving, BaseInv
  <1>2. /\ p \in Project /\ cwd.req = r /\ Own(r, Here.origin, Here.head) /\ pc[r] \in Working
    BY <1>1, HereMine
  <1>3. lock[p] = r /\ remote[p][Nested] = Nothing
    BY <1>2, Alone
  <1>4. /\ Here.origin = remote[p]
        /\ remote' = [remote EXCEPT ![p] = Here.head]
        /\ \E w \in Work : work' = [work EXCEPT ![r][p] = w]
    <2>1. job[cwd.req].project = p
      BY <1>2
    <2>2. /\ Here.origin = remote[job[cwd.req].project]
          /\ remote' = [remote EXCEPT ![job[cwd.req].project] = Here.head]
          /\ \E w \in Work : work' = [work EXCEPT ![cwd.req][job[cwd.req].project] = w]
      BY PushFrom, Zenon
    <2>3. QED
      BY <1>2, <2>1, <2>2
  <1>5. QED
    BY <1>1, <1>2, <1>3, <1>4

LEMMA GitPushOne ==
    ASSUME BaseInv, OneProject, OneInv, NEW r \in Request, GitPush(r)
    PROVE  OneInv'
  <1> DEFINE p == job[r].project
             h == Here.head
             o == remote[p]
  <1>1. /\ pc[r] = "push" /\ pc[r] \in Saving \ {"enter"} /\ TypeOK
        /\ pc' = [pc EXCEPT ![r] = "ok"]
        /\ UNCHANGED <<job, lock, reply, found, cwd, dir>>
    BY DEF GitPush, Saving, BaseInv, Goto
  <1>2. /\ p \in Project /\ Own(r, o, h) /\ o[Nested] = Nothing
        /\ remote' = [remote EXCEPT ![p] = h]
    BY PushOne
  <1>3. PICK w \in Work : work' = [work EXCEPT ![r][p] = w]
    BY PushOne
  <1>4. /\ cwd.req = r /\ Here \in Work /\ Reaches(r, h) /\ pc[r] \in Working /\ pc[r] \in Cloned
        /\ reply[r] # "ok"
    BY <1>1, HereMine DEF Progress
  <1>5. h[Nested] = Nothing
    <2>1. Nested \in Entry /\ job[r].app \in App
      BY <1>1, EntryType, JobType
    <2>2. ~ Makes(r, p, Nested, o[Nested], h[Nested])
      BY <2>1, EntryType, KindType DEF Makes
    <2>3. QED
      BY <1>2, <2>1, <2>2 DEF Own
  <1>6. saved' = [s \in Request |-> IF pc[s] \in Cloned /\ job[s].project = p
                                   THEN saved[s] \union Held(job[s], h) ELSE saved[s]]
    BY <1>4 DEF GitPush, Note
  <1> HIDE DEF h, o
  <1>7. saved'[r] = saved[r] \union Held(job[r], h)
    BY <1>4, <1>6
  <1>8. \A s \in Request \ {r} : /\ saved'[s] = saved[s] /\ work'[s] = work[s]
                                 /\ found'[s] = found[s] /\ reply'[s] = reply[s]
    <2>1. \A s \in Request \ {r} : pc[s] \notin Cloned
      BY <1>4, Alone DEF Working
    <2>2. \A s \in Request \ {r} : work'[s] = work[s]
      BY <1>1, <1>2, <1>3, OneChanged
    <2>3. QED
      BY <1>1, <1>6, <2>1, <2>2
  <1>9. pc'[r] = "ok" /\ \A s \in Request \ {r} : pc'[s] = pc[s]
    BY <1>1, NextPc
  <1>10. \A q \in Project : remote'[q][Nested] = Nothing
    BY <1>1, <1>2, <1>5 DEF OneInv, TypeOK
  <1>11. "ok" \in Working /\ "ok" \notin Cloned /\ "ok" \notin Cloning
    BY WorkingPlaces DEF Cloning
  <1>12. Located(r)' /\ Unmixed(r)'
    BY <1>9, <1>11 DEF Located, Unmixed, Cloned
  <1>13. Progress(r)'
    BY <1>1, <1>4, <1>7, <1>9 DEF Progress, Reaches
  <1>14. QED
    BY <1>1, <1>4, <1>8, <1>9, <1>10, <1>11, <1>12, <1>13, OneFrom

\* The request at work answers and lets go of the lock.
LEMMA ReturnOne ==
    ASSUME TypeOK, OneProject, OneInv, NEW r \in Request, Return(r)
    PROVE  OneInv'
  <1>1. /\ pc[r] \in {"ok", "fail"} /\ pc[r] \in Working /\ job[r].op = "create"
        /\ job[r].project \in Project
        /\ UNCHANGED <<remote, job, found, saved, cwd>>
        /\ pc' = [pc EXCEPT ![r] = "done"]
    BY WorkingPlaces, JobType DEF Return, Goto, OneProject
  <1>2. /\ pc'[r] = "done" /\ \A s \in Request \ {r} : pc'[s] = pc[s]
        /\ lock' = [lock EXCEPT ![job[r].project] = NoRequest]
        /\ reply' = [reply EXCEPT ![r] = IF pc[r] = "ok" THEN "ok" ELSE "error"]
        /\ \A s \in Request \ {r} : work'[s] = work[s]
    BY <1>1, NextPc DEF Return, TypeOK
  <1>3. \A s \in Request \ {r} : pc[s] \notin Working
    BY <1>1, Alone
  <1>4. "done" \notin Working /\ "done" \notin Cloned /\ "done" \notin Cloning
    BY WorkingPlaces DEF Cloning
  <1>5. Exclusive'
    <2>1. lock'[job[r].project] = NoRequest
      BY <1>1, <1>2 DEF TypeOK
    <2>2. \A s \in Request : pc'[s] \notin Working
      BY <1>2, <1>3, <1>4
    <2>3. QED
      BY <1>1, <2>1, <2>2 DEF Exclusive, OneProject
  <1>6. ASSUME NEW s \in Request PROVE Located(s)' /\ Unmixed(s)' /\ Progress(s)'
    <2>1. Located(s) /\ Progress(s)
      BY DEF OneInv
    <2>2. CASE s = r
      <3>1. reply'[r] = "ok" => pc[r] = "ok"
        BY <1>1, <1>2 DEF TypeOK
      <3>2. Located(r)' /\ Unmixed(r)'
        BY <1>2, <1>4 DEF Located, Unmixed, Cloned
      <3>3. Progress(r)'
        BY <1>1, <1>2, <2>1, <2>2, <3>1 DEF Progress
      <3>4. QED
        BY <2>2, <3>2, <3>3
    <2>3. CASE s # r
      <3>1. reply'[s] = reply[s]
        BY <1>2, <2>3 DEF TypeOK
      <3>2. QED
        BY <1>1, <1>2, <1>3, <2>1, <2>3, <3>1, OthersKeep
    <2>4. QED
      BY <2>2, <2>3
  <1>7. QED
    BY <1>1, <1>5, <1>6 DEF OneInv

\* Others push, while a request is at work or none is.
LEMMA OutsideOne ==
    ASSUME BaseInv, OneProject, OneInv, NEW p \in Project, OutsidePush(p)
    PROVE  OneInv'
  <1>1. TypeOK /\ PublishedWhole /\ UNCHANGED <<lock, cwd, dir, work, job, pc, found, reply>>
    BY DEF OutsidePush, BaseInv
  <1>2. PICK g \in Files : remote' = [remote EXCEPT ![p] = g] /\ g[Nested] = remote[p][Nested]
    BY <1>1, OutsideGrows
  <1>3. remote'[p] = g /\ \A q \in Project \ {p} : remote'[q] = remote[q]
    BY <1>1, <1>2 DEF TypeOK
  <1>4. \A q \in Project : remote'[q][Nested] = Nothing
    BY <1>2, <1>3 DEF OneInv
  <1>5. \A s \in Request :
           saved'[s] = IF pc[s] \in Cloned /\ job[s].project = p
                       THEN saved[s] \union Held(job[s], g) ELSE saved[s]
    BY <1>3 DEF OutsidePush, Note
  <1>6. Exclusive'
    BY <1>1 DEF OneInv, Exclusive
  <1>7. ASSUME NEW s \in Request PROVE Located(s)' /\ Unmixed(s)' /\ Progress(s)'
    <2>1. Located(s) /\ Unmixed(s) /\ Progress(s) /\ saved[s] \subseteq saved'[s]
          /\ job[s].project \in Project
      BY <1>1, <1>5, JobType DEF OneInv
    <2>2. Located(s)'
      BY <1>1, <2>1 DEF Located, Mine
    <2>3. Progress(s)'
      BY <1>1, <2>1 DEF Progress, Mine, Reaches
    <2>4. CASE pc[s] \in Cloned /\ found[s]
      <3> DEFINE w == Mine(s)
      <3>1. /\ w.git /\ w.origin[Nested] = Nothing
            /\ Own(s, w.origin, w.files) /\ Own(s, w.origin, w.index)
            /\ Own(s, w.origin, w.head)
            /\ Held(job[s], remote[job[s].project]) \subseteq saved[s]
            /\ Held(job[s], w.origin) \subseteq saved[s]
        BY <2>1, <2>4, UnmixedIs
      <3>2. Held(job[s], remote'[job[s].project]) \subseteq saved'[s]
        BY <1>3, <1>5, <2>1, <2>4, <3>1
      <3>3. work'[s][job[s].project] = w
        BY <1>1 DEF Mine
      <3> HIDE DEF w
      <3>4. Held(job[s], w.origin) \subseteq saved'[s]
        BY <2>1, <3>1
      <3>5. Unmixed(s)'
        BY <1>1, <3>1, <3>2, <3>3, <3>4, UnmixedFrom
      <3>6. QED
        BY <2>2, <2>3, <3>5
    <2>5. CASE ~ (pc[s] \in Cloned /\ found[s])
      BY <1>1, <2>2, <2>3, <2>5 DEF Unmixed
    <2>6. QED
      BY <2>4, <2>5
  <1>8. QED
    BY <1>4, <1>6, <1>7 DEF OneInv

LEMMA OneInit == Init => OneInv
  <1> SUFFICES ASSUME Init, OneProject PROVE OneInv
    BY DEF OneInv
  <1>1. ASSUME NEW r \in Request
        PROVE  /\ pc[r] = "idle" /\ reply[r] = "none" /\ ~ found[r] /\ ~ Mine(r).there
               /\ lock[job[r].project] = NoRequest
    <2>1. job[r].project \in Project
      BY InitType, JobType
    <2>2. QED
      BY <2>1 DEF Init, Mine, NoWork
  <1>2. "idle" \notin Working /\ "idle" \notin Cloned /\ "idle" \notin Cloning
    BY WorkingPlaces DEF Cloning
  <1>3. \A p \in Project : remote[p][Nested] = Nothing
    BY EntryType DEF Init, NoFiles
  <1>4. Exclusive
    BY <1>1, <1>2 DEF Exclusive
  <1>5. \A r \in Request : Located(r) /\ Unmixed(r) /\ Progress(r)
    BY <1>1, <1>2 DEF Located, Unmixed, Progress, Cloned
  <1>6. QED
    BY <1>3, <1>4, <1>5 DEF OneInv

LEMMA JobStays == [Next]_vars => job' = job
  BY Zenon
  DEF Next, Step, Clone, Save, vars, Start, GetProjectLock, TakeLock, MakeDir, EnsureRepo,
      ChdirTop, GitClone, GitCloneFails, LoadApp, GetRegistryUri, Fetch, Generate,
      ApplyApp, ChdirRepo, GitAdd, GitCommit, GitPush, GitPushFails, GitPull, Return,
      OutsidePush

LEMMA OneStep == BaseInv /\ OneInv /\ [Next]_vars => OneInv'
  <1> SUFFICES ASSUME BaseInv, OneInv, [Next]_vars PROVE OneInv'
    OBVIOUS
  <1>1. TypeOK /\ job' = job
    BY JobStays DEF BaseInv
  <1>2. CASE ~ OneProject
    BY <1>1, <1>2 DEF OneInv, OneProject
  <1>3. CASE OneProject
    <2>1. ASSUME NEW r \in Request, Step(r) PROVE OneInv'
      <3>1. ~ ApplyApp(r)
        BY <1>3 DEF ApplyApp, OneProject
      <3>2. QED
        BY <1>1, <1>3, <2>1, <3>1, EarlyOne, HandlerOne, GitCloneOne, LoadAppOne, GenerateOne,
           GitAddOne, GitCommitOne, GitPushOne, GitPullOne, ReturnOne
        DEF Step, Clone, Save
    <2>2. ASSUME NEW p \in Project, OutsidePush(p) PROVE OneInv'
      BY <1>3, <2>2, OutsideOne
    <2>3. CASE UNCHANGED vars
      <3>1. /\ Exclusive'
            /\ \A p \in Project : remote'[p][Nested] = Nothing
        BY <1>3, <2>3 DEF vars, OneInv, Exclusive
      <3>2. ASSUME NEW s \in Request PROVE Located(s)' /\ Unmixed(s)' /\ Progress(s)'
        <4>1. Located(s) /\ Unmixed(s) /\ Progress(s)
          BY <1>3 DEF OneInv
        <4>2. Located(s)'
          BY <2>3, <4>1 DEF vars, Located, Mine
        <4>3. Unmixed(s)'
          BY <2>3, <4>1, UnmixedKeeps DEF vars
        <4>4. Progress(s)'
          BY <2>3, <4>1 DEF vars, Progress, Mine, Reaches
        <4>5. QED
          BY <4>2, <4>3, <4>4
      <3>3. QED
        BY <3>1, <3>2 DEF OneInv
    <2>4. QED
      BY <2>1, <2>2, <2>3 DEF Next
  <1>4. QED
    BY <1>2, <1>3

(***************************************************************************)
(* While all requests are to create apps in one project, one at a time     *)
(* holds the lock; the process is in its clone, which differs from what    *)
(* was cloned in the request's own changes.                                *)
(***************************************************************************)
THEOREM Invariant == Spec => []IndInv
  <1>1. Init => IndInv
    BY BaseInit, OneInit DEF IndInv
  <1>2. IndInv /\ [Next]_vars => IndInv'
    BY BaseStep, OneStep DEF IndInv
  <1>3. QED
    BY <1>1, <1>2, PTL DEF Spec

(***************************************************************************)
(* In one project, what CreateApp answers without error was saved: the     *)
(* project's repository came to hold the request's app complete and with   *)
(* its environment, whatever failed, was rejected, rebased or pushed by    *)
(* others before; and no clone made inside a clone is pushed.              *)
(***************************************************************************)
THEOREM SavedCorrect == Spec => []SavedInOneProject
  <1>1. IndInv => SavedInOneProject
    BY DEF IndInv, OneInv, SavedInOneProject, OkMeansSaved, Progress
  <1>2. QED
    BY <1>1, Invariant, PTL

\* A step of the server that changes a repository is a push of the lock's holder.
LEMMA PushesOwn ==
    ASSUME IndInv, [Next]_vars, NEW p \in Project, NEW e \in Entry, ServerPush(p, e), OneProject
    PROVE  \E r \in Request : pc[r] = "push" /\ lock[p] = r /\ Pushed(r, p, e)
  <1>1. BaseInv /\ OneInv /\ TypeOK
    BY DEF IndInv, BaseInv
  <1>2. PICK r \in Request : GitPush(r)
    BY <1>1, PushIsGit DEF BaseInv
  <1> DEFINE x == job[r].project
  <1>3. /\ x \in Project /\ pc[r] = "push" /\ lock[x] = r
        /\ Own(r, remote[x], Here.head)
        /\ remote' = [remote EXCEPT ![x] = Here.head]
    BY <1>1, <1>2, PushOne
  <1>4. remote'[x] = Here.head /\ \A y \in Project \ {x} : remote'[y] = remote[y]
    BY <1>1, <1>3 DEF TypeOK
  <1>5. p = x /\ remote'[p][e] # remote[p][e]
    BY <1>4 DEF ServerPush
  <1>6. Makes(r, p, e, remote[p][e], remote'[p][e])
    BY <1>3, <1>4, <1>5 DEF Own
  <1>7. QED
    BY <1>3, <1>5, <1>6 DEF Pushed

(***************************************************************************)
(* In one project a push of the server changes the app that the holder of  *)
(* the lock creates, to what that request generated, and nothing else; to  *)
(* the components that the repository has it only adds.                    *)
(***************************************************************************)
THEOREM PushesOwnCorrect == Spec => PushesOwnApp
  <1>1. IndInv /\ [Next]_vars =>
          [\A p \in Project, e \in Entry : ServerPush(p, e) /\ OneProject =>
             \E r \in Request : pc[r] = "push" /\ lock[p] = r /\ Pushed(r, p, e)]_vars
    BY PushesOwn
  <1>2. QED
    BY <1>1, Invariant, PTL DEF Spec, PushesOwnApp

=============================================================================
