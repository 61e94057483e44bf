-------------------------------- MODULE KfApp --------------------------------
(***************************************************************************)
(* The directory of a kfctl application (bootstrap/pkg/kfapp) and the      *)
(* commands that write it: init, generate and show, one at a time, each a  *)
(* sequence of stages that run in the order of the code.  A stage whose    *)
(* call fails, and a command that is killed, leave what the stage has done *)
(* so far: a file written whole is truncated first.                        *)
(*                                                                         *)
(* app.yaml is both what a command reads and what it writes, several times *)
(* over: the platform and the package manager each hold a copy of it and   *)
(* meet through the file.  An empty app.yaml reads like one that is not    *)
(* there, and both are None here.                                          *)
(***************************************************************************)
EXTENDS Integers, Sequences

CONSTANTS
    None,        \* nothing, an empty file, a field that is not set
    Version,     \* versions of the repository
    Length,      \* how long the files are that are copied from a version
    Jupyter,     \* versions whose template for minikube has the component jupyter
    MaxMoves,    \* bound: commands and interruptions
    MaxTries     \* how often ksonnet's init is tried again (5 in the code)

ASSUME KfAppAssumption ==
    /\ Length \in [Version -> Nat]
    /\ Jupyter \subseteq Version
    /\ MaxMoves \in Nat /\ MaxTries \in Nat

VARIABLES
    cache,     \* the version under .cache
    app,       \* app.yaml
    config,    \* the deployment manager's files under gcp_config
    ks,        \* the ksonnet application under ks_app
    yamls,     \* the directory yamls
    cmd,       \* the command that runs, or the last that ran
    todo,      \* its stages still to run, <<>> when it has ended
    def,       \* its copy of app.yaml
    was,       \* app.yaml when it began
    result,    \* how it ended
    tries, moves

disk == <<cache, app, config, ks, yamls>>
bounds == <<tries, moves>>
vars == <<disk, cmd, todo, def, was, result, bounds>>

\* "none": the field is empty.
Platform == {"gcp", "minikube", "none"}
Component == {"ingress", "spartakus", "ambassador", "katib", "jupyter"}
Name == {"default", "mine"}

\* A component's parameters: its prototype's, the configuration template's,
\* those of a platform's generate, or the names of the ingress.
Value == {<<"prototype">>, <<"template">>, <<"generated">>} \union (Name \X Name)

Params == UNION {[C -> Value] : C \in SUBSET Component}

KfDef == [platform : Platform, version : Version, comps : SUBSET Component,
          ip : Name \union {None}, host : Name \union {None}, params : Params]

Blank == [platform |-> "none", version |-> None, comps |-> {}, ip |-> None, host |-> None,
          params |-> <<>>]

\* loads: can it be loaded?  registry, packages: the versions they are of.
KsApp == [loads : BOOLEAN, registry : Version \union {None},
          packages : Version \union {None}, params : Params]

\* What ksonnet makes, and what is left of that midway.
Empty(loads) == [loads |-> loads, registry |-> None, packages |-> None, params |-> <<>>]

\* copies: the version the copied files begin with, and the longer one, if
\* any, that they still end with.
Config == [copies : [head : Version, tail : Version \union {None}] \union {None},
           iam : Version \union {None},
           cluster : [version : Version, ip : Name] \union {None},
           storage : Version \union {None}]

(***************************************************************************)
(* flags: are --ipName and --hostname given?  Disabling the usage reports  *)
(* concerns the configuration of gcp, which alone has them.                *)
(***************************************************************************)
Command ==
    {c \in [kind : {"init"}, platform : Platform, version : Version, reports : BOOLEAN] :
        c.platform # "gcp" => c.reports}
    \union [kind : {"generate"}, resources : {"all", "k8s", "platform"}, flags : BOOLEAN]
    \union {[kind |-> "show"]}

ASSUME NoneAssumption ==
    None \notin Version \union Name \union KfDef \union KsApp \union Command
               \union {"ok", "failed", "interrupted", "empty", "default.yaml"}

Init ==
    /\ cache = None /\ app = None /\ ks = None /\ yamls = None
    /\ config = [copies |-> None, iam |-> None, cluster |-> None, storage |-> None]
    /\ cmd = None /\ todo = <<>> /\ def = Blank /\ was = None /\ result = None
    /\ tries = 0 /\ moves = 0
-----------------------------------------------------------------------------
(* Commands begin and end *)

\* Mutant: gcp leaves app.yaml to the package manager, like the others.
InitPlatformUnsaved(p) == IF p = "gcp" THEN <<"project">> ELSE <<>>

\* The platform's part of init: gcp writes app.yaml, the others do nothing.
InitPlatform(p) == IF p = "gcp" THEN <<"save", "project">> ELSE <<>>

GeneratePlatform(p) ==
    IF p = "gcp" THEN <<"copies", "iam", "cluster", "storage", "params", "save">>
    ELSE IF p = "minikube" THEN <<"params", "save">> ELSE <<>>

\* Mutant: parameters are set before there are components.
GenerateK8sParamsFirst ==
    <<"load", "initKs", "registry", "packages", "paramSet", "components", "save">>

GenerateK8s ==
    <<"load", "initKs", "registry", "packages", "components", "paramSet", "save">>

\* What the command has to do; p is the platform of its copy of app.yaml.
Stages(c, p) ==
    CASE c.kind = "init" -> <<"download">> \o InitPlatform(p) \o <<"load", "save">>
      [] c.kind = "show" -> IF p = "none" THEN <<"load", "render", "mkdir", "yaml">> ELSE <<"show">>
      [] OTHER -> (IF c.resources = "k8s" THEN <<>> ELSE GeneratePlatform(p)) \o
                  (IF c.resources = "platform" THEN <<>> ELSE GenerateK8s)

\* The configuration template of the repository with the flags of init.
Template(c) ==
    LET comps == IF c.platform = "gcp"
                 THEN {"ambassador", "katib", "ingress"} \union
                      (IF c.reports THEN {"spartakus"} ELSE {})
                 ELSE {"ambassador", "katib"} \union
                      (IF c.version \in Jupyter THEN {"jupyter"} ELSE {})
        given == IF c.platform = "gcp" THEN {"ingress", "spartakus"} ELSE {"ambassador"}
    IN  [Blank EXCEPT !.platform = c.platform, !.version = c.version, !.comps = comps,
                      !.params = [k \in comps \intersect given |-> <<"template">>]]

\* Mutant: the host, too, is the default again when it is not given.
LoadedAfresh(a, flags) ==
    LET d == IF a = None THEN Blank ELSE a
        name == IF flags THEN "mine" ELSE IF d.platform = "gcp" THEN "default" ELSE None
    IN  [d EXCEPT !.ip = name, !.host = name]

\* app.yaml with the flags of generate: a name of the address that is not
\* given is the default again, that of the host is what it was.
Loaded(a, flags) ==
    LET d == IF a = None THEN Blank ELSE a IN
    [d EXCEPT !.ip = IF flags THEN "mine" ELSE IF d.platform = "gcp" THEN "default" ELSE @,
              !.host = IF flags THEN "mine"
                       ELSE IF d.platform = "gcp" /\ @ = None THEN "default" ELSE @]

Begin(c) ==
    LET d == IF c.kind = "init" THEN Template(c)
             ELSE Loaded(app, c.kind = "generate" /\ c.flags)
    IN  /\ todo = <<>>
        /\ moves < MaxMoves /\ moves' = moves + 1
        /\ cmd' = c /\ def' = d /\ was' = app /\ tries' = 0
        /\ todo' = Stages(c, d.platform)
        /\ result' = IF todo' = <<>> THEN "ok" ELSE None
        /\ UNCHANGED disk

\* Mutant: what ended the command is noted, and its stages go on.
ReturnLater(r) ==
    /\ todo' = Tail(todo) /\ result' = r
    /\ UNCHANGED <<cmd, was, def, bounds>>

Return(r) ==
    /\ todo' = <<>> /\ def' = Blank /\ result' = r /\ tries' = 0
    /\ UNCHANGED <<cmd, was, moves>>

At(s) == todo # <<>> /\ Head(todo) = s

Proceed(d) ==
    IF Len(todo) = 1 THEN Return("ok")
    ELSE todo' = Tail(todo) /\ def' = d /\ UNCHANGED <<cmd, was, result, bounds>>

Stay == UNCHANGED <<cmd, todo, def, was, result, bounds>>
-----------------------------------------------------------------------------
(* Stages of init *)

\* The cache is removed before the download, which appears whole.
Download ==
    /\ At("download")
    /\ cache' = cmd.version
    /\ Proceed(def)
    /\ UNCHANGED <<app, config, ks, yamls>>

\* The services of the project are enabled, unless that is to be skipped.
InitProject ==
    /\ At("project")
    /\ Proceed(def)
    /\ UNCHANGED disk

Save ==
    /\ At("save")
    /\ app' = def
    /\ Proceed(def)
    /\ UNCHANGED <<cache, config, ks, yamls>>

Or(x, y) == IF x = None THEN y ELSE x

\* What f says, and what g says where f is silent.
Over(f, g) == [x \in DOMAIN f \union DOMAIN g |-> IF x \in DOMAIN f THEN f[x] ELSE g[x]]

\* What app.yaml says goes before what the command holds.
Merged(file, d) ==
    IF file = None THEN d
    ELSE [file EXCEPT !.platform = IF @ = "none" THEN d.platform ELSE @,
                      !.ip = Or(@, d.ip), !.host = Or(@, d.host),
                      !.params = Over(@, d.params)]

Unloadable == ks # None /\ ~ ks.loads

\* app.yaml is read again, and the ksonnet application is loaded if there is one.
GetPackageManagers ==
    /\ At("load")
    /\ IF Unloadable THEN Return("failed") ELSE Proceed(Merged(app, def))
    /\ UNCHANGED disk
-----------------------------------------------------------------------------
(* Stages of generate: the platform *)

InCache == def.version # None /\ cache = def.version

\* A stage that reads the repository fails when the cache has another version.
Missing(s) ==
    /\ At(s)
    /\ ~ InCache
    /\ Return("failed")
    /\ UNCHANGED disk

\* A copy does not truncate what it overwrites.
Copied(old, v) ==
    LET last == IF old = None THEN v ELSE Or(old.tail, old.head)
    IN  [head |-> v, tail |-> IF Length[last] > Length[v] THEN last ELSE None]

WriteConfig(s, text) ==
    /\ At(s)
    /\ InCache
    /\ config' = [config EXCEPT ![s] = text]
    /\ Proceed(def)
    /\ UNCHANGED <<cache, app, ks, yamls>>

CopyFiles == WriteConfig("copies", Copied(config.copies, def.version))
WriteIamBindings == WriteConfig("iam", def.version)
WriteClusterConfig == WriteConfig("cluster", [version |-> def.version, ip |-> def.ip])
WriteStorageConfig == WriteConfig("storage", def.version)

GcpParams(d) ==
    LET set == {"ingress"} \union (d.comps \intersect {"spartakus"}) IN
    [d EXCEPT !.params =
        Over([k \in set |-> IF k = "ingress" THEN <<d.ip, d.host>> ELSE <<"generated">>], @)]

MinikubeParams(d) ==
    [d EXCEPT !.comps = @ \ {"katib"},
              !.params = Over([k \in {"ambassador", "jupyter"} |-> <<"generated">>], @)]

SetParams ==
    /\ At("params")
    /\ Proceed(IF def.platform = "gcp" THEN GcpParams(def) ELSE MinikubeParams(def))
    /\ UNCHANGED disk
-----------------------------------------------------------------------------
(* Stages of generate: the Kubernetes resources *)

SetKs(k) == ks' = k /\ UNCHANGED <<cache, app, config, yamls>>

\* Mutant: what was there is kept if it can be loaded.
InitKsKept ==
    /\ At("initKs")
    /\ IF def.platform = "gcp" /\ ~ InCache THEN SetKs(None) /\ Return("failed")
       ELSE SetKs(IF ks = None THEN Empty(TRUE) ELSE ks) /\ Proceed(def)

\* What was there is removed.  gcp's applications take the server's
\* description from the cache.
InitKs ==
    /\ At("initKs")
    /\ IF def.platform = "gcp" /\ ~ InCache THEN SetKs(None) /\ Return("failed")
       ELSE SetKs(Empty(TRUE)) /\ Proceed(def)

RegistryAdd ==
    /\ At("registry")
    /\ InCache
    /\ SetKs([ks EXCEPT !.registry = def.version])
    /\ Proceed(def)

PkgInstall ==
    /\ At("packages")
    /\ InCache
    /\ SetKs([ks EXCEPT !.packages = def.version])
    /\ Proceed(def)

\* Those whose parameters a prototype insists on.
InitRequired == {"ingress", "spartakus"}

\* A component that is there already is left alone.
ComponentAdd ==
    LET missing == def.comps \ DOMAIN ks.params IN
    /\ At("components")
    /\ \/ LET c == CHOOSE c \in missing : TRUE IN
             /\ missing # {}
             /\ SetKs([ks EXCEPT !.params = Over(@, [k \in {c} |->
                   IF c \in InitRequired THEN def.params[c] ELSE <<"prototype">>])])
             /\ Stay
       \/ missing = {} /\ Proceed(def) /\ UNCHANGED disk

\* Parameters are set in any order; a component that is not there has none.
ParamSet ==
    LET unset == {c \in DOMAIN def.params : c \in DOMAIN ks.params => ks.params[c] # def.params[c]}
    IN  /\ At("paramSet")
        /\ \/ \E c \in unset :
                 IF c \in DOMAIN ks.params
                 THEN SetKs([ks EXCEPT !.params[c] = def.params[c]]) /\ Stay
                 ELSE Return("failed") /\ UNCHANGED disk
           \/ unset = {} /\ Proceed(def) /\ UNCHANGED disk
-----------------------------------------------------------------------------
(* Stages of show *)

\* No platform of this repository can show.
ShowPlatform ==
    /\ At("show")
    /\ Return("failed")
    /\ UNCHANGED disk

Render ==
    /\ At("render")
    /\ IF ks = None THEN Return("failed") ELSE Proceed(def)
    /\ UNCHANGED disk

MakeYamls ==
    /\ At("mkdir")
    /\ IF yamls # None THEN Return("failed") /\ UNCHANGED disk
       ELSE Proceed(def) /\ yamls' = "empty" /\ UNCHANGED <<cache, app, config, ks>>

WriteYaml ==
    /\ At("yaml")
    /\ yamls' = "default.yaml"
    /\ Proceed(def)
    /\ UNCHANGED <<cache, app, config, ks>>
-----------------------------------------------------------------------------
(* Interruptions *)

\* What a stage leaves that has not come to its end.
Leftover ==
    CASE Head(todo) = "download" ->
            cache' \in {cache, None} /\ UNCHANGED <<app, config, ks, yamls>>
      [] Head(todo) = "save" ->
            app' \in {app, None} /\ UNCHANGED <<cache, config, ks, yamls>>
      [] Head(todo) \in {"iam", "cluster", "storage"} ->
            /\ config' \in {config, [config EXCEPT ![Head(todo)] = None]}
            /\ UNCHANGED <<cache, app, ks, yamls>>
      [] Head(todo) = "initKs" ->
            \E k \in {ks, None, Empty(TRUE), Empty(FALSE)} : SetKs(k)
      [] OTHER -> UNCHANGED disk

Trouble == moves < MaxMoves

\* A call fails for good, or the command is killed.
Interrupt ==
    /\ todo # <<>>
    /\ Trouble
    /\ Leftover
    /\ todo' = <<>> /\ def' = Blank /\ result' = "interrupted" /\ tries' = 0
    /\ moves' = moves + 1
    /\ UNCHANGED <<cmd, was>>

\* ksonnet's init fails, and is tried again from the removal on.
TryAgain ==
    /\ At("initKs")
    /\ Trouble
    /\ tries < MaxTries
    /\ Leftover
    /\ tries' = tries + 1 /\ moves' = moves + 1
    /\ UNCHANGED <<cmd, todo, def, was, result>>

Next ==
    \/ \E c \in Command : Begin(c)
    \/ Download \/ InitProject \/ Save \/ GetPackageManagers
    \/ \E s \in {"copies", "iam", "cluster", "storage", "registry", "packages"} : Missing(s)
    \/ CopyFiles \/ WriteIamBindings \/ WriteClusterConfig \/ WriteStorageConfig \/ SetParams
    \/ InitKs \/ RegistryAdd \/ PkgInstall \/ ComponentAdd \/ ParamSet
    \/ ShowPlatform \/ Render \/ MakeYamls \/ WriteYaml
    \/ Interrupt \/ TryAgain

Spec == Init /\ [][Next]_vars
-----------------------------------------------------------------------------
(* Properties *)

\* What is held of a directory without app.yaml.
Bare == [platform : {"none"}, version : {None}, comps : {{}}, ip : Name \union {None},
         host : Name \union {None}, params : {<<>>}]

\* The types.
TypeOK ==
    /\ cache \in Version \union {None}
    /\ app \in KfDef \union {None} /\ was \in KfDef \union {None}
    /\ config \in Config
    /\ ks \in KsApp \union {None}
    /\ yamls \in {None, "empty", "default.yaml"}
    /\ cmd \in Command \union {None}
    /\ def \in KfDef \union Bare
    /\ result \in {None, "ok", "failed", "interrupted"}
    /\ todo # <<>> => cmd # None /\ result = None
    /\ tries \in 0 .. MaxTries /\ moves \in 0 .. MaxMoves

Ended(kind, r) == cmd # None /\ cmd.kind = kind /\ result = r

(***************************************************************************)
(* A generate of everything that returned nil leaves the three parts of    *)
(* one configuration, whatever commands were killed or failed before it    *)
(* and whatever they left: the ksonnet application has the components of   *)
(* app.yaml and no others, with its parameters, from its version; so have  *)
(* the files for the deployment manager, but for what a longer copy left   *)
(* at the end of the copied ones; and the names that were asked for, or    *)
(* the default address and the host of before, are in all of them.         *)
(***************************************************************************)
OkMeansConfigured ==
    Ended("generate", "ok") /\ cmd.resources = "all" =>
        /\ app # None /\ was # None
        /\ cache = app.version
        /\ ks.loads /\ {ks.registry, ks.packages} = {app.version}
        /\ DOMAIN ks.params = app.comps
        /\ \A c \in DOMAIN app.params : ks.params[c] = app.params[c]
        /\ app.platform = "gcp" =>
              /\ app.ip = IF cmd.flags THEN "mine" ELSE "default"
              /\ app.host = IF cmd.flags THEN "mine" ELSE Or(was.host, "default")
              /\ app.params["ingress"] = <<app.ip, app.host>>
              /\ {config.copies.head, config.iam, config.cluster.version, config.storage} =
                    {app.version}
              /\ config.cluster.ip = app.ip
              /\ config.copies.tail # None =>
                    Length[config.copies.tail] > Length[app.version]
        /\ app.platform = "minikube" =>
              "katib" \notin app.comps /\ app.params["ambassador"] = <<"generated">>

(***************************************************************************)
(* An init that returned nil leaves the version asked for in the cache.    *)
(* On gcp app.yaml is the template of that version with the flags of init, *)
(* whatever was there before.  The other platforms write nothing before    *)
(* app.yaml is read again: only where there was none is it what was asked  *)
(* for.                                                                    *)
(***************************************************************************)
InitMeansAsked ==
    Ended("init", "ok") =>
        /\ cache = cmd.version
        /\ cmd.platform = "gcp" \/ was = None => app = Template(cmd)

(***************************************************************************)
(* A command that nothing interrupted fails for one of few reasons.  After *)
(* an init of gcp that returned nil generate has none left: its stages     *)
(* never get in each other's way, and what killed commands left matters    *)
(* only if ksonnet cannot load it, if there is no app.yaml, or if it is of *)
(* another version than the cache.  On minikube parameters of a component  *)
(* that the template does not have are a reason too.                       *)
(***************************************************************************)
StrayParams == app # None /\ ~ DOMAIN app.params \subseteq app.comps

FailsWithReason ==
    /\ Ended("init", "failed") => Unloadable
    /\ Ended("generate", "failed") =>
          Unloadable \/ app = None \/ cache # app.version
          \/ (app.platform = "minikube" /\ StrayParams)
    /\ Ended("show", "failed") =>
          Unloadable \/ ks = None \/ yamls # None \/ (app # None /\ app.platform # "none")

(***************************************************************************)
(* Only init changes what is deployed: midway and after a kill too, an     *)
(* app.yaml that generate or show wrote has the platform and the version   *)
(* of before, its components (but for katib on minikube), and the host     *)
(* name once it has one, unless another is asked for.                      *)
(***************************************************************************)
GenerateKeeps ==
    cmd # None /\ cmd.kind # "init" /\ was # None /\ app # None =>
        /\ app.platform = was.platform /\ app.version = was.version
        /\ app.comps \in {was.comps} \union
              (IF app.platform = "minikube" THEN {was.comps \ {"katib"}} ELSE {})
        /\ app.host # was.host => was.host = None \/ (cmd.flags /\ cmd.resources # "k8s")

\* What every configuration has, whichever init it is from and whatever was
\* written over it since.
Proper(d) ==
    /\ "ambassador" \in d.comps
    /\ d.platform = "gcp" => "ingress" \in d.comps
    /\ d.comps \intersect InitRequired \subseteq DOMAIN d.params
    /\ d.platform # "minikube" => DOMAIN d.params \subseteq d.comps

\* A command runs the stages of the platform that it began with.
Begun == IF cmd.kind = "init" THEN cmd.platform
         ELSE IF was = None THEN "none" ELSE was.platform
Plan == Stages(cmd, Begun)

Orderly ==
    /\ cmd = None => todo = <<>> /\ result = None
    /\ cmd # None => \E i \in 0 .. Len(Plan) : todo = SubSeq(Plan, i + 1, Len(Plan))
    /\ todo = <<>> /\ cmd # None => result # None

Due(stage) == \E i \in 1 .. Len(todo) : todo[i] = stage
OnCourse(kind) == cmd # None /\ cmd.kind = kind /\ (todo # <<>> \/ result = "ok")

\* What the command holds, or has saved last.
Held == IF todo = <<>> THEN app ELSE def

Asked ==
    OnCourse("init") =>
        /\ Due("download") \/ cache = cmd.version
        /\ cmd.platform = "gcp" \/ was = None => Held = Template(cmd)
        /\ todo # <<>> =>
              /\ def \in KfDef /\ (Due("load") => def = Template(cmd))
              /\ IF cmd.platform # "gcp" THEN app = was
                 ELSE Head(todo) \in {"project", "load"} => app = def

Shown == cmd # None /\ cmd.kind = "show" => app = was

\* What a generate may hold; what was asked for is in it before app.yaml is read
\* over it, and after that only what the file did not have.
Kept(d) ==
    /\ d.platform = was.platform /\ d.version = was.version
    /\ d.comps \in {was.comps} \union
          (IF d.platform = "minikube" THEN {was.comps \ {"katib"}} ELSE {})
    /\ d.host # was.host =>
          was.host = None \/ (cmd.flags /\ (cmd.resources # "k8s" \/ Due("load")))

Generating ==
    cmd # None /\ cmd.kind = "generate" /\ todo # <<>> =>
        /\ was = None => app = None /\ def \in Bare /\ Due("registry")
        /\ was # None =>
              /\ app # None /\ app.version = was.version
              /\ def \in KfDef /\ Kept(def)
              /\ (cmd.resources = "k8s" \/ Begun = "none") /\ Due("load") =>
                    app = was /\ def = Loaded(was, cmd.flags)
              /\ cmd.resources = "all" /\ Head(todo) = "load" /\ Begun # "none" => app = def
              /\ cmd.resources # "platform" /\ ~ Due("load") =>
                    def.params = app.params /\ def.comps = app.comps

\* What the platform's part of a generate has brought.
PlatformWritten ==
    OnCourse("generate") /\ was # None /\ cmd.resources # "k8s" =>
        /\ was.platform = "gcp" =>
              /\ Held.ip = IF cmd.flags THEN "mine" ELSE "default"
              /\ Held.host = IF cmd.flags THEN "mine" ELSE Or(was.host, "default")
              /\ Due("params") \/ Held.params["ingress"] = <<Held.ip, Held.host>>
              /\ \/ Due("copies")
                 \/ /\ config.copies.head = was.version
                    /\ config.copies.tail # None =>
                          Length[config.copies.tail] > Length[was.version]
              /\ Due("iam") \/ config.iam = was.version
              /\ Due("cluster") \/ config.cluster = [version |-> was.version, ip |-> Held.ip]
              /\ Due("storage") \/ config.storage = was.version
        /\ was.platform = "minikube" =>
              Due("params") \/ ("katib" \notin Held.comps
                                /\ Held.params["ambassador"] = <<"generated">>)

\* And what the package manager's has.
ResourcesMade ==
    OnCourse("generate") /\ cmd.resources # "platform" =>
        /\ todo = <<>> => was # None /\ app # None
        /\ Due("initKs") \/ (ks # None /\ ks.loads /\ DOMAIN ks.params \subseteq Held.comps)
        /\ Due("registry") \/ (ks.registry = Held.version /\ cache = Held.version)
        /\ Due("packages") \/ ks.packages = Held.version
        /\ Due("components") \/ DOMAIN ks.params = Held.comps
        /\ Due("paramSet") \/ \A c \in DOMAIN Held.params :
                                 c \in DOMAIN ks.params /\ ks.params[c] = Held.params[c]

\* The invariant behind the properties above.
IndInv ==
    /\ TypeOK /\ Orderly
    /\ app # None => Proper(app)
    /\ todo # <<>> /\ cmd.kind # "show" /\ def \in KfDef => Proper(def)
    /\ FailsWithReason /\ GenerateKeeps
    /\ Asked /\ Shown /\ Generating /\ PlatformWritten /\ ResourcesMade
=============================================================================
