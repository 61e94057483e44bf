----------------------------- MODULE KfctlProofs -----------------------------
(***************************************************************************)
(* Theorems about Kfctl, for any applications, shells, commands and        *)
(* components, with and without the optional parts of a deployment.        *)
(***************************************************************************)
EXTENDS Kfctl, SequenceTheorems, TLAPS

USE KfctlAssumption

-----------------------------------------------------------------------------
(* The stages of a command *)

LEMMA AllType ==
    ASSUME NEW S, NEW objects \in Seq(S), NEW verb
    PROVE  /\ All(verb, objects) \in Seq({verb} \X S)
           /\ Len(All(verb, objects)) = Len(objects)
           /\ \A i \in 1 .. Len(objects) : All(verb, objects)[i] = <<verb, objects[i]>>
  <1> DEFINE s == All(verb, objects)
  <1>1. DOMAIN objects = 1 .. Len(objects) /\ Len(objects) \in Nat
    BY LenProperties
  <1>2. s = [i \in 1 .. Len(objects) |-> <<verb, objects[i]>>]
    BY <1>1 DEF All
  <1>3. \A i \in 1 .. Len(objects) : objects[i] \in S
    BY ElementOfSeq
  <1> HIDE DEF s
  <1>4. s \in [1 .. Len(objects) -> {verb} \X S]
    BY <1>2, <1>3
  <1>5. s \in Seq({verb} \X S)
    BY <1>1, <1>4, SeqDef
  <1>6. DOMAIN s = 1 .. Len(objects) /\ DOMAIN s = 1 .. Len(s) /\ Len(s) \in Nat
    BY <1>4, <1>5, LenProperties
  <1>7. Len(s) = Len(objects)
    BY <1>1, <1>6
  <1>8. QED
    BY <1>2, <1>5, <1>7 DEF s

\* The stages that are not k8s.
Cloud == {s \in Stage : s[1] # "k8s"}

LEMMA OptionalType ==
    ASSUME NEW S, NEW s \in Seq(S), NEW asked
    PROVE  Optional(s, asked) \in Seq(S)
  BY EmptySeq DEF Optional

LEMMA ExtrasType == Extras \in Seq(Deployment)
  <1>1. CASE "network" \in Extra /\ "gcfs" \in Extra
    <2>1. Extras = <<"network">> \o <<"gcfs">>
      BY <1>1 DEF Extras, Optional
    <2>2. <<"network">> \in Seq(Deployment) /\ <<"gcfs">> \in Seq(Deployment)
      BY <1>1 DEF Deployment
    <2>3. QED
      BY <2>1, <2>2, ConcatProperties
  <1>2. CASE "network" \in Extra /\ "gcfs" \notin Extra
    <2>1. Extras = <<"network">> \o << >>
      BY <1>2 DEF Extras, Optional
    <2>2. <<"network">> \in Seq(Deployment) /\ << >> \in Seq(Deployment)
      BY <1>2 DEF Deployment
    <2>3. QED
      BY <2>1, <2>2, ConcatProperties
  <1>3. CASE "network" \notin Extra /\ "gcfs" \in Extra
    <2>1. Extras = << >> \o <<"gcfs">>
      BY <1>3 DEF Extras, Optional
    <2>2. << >> \in Seq(Deployment) /\ <<"gcfs">> \in Seq(Deployment)
      BY <1>3 DEF Deployment
    <2>3. QED
      BY <2>1, <2>2, ConcatProperties
  <1>4. CASE "network" \notin Extra /\ "gcfs" \notin Extra
    <2>1. Extras = << >> \o << >>
      BY <1>4 DEF Extras, Optional
    <2>2. << >> \in Seq(Deployment)
      BY EmptySeq
    <2>3. QED
      BY <2>1, <2>2, ConcatProperties
  <1>5. QED
    BY <1>1, <1>2, <1>3, <1>4

LEMMA MakesType ==
    /\ Makes \in Seq({"make"} \X (Object \union {"namespace"}))
    /\ Len(Makes) > 0
  <1> DEFINE o1 == <<"namespace", "admin">>
             o2 == Optional(<<"istio">>, UseIstio)
             o3 == <<"adminSecret", "userSecret">>
             o4 == Optional(<<"istioAdminSecret", "istioUserSecret">>, UseIstio)
             o5 == <<"loginSecret">>
             s == o1 \o o2 \o o3 \o o4 \o o5
             N == {"namespace", "admin", "istio", "adminSecret", "userSecret",
                   "istioAdminSecret", "istioUserSecret", "loginSecret"}
  <1>1. o1 \in Seq(N) /\ o2 \in Seq(N) /\ o3 \in Seq(N) /\ o4 \in Seq(N) /\ o5 \in Seq(N)
    <2>1. /\ o1 \in Seq(N) /\ o3 \in Seq(N) /\ o5 \in Seq(N)
          /\ <<"istio">> \in Seq(N) /\ <<"istioAdminSecret", "istioUserSecret">> \in Seq(N)
      OBVIOUS
    <2>2. QED
      BY <2>1, OptionalType
  <1>2. Len(o5) = 1
    OBVIOUS
  <1>3. Makes = All("make", s)
    BY DEF Makes
  <1> HIDE DEF o1, o2, o3, o4, o5
  <1>4. s \in Seq(N) /\ Len(s) > 0
    <2>1. o1 \o o2 \in Seq(N)
      BY <1>1, ConcatProperties
    <2>2. (o1 \o o2) \o o3 \in Seq(N)
      BY <1>1, <2>1, ConcatProperties
    <2>3. ((o1 \o o2) \o o3) \o o4 \in Seq(N)
      BY <1>1, <2>2, ConcatProperties
    <2> DEFINE t == ((o1 \o o2) \o o3) \o o4
    <2>4. t \in Seq(N)
      BY <2>3
    <2> HIDE DEF t
    <2>5. t \o o5 \in Seq(N) /\ Len(t \o o5) = Len(t) + Len(o5)
      BY <1>1, <2>4, ConcatProperties
    <2>6. Len(t) \in Nat
      BY <2>4, LenProperties
    <2>7. QED
      BY <1>2, <2>5, <2>6 DEF t
  <1> HIDE DEF s, N
  <1>5. /\ Makes \in Seq({"make"} \X N) /\ Len(Makes) = Len(s)
        /\ \A i \in 1 .. Len(s) : Makes[i] = <<"make", s[i]>>
    BY <1>3, <1>4, AllType
  <1>6. DOMAIN Makes = 1 .. Len(Makes) /\ Len(Makes) \in Nat
    BY <1>5, LenProperties
  <1>7. \A i \in 1 .. Len(Makes) : Makes[i] \in {"make"} \X (Object \union {"namespace"})
    <2> SUFFICES ASSUME NEW i \in 1 .. Len(Makes)
                 PROVE  Makes[i] \in {"make"} \X (Object \union {"namespace"})
      OBVIOUS
    <2>1. Makes[i] = <<"make", s[i]>>
      BY <1>5
    <2>2. Makes[i][2] \in Object \union {"namespace"}
      BY <1>6 DEF Object
    <2>3. QED
      BY <2>1, <2>2
  <1>8. Makes \in [1 .. Len(Makes) -> {"make"} \X (Object \union {"namespace"})]
    <2>1. Makes \in [1 .. Len(Makes) -> {"make"} \X N]
      BY <1>5, LenProperties
    <2>2. QED
      BY <1>7, <2>1
  <1>9. QED
    BY <1>4, <1>5, <1>6, <1>8, SeqDef

LEMMA CloudType ==
    /\ {"update", "remove"} \X Deployment \subseteq Cloud
    /\ {"policy"} \X {"clear", "rewrite", "clean"} \subseteq Cloud
    /\ {"make"} \X (Object \union {"namespace"}) \subseteq Cloud
    /\ Credentials \in Cloud /\ <<"endpoint", "delete">> \in Cloud
    /\ Load \notin Cloud /\ Cloud \subseteq Stage
  BY DEF Cloud, Stage, Credentials, Load

LEMMA UpdatesType == Updates \in Seq(Cloud) /\ Len(Updates) > 0
  <1>1. <<"storage", "cluster">> \in Seq(Deployment) /\ Len(<<"storage", "cluster">>) = 2
    BY DEF Deployment
  <1> DEFINE s == <<"storage", "cluster">> \o Extras
  <1>2. s \in Seq(Deployment) /\ Len(s) = 2 + Len(Extras) /\ Len(Extras) \in Nat
    BY <1>1, ExtrasType, ConcatProperties, LenProperties
  <1>3. Updates = All("update", s)
    BY DEF Updates
  <1> HIDE DEF s
  <1>4. Updates \in Seq({"update"} \X Deployment) /\ Len(Updates) = Len(s)
    BY <1>2, <1>3, AllType
  <1>5. {"update"} \X Deployment \subseteq Cloud
    BY CloudType
  <1>6. QED
    BY <1>2, <1>4, <1>5, SeqMonotonic

LEMMA RemovalsType ==
    ASSUME NEW storage \in BOOLEAN
    PROVE  Removals(storage) \in Seq(Cloud) /\ Len(Removals(storage)) > 0
  <1> DEFINE o == Optional(<<"storage">>, storage)
  <1>1. /\ <<"cluster">> \in Seq(Deployment) /\ Len(<<"cluster">>) = 1
        /\ <<"storage">> \in Seq(Deployment)
    BY DEF Deployment
  <1>2. o \in Seq(Deployment)
    BY <1>1, OptionalType
  <1> DEFINE s == (<<"cluster">> \o o) \o Extras
  <1>3. Removals(storage) = All("remove", s)
    BY DEF Removals
  <1> HIDE DEF o
  <1>4. /\ <<"cluster">> \o o \in Seq(Deployment)
        /\ Len(<<"cluster">> \o o) = 1 + Len(o) /\ Len(o) \in Nat
    BY <1>1, <1>2, ConcatProperties, LenProperties
  <1> DEFINE t == <<"cluster">> \o o
  <1> HIDE DEF t
  <1>5. t \o Extras \in Seq(Deployment) /\ Len(t \o Extras) = Len(t) + Len(Extras)
        /\ Len(Extras) \in Nat /\ Len(t) > 0 /\ Len(t) \in Nat
    BY <1>4, ExtrasType, ConcatProperties, LenProperties DEF t
  <1>6. s \in Seq(Deployment) /\ Len(s) > 0
    BY <1>5 DEF t
  <1> HIDE DEF s
  <1>7. /\ Removals(storage) \in Seq({"remove"} \X Deployment)
        /\ Len(Removals(storage)) = Len(s)
    BY <1>3, <1>6, AllType
  <1>8. {"remove"} \X Deployment \subseteq Cloud
    BY CloudType
  <1>9. QED
    BY <1>6, <1>7, <1>8, SeqMonotonic

\* Deleting the platform does nothing to Kubernetes.
LEMMA DeletePlatformType ==
    ASSUME NEW storage \in BOOLEAN
    PROVE  DeletePlatform(storage) \in Seq(Cloud) /\ Len(DeletePlatform(storage)) > 0
  <1> DEFINE s == Removals(storage)
             t == <<<<"policy", "clean">>, <<"endpoint", "delete">>>>
  <1>1. s \in Seq(Cloud) /\ Len(s) > 0
    BY RemovalsType
  <1>2. t \in Seq(Cloud)
    BY CloudType
  <1>3. DeletePlatform(storage) = s \o t
    BY DEF DeletePlatform
  <1> HIDE DEF s, t
  <1>4. s \o t \in Seq(Cloud) /\ Len(s \o t) = Len(s) + Len(t)
        /\ Len(s) \in Nat /\ Len(t) \in Nat
    BY <1>1, <1>2, ConcatProperties, LenProperties
  <1>5. QED
    BY <1>1, <1>3, <1>4

\* Applying the platform ends with the cluster as the current context.
LEMMA ApplyPlatformType ==
    /\ ApplyPlatform \in Seq(Cloud) /\ Len(ApplyPlatform) > 1
    /\ ApplyPlatform[Len(ApplyPlatform)] = Credentials
  <1> DEFINE u == All("policy", <<"clear", "rewrite">>)
             v == <<<<"credentials", "get">>>>
  <1>1. u \in Seq(Cloud)
    <2>1. <<"clear", "rewrite">> \in Seq({"clear", "rewrite", "clean"})
      OBVIOUS
    <2>2. u \in Seq({"policy"} \X {"clear", "rewrite", "clean"})
      BY <2>1, AllType
    <2>3. QED
      BY <2>2, CloudType, SeqMonotonic
  <1>2. v \in Seq(Cloud) /\ Len(v) = 1 /\ v[1] = Credentials
    BY CloudType DEF Credentials
  <1>3. Makes \in Seq(Cloud)
    BY MakesType, CloudType, SeqMonotonic
  <1>4. ApplyPlatform = ((Updates \o u) \o Makes) \o v
    BY DEF ApplyPlatform
  <1> HIDE DEF u, v
  <1>5. /\ Updates \o u \in Seq(Cloud) /\ Len(Updates \o u) = Len(Updates) + Len(u)
        /\ Len(u) \in Nat /\ Len(Updates) \in Nat /\ Len(Updates) > 0
    BY <1>1, UpdatesType, ConcatProperties, LenProperties
  <1> DEFINE s == Updates \o u
  <1> HIDE DEF s
  <1>6. /\ s \o Makes \in Seq(Cloud) /\ Len(s \o Makes) = Len(s) + Len(Makes)
        /\ Len(Makes) \in Nat /\ Len(s) \in Nat /\ Len(s) > 0
    BY <1>3, <1>5, ConcatProperties, LenProperties DEF s
  <1> DEFINE t == s \o Makes
  <1> HIDE DEF t
  <1>7. t \in Seq(Cloud) /\ Len(t) \in Nat /\ Len(t) > 0
    BY <1>6 DEF t
  <1>8. /\ t \o v \in Seq(Cloud) /\ Len(t \o v) = Len(t) + 1
        /\ (t \o v)[Len(t) + 1] = v[1]
    BY <1>2, <1>7, ConcatProperties
  <1>9. ApplyPlatform = t \o v
    BY <1>4 DEF s, t
  <1>10. QED
    BY <1>2, <1>7, <1>8, <1>9

\* A command loads its package manager in the middle, if at all.
Planned(s) ==
    /\ s \in Seq(Stage)
    /\ \A i \in 1 .. Len(s) : s[i] = Load => i < Len(s)

LEMMA CloudPlanned == ASSUME NEW s \in Seq(Cloud) PROVE Planned(s)
  <1>1. \A i \in 1 .. Len(s) : s[i] # Load
    BY CloudType, ElementOfSeq
  <1>2. QED
    BY <1>1, CloudType, SeqMonotonic DEF Planned

LEMMA TailPlanned ==
    ASSUME NEW s, Planned(s), s # << >>
    PROVE  Planned(Tail(s)) /\ (Head(s) = Load => Tail(s) # << >>)
  <1>1. /\ s \in Seq(Stage) /\ Len(s) \in Nat /\ Len(s) > 0
        /\ Tail(s) \in Seq(Stage) /\ Len(Tail(s)) = Len(s) - 1
        /\ \A i \in 1 .. Len(Tail(s)) : Tail(s)[i] = s[i + 1]
        /\ Head(s) = s[1]
    BY HeadTailProperties, LenProperties, EmptySeq DEF Planned
  <1>2. \A i \in 1 .. Len(Tail(s)) : Tail(s)[i] = Load => i < Len(Tail(s))
    <2> SUFFICES ASSUME NEW i \in 1 .. Len(Tail(s)), Tail(s)[i] = Load
                 PROVE  i < Len(Tail(s))
      OBVIOUS
    <2>1. i + 1 \in 1 .. Len(s) /\ s[i + 1] = Load
      BY <1>1
    <2>2. QED
      BY <1>1, <2>1 DEF Planned
  <1>3. Head(s) = Load => Len(Tail(s)) > 0
    <2>1. 1 \in 1 .. Len(s)
      BY <1>1
    <2>2. QED
      BY <1>1, <2>1 DEF Planned
  <1>4. Len(<< >>) = 0
    BY EmptySeq
  <1>5. Head(s) = Load => Tail(s) # << >>
    BY <1>3, <1>4
  <1>6. QED
    BY <1>1, <1>2, <1>5 DEF Planned

\* Two of the three k8s stages follow the first, which loads.
LEMMA K8sType ==
    ASSUME NEW x \in {"namespace", "dropComponents"}, NEW y \in {"components", "dropNamespace"}
    PROVE  LET s == All("k8s", <<"load", x, y>>) IN
           /\ s \in Seq(Stage) /\ Len(s) = 3 /\ s[1] = Load
           /\ s[2] # Load /\ s[3] # Load
  <1> DEFINE o == <<"load", x, y>>
             s == All("k8s", o)
             S == {"load", "namespace", "components", "dropComponents", "dropNamespace"}
  <1>1. o \in Seq(S) /\ Len(o) = 3 /\ o[1] = "load" /\ o[2] = x /\ o[3] = y
    OBVIOUS
  <1>0. s = All("k8s", o)
    OBVIOUS
  <1> HIDE DEF o, s, S
  <1>2. /\ s \in Seq({"k8s"} \X S) /\ Len(s) = Len(o)
        /\ \A i \in 1 .. Len(o) : s[i] = <<"k8s", o[i]>>
    <2>1. o \in Seq(S)
      BY <1>1
    <2> HIDE <1>1
    <2>2. /\ All("k8s", o) \in Seq({"k8s"} \X S) /\ Len(All("k8s", o)) = Len(o)
          /\ \A i \in 1 .. Len(o) : All("k8s", o)[i] = <<"k8s", o[i]>>
      BY <2>1, AllType
    <2>3. QED
      BY <1>0, <2>2
  <1>3. Len(s) = 3 /\ s[1] = <<"k8s", "load">> /\ s[2] = <<"k8s", x>> /\ s[3] = <<"k8s", y>>
    BY <1>1, <1>2
  <1>4. {"k8s"} \X S \subseteq Stage
    BY DEF Stage, S
  <1>5. s \in Seq(Stage)
    BY <1>2, <1>4, SeqMonotonic
  <1>6. s[1] = Load /\ s[2] # Load /\ s[3] # Load
    BY <1>3 DEF Load
  <1>7. QED
    BY <1>3, <1>5, <1>6 DEF s, o

\* An apply of everything loads right after it got its credentials.
AfterCredentials(s) ==
    \A i \in 1 .. Len(s) : s[i] = Load => i > 1 /\ s[i - 1] = Credentials

LEMMA ApplyAllType ==
    LET s == ApplyPlatform \o ApplyK8s IN Planned(s) /\ s # << >> /\ AfterCredentials(s)
  <1> DEFINE p == ApplyPlatform
             k == ApplyK8s
  <1>1. /\ p \in Seq(Cloud) /\ p \in Seq(Stage) /\ Len(p) \in Nat /\ Len(p) > 1
        /\ p[Len(p)] = Credentials
    BY ApplyPlatformType, CloudType, SeqMonotonic, LenProperties
  <1>2. k \in Seq(Stage) /\ Len(k) = 3 /\ k[1] = Load /\ k[2] # Load /\ k[3] # Load
    <2>1. k = All("k8s", <<"load", "namespace", "components">>)
      BY DEF ApplyK8s
    <2> HIDE DEF k
    <2>2. "namespace" \in {"namespace", "dropComponents"}
          /\ "components" \in {"components", "dropNamespace"}
      OBVIOUS
    <2>3. QED
      BY <2>1, <2>2, K8sType
  <1>3. \A i \in 1 .. Len(p) : p[i] # Load
    BY <1>1, CloudType, ElementOfSeq
  <1> HIDE DEF p, k
  <1> DEFINE s == p \o k
  <1>4. /\ s \in Seq(Stage) /\ Len(s) = Len(p) + 3
        /\ \A i \in 1 .. Len(s) : s[i] = IF i <= Len(p) THEN p[i] ELSE k[i - Len(p)]
    <2>1. p \in Seq(Stage) /\ k \in Seq(Stage)
      BY <1>1, <1>2
    <2>2. /\ p \o k \in Seq(Stage) /\ Len(p \o k) = Len(p) + Len(k)
          /\ \A i \in 1 .. Len(p) + Len(k) :
                 (p \o k)[i] = IF i <= Len(p) THEN p[i] ELSE k[i - Len(p)]
      BY <2>1, ConcatProperties
    <2>3. QED
      BY <1>2, <2>2
  <1> HIDE DEF s
  <1>5. \A i \in 1 .. Len(s) : s[i] = Load => i = Len(p) + 1
    <2> SUFFICES ASSUME NEW i \in 1 .. Len(s), s[i] = Load, i # Len(p) + 1 PROVE FALSE
      OBVIOUS
    <2>1. CASE i <= Len(p)
      BY <1>1, <1>3, <1>4, <2>1
    <2>2. CASE i > Len(p)
      <3>1. s[i] = k[i - Len(p)] /\ (i - Len(p) = 2 \/ i - Len(p) = 3)
        BY <1>1, <1>4, <2>2
      <3>2. QED
        BY <1>2, <3>1
    <2>3. QED
      BY <1>1, <2>1, <2>2
  <1>6. Planned(s)
    BY <1>1, <1>4, <1>5 DEF Planned
  <1>7. s[Len(p)] = Credentials
    BY <1>1, <1>4
  <1>8. AfterCredentials(s)
    BY <1>1, <1>5, <1>7 DEF AfterCredentials
  <1>9. s # << >>
    BY <1>1, <1>4, EmptySeq
  <1>10. QED
    BY <1>6, <1>8, <1>9 DEF s, p, k

LEMMA K8sPlanned ==
    /\ Planned(ApplyK8s) /\ ApplyK8s # << >>
    /\ Planned(DeleteK8s) /\ DeleteK8s # << >>
  <1>1. ASSUME NEW s, s \in Seq(Stage), Len(s) = 3, s[2] # Load, s[3] # Load
        PROVE  Planned(s) /\ s # << >>
    BY <1>1, EmptySeq DEF Planned
  <1>2. QED
    BY <1>1, K8sType DEF ApplyK8s, DeleteK8s

LEMMA DeleteAllType ==
    ASSUME NEW storage \in BOOLEAN
    PROVE  LET s == DeleteK8s \o DeletePlatform(storage) IN Planned(s) /\ s # << >>
  <1> DEFINE k == DeleteK8s
             p == DeletePlatform(storage)
  <1>1. k \in Seq(Stage) /\ Len(k) = 3 /\ k[1] = Load /\ k[2] # Load /\ k[3] # Load
    <2>1. k = All("k8s", <<"load", "dropComponents", "dropNamespace">>)
      BY DEF DeleteK8s
    <2> HIDE DEF k
    <2>2. "dropComponents" \in {"namespace", "dropComponents"}
          /\ "dropNamespace" \in {"components", "dropNamespace"}
      OBVIOUS
    <2>3. QED
      BY <2>1, <2>2, K8sType
  <1>2. p \in Seq(Cloud) /\ p \in Seq(Stage) /\ Len(p) \in Nat /\ Len(p) > 0
    BY DeletePlatformType, CloudType, SeqMonotonic, LenProperties
  <1>3. \A i \in 1 .. Len(p) : p[i] # Load
    BY <1>2, CloudType, ElementOfSeq
  <1> HIDE DEF p, k
  <1> DEFINE s == k \o p
  <1>4. /\ s \in Seq(Stage) /\ Len(s) = 3 + Len(p)
        /\ \A i \in 1 .. Len(s) : s[i] = IF i <= 3 THEN k[i] ELSE p[i - 3]
    <2>1. p \in Seq(Stage) /\ k \in Seq(Stage)
      BY <1>1, <1>2
    <2>2. /\ k \o p \in Seq(Stage) /\ Len(k \o p) = Len(k) + Len(p)
          /\ \A i \in 1 .. Len(k) + Len(p) :
                 (k \o p)[i] = IF i <= Len(k) THEN k[i] ELSE p[i - Len(k)]
      BY <2>1, ConcatProperties
    <2>3. QED
      BY <1>1, <2>2
  <1> HIDE DEF s
  <1>5. \A i \in 1 .. Len(s) : s[i] = Load => i = 1
    <2> SUFFICES ASSUME NEW i \in 1 .. Len(s), s[i] = Load, i # 1 PROVE FALSE
      OBVIOUS
    <2>1. CASE i <= 3
      <3>1. i = 2 \/ i = 3
        BY <1>2, <1>4, <2>1
      <3>2. QED
        BY <1>1, <1>4, <2>1, <3>1
    <2>2. CASE i > 3
      BY <1>2, <1>3, <1>4, <2>2
    <2>3. QED
      BY <1>2, <1>4, <2>1, <2>2
  <1>6. QED
    BY <1>2, <1>4, <1>5, EmptySeq DEF Planned, s, p, k

LEMMA StagesType ==
    ASSUME NEW c \in AnyCommand
    PROVE  /\ Planned(Stages(c)) /\ Stages(c) # << >>
           /\ (c.verb = "apply" /\ c.what = "all") => AfterCredentials(Stages(c))
  <1>1. /\ ApplyPlatform \in Seq(Cloud) /\ ApplyPlatform \in Seq(Stage)
        /\ Len(ApplyPlatform) > 1 /\ ApplyK8s \in Seq(Stage) /\ DeleteK8s \in Seq(Stage)
    BY ApplyPlatformType, CloudType, SeqMonotonic, K8sPlanned DEF Planned
  <1>2. c.verb \in {"apply", "delete"} /\ c.what \in {"all", "platform", "k8s"}
        /\ c.storage \in BOOLEAN
    BY DEF AnyCommand
  <1>3. CASE c.verb = "apply" /\ c.what = "all"
    <2>1. Stages(c) = ApplyPlatform \o ApplyK8s
      BY <1>3 DEF Stages, Optional
    <2>2. QED
      BY <2>1, ApplyAllType
  <1>4. CASE c.verb = "apply" /\ c.what = "platform"
    <2>1. Stages(c) = ApplyPlatform \o << >>
      BY <1>4 DEF Stages, Optional
    <2>2. Stages(c) = ApplyPlatform
      BY <1>1, <2>1, ConcatEmptySeq
    <2>3. QED
      BY <1>1, <1>4, <2>2, CloudPlanned, EmptySeq
  <1>5. CASE c.verb = "apply" /\ c.what = "k8s"
    <2>1. Stages(c) = << >> \o ApplyK8s
      BY <1>5 DEF Stages, Optional
    <2>2. Stages(c) = ApplyK8s
      BY <1>1, <2>1, ConcatEmptySeq
    <2>3. QED
      BY <1>5, <2>2, K8sPlanned
  <1>6. CASE c.verb = "delete" /\ c.what = "k8s"
    <2>1. Stages(c) = DeleteK8s \o << >>
      BY <1>6 DEF Stages, Optional
    <2>2. Stages(c) = DeleteK8s
      BY <1>1, <2>1, ConcatEmptySeq
    <2>3. QED
      BY <1>6, <2>2, K8sPlanned
  <1>7. CASE c.verb = "delete" /\ c.what # "k8s"
    <2>1. Stages(c) = DeleteK8s \o DeletePlatform(c.storage)
      BY <1>7 DEF Stages, Optional
    <2>2. QED
      BY <1>2, <1>7, <2>1, DeleteAllType
  <1>8. QED
    BY <1>2, <1>3, <1>4, <1>5, <1>6, <1>7

-----------------------------------------------------------------------------
(* Types: what the commands are at, and what they work on. *)

AtType ==
    /\ cmd \in [Run -> AnyCommand]
    /\ app \in [Run -> App]
    /\ status \in [Run -> {"idle", "running", "ok", "failed"}]
    /\ todo \in [Run -> Seq(Stage)]
    /\ \A r \in Run : Planned(todo[r]) /\ (status[r] = "running" <=> todo[r] # << >>)
    /\ mid \subseteq {r \in Run : status[r] = "running"}
    /\ waits \in [Run -> {"running", "ok", "error"}]
    /\ copy \in [Run -> SUBSET Member]
    /\ target \in [Run -> App \union {NoApp, GoneApp}]
    /\ alone \subseteq Run
    /\ moves \in 0 .. MaxMoves

DmType == dm \in [App -> [Deployment ->
              [op: {"none", "applying", "deleting", "done"},
               sent: 0 .. (MaxMoves + 1), live: 0 .. (MaxMoves + 1)]]]
KubeType == kube \in [App -> [ns: {"none", "active", "terminating"},
                              made: SUBSET Object, comps: SUBSET Component]]

WorkType ==
    /\ gen \in [App -> 1 .. (moves + 1)]
    /\ DmType
    /\ KubeType
    /\ endpoint \subseteq App
    /\ policy \subseteq Member
    /\ context \in App \union {NoApp, GoneApp}
    /\ fresh \subseteq Run
    /\ left \in [Run -> SUBSET Component]
    /\ sound \subseteq App /\ trouble \subseteq Run

LEMMA MembersApart ==
    /\ \A a \in App : MembersOf(a) \subseteq Member /\ Other \notin MembersOf(a)
    /\ \A a, b \in App : a \in MembersOf(b) => a = b
  BY KfctlAssumption DEF MembersOf, Member

LEMMA TypeParts == TypeOK <=> AtType /\ WorkType
  <1>1. ASSUME todo \in [Run -> Seq(Stage)]
        PROVE  (\A r \in Run : /\ status[r] = "running" <=> todo[r] # << >>
                               /\ \A i \in 1 .. Len(todo[r]) : todo[r][i] = Load
                                                               => i < Len(todo[r]))
               <=> (\A r \in Run : Planned(todo[r])
                                   /\ (status[r] = "running" <=> todo[r] # << >>))
    BY <1>1 DEF Planned
  <1>2. QED
    BY <1>1 DEF TypeOK, AtType, WorkType, DmType, KubeType

LEMMA TypePartsNext == TypeOK' <=> AtType' /\ WorkType'
  <1>1. ASSUME todo' \in [Run -> Seq(Stage)]
        PROVE  (\A r \in Run : /\ status'[r] = "running" <=> todo'[r] # << >>
                               /\ \A i \in 1 .. Len(todo'[r]) : todo'[r][i] = Load
                                                               => i < Len(todo'[r]))
               <=> (\A r \in Run : Planned(todo'[r])
                                   /\ (status'[r] = "running" <=> todo'[r] # << >>))
    BY <1>1 DEF Planned
  <1>2. QED
    BY <1>1 DEF TypeOK, AtType, WorkType, DmType, KubeType

LEMMA HeadType ==
    ASSUME AtType, NEW r \in Run, status[r] = "running"
    PROVE  /\ Head(todo[r]) \in Stage /\ todo[r] # << >>
           /\ Planned(Tail(todo[r]))
           /\ Head(todo[r]) = Load => Tail(todo[r]) # << >>
           /\ Head(todo[r]) = todo[r][1]
  <1>1. todo[r] \in Seq(Stage) /\ todo[r] # << >> /\ Planned(todo[r])
    BY DEF AtType
  <1>2. Head(todo[r]) \in Stage /\ Head(todo[r]) = todo[r][1]
    BY <1>1, HeadTailProperties
  <1>3. QED
    BY <1>1, <1>2, TailPlanned

\* What a stage is for is of the kind its verb takes.
LEMMA ObjectType ==
    ASSUME AtType, NEW r \in Run
    PROVE  /\ (At(r, "update") \/ At(r, "remove")) => Head(todo[r])[2] \in Deployment
           /\ At(r, "make") => Head(todo[r])[2] \in Object \union {"namespace"}
           /\ At(r, "policy") => Head(todo[r]) # Load /\ Head(todo[r]) # Credentials
  <1>1. status[r] = "running" => Head(todo[r]) \in Stage
    BY HeadType
  <1>2. QED
    BY <1>1 DEF At, Stage, Credentials, Load

LEMMA ProceedType ==
    ASSUME AtType, NEW r \in Run, status[r] = "running",
           NEW stages, Planned(stages), NEW end \in {"ok", "failed"},
           Proceed(r, stages, end)
    PROVE  AtType'
  <1>1. stages \in Seq(Stage)
    BY DEF Planned
  <1>2. todo' \in [Run -> Seq(Stage)]
    BY <1>1 DEF AtType, Proceed
  <1>3. status' \in [Run -> {"idle", "running", "ok", "failed"}]
    BY DEF AtType, Proceed
  <1>4. \A s \in Run : /\ Planned(todo'[s])
                       /\ status'[s] = "running" <=> todo'[s] # << >>
    <2> SUFFICES ASSUME NEW s \in Run
                 PROVE  Planned(todo'[s]) /\ (status'[s] = "running" <=> todo'[s] # << >>)
      OBVIOUS
    <2>1. CASE s = r
      BY <2>1 DEF AtType, Proceed
    <2>2. CASE s # r
      BY <2>2 DEF AtType, Proceed
    <2>3. QED
      BY <2>1, <2>2
  <1>5. mid' \subseteq {s \in Run : status'[s] = "running"}
    BY DEF AtType, Proceed
  <1>6. /\ waits' \in [Run -> {"running", "ok", "error"}]
        /\ copy' \in [Run -> SUBSET Member]
        /\ target' \in [Run -> App \union {NoApp, GoneApp}]
    BY DEF AtType, Proceed, Forget
  <1>7. /\ cmd' \in [Run -> AnyCommand] /\ app' \in [Run -> App]
        /\ alone' \subseteq Run /\ moves' \in 0 .. MaxMoves
    BY DEF AtType, Proceed
  <1>8. QED
    BY <1>2, <1>3, <1>4, <1>5, <1>6, <1>7 DEF AtType

LEMMA DoneType ==
    ASSUME AtType, NEW r \in Run, status[r] = "running", Done(r)
    PROVE  AtType' /\ sound' = sound /\ moves' = moves
  BY HeadType, ProceedType DEF Done, Proceed

LEMMA FailType ==
    ASSUME AtType, NEW r \in Run, status[r] = "running", Fail(r)
    PROVE  AtType' /\ sound' \subseteq sound /\ moves' = moves
  <1> DEFINE stages == IF Ignored(r) THEN DeletePlatform(cmd[r].storage) ELSE << >>
  <1>1. cmd[r].storage \in BOOLEAN
    BY DEF AtType, AnyCommand
  <1>2. Planned(<< >>)
    BY EmptySeq DEF Planned
  <1>3. Planned(stages)
    BY <1>1, <1>2, DeletePlatformType, CloudPlanned
  <1>4. Proceed(r, stages, "failed")
    BY DEF Fail
  <1> HIDE DEF stages
  <1>5. AtType'
    BY <1>3, <1>4, ProceedType
  <1>6. QED
    BY <1>4, <1>5 DEF Fail, Proceed

LEMMA AnswerType ==
    ASSUME AtType, NEW r \in Run, status[r] = "running", Answer(r)
    PROVE  AtType' /\ sound' \subseteq sound /\ moves' = moves
  BY DoneType, FailType DEF Answer

\* Steps after which everybody is at the same stage as before.
LEMMA SameStages ==
    ASSUME AtType, UNCHANGED <<cmd, app, status, todo, alone>>,
           mid' \subseteq {r \in Run : status[r] = "running"},
           waits' \in [Run -> {"running", "ok", "error"}],
           copy' \in [Run -> SUBSET Member],
           target' \in [Run -> App \union {NoApp, GoneApp}],
           moves' \in 0 .. MaxMoves
    PROVE  AtType'
  BY DEF AtType

LEMMA WaitType ==
    ASSUME AtType, NEW r \in Run, status[r] = "running", Wait(r)
    PROVE  AtType' /\ sound' = sound /\ moves' = moves
  <1>1. UNCHANGED <<cmd, app, status, todo, waits, copy, target, alone, sound, moves>>
        /\ mid' = mid \union {r}
    BY DEF Wait
  <1>2. AtType'
    BY <1>1, SameStages DEF AtType
  <1>3. QED
    BY <1>1, <1>2

LEMMA TryAgainType ==
    ASSUME AtType, NEW r \in Run, status[r] = "running", TryAgain(r)
    PROVE  AtType' /\ sound' = sound /\ moves' = moves
  <1>1. /\ UNCHANGED <<cmd, app, status, todo, target, alone, sound, moves>>
        /\ mid' = mid \ {r}
        /\ waits' \in [Run -> {"running", "ok", "error"}]
        /\ copy' \in [Run -> SUBSET Member]
    BY DEF TryAgain, Forget, AtType
  <1>2. AtType'
    BY <1>1, SameStages DEF AtType
  <1>3. QED
    BY <1>1, <1>2

-----------------------------------------------------------------------------
(* Types: one lemma per group of actions. *)

LEMMA SubmitType ==
    ASSUME AtType, WorkType, NEW r \in Run, NEW d \in Deployment,
           NEW op \in {"applying", "deleting"}, NEW sent \in 0 .. (MaxMoves + 1),
           Submit(r, d, op, sent), moves' = moves, sound' \subseteq sound
    PROVE  WorkType'
  <1>1. app[r] \in App
    BY DEF AtType
  <1>2. DmType'
    <2> DEFINE one == [dm[app[r]][d] EXCEPT !.op = op, !.sent = sent]
               D == [op: {"none", "applying", "deleting", "done"},
                     sent: 0 .. (MaxMoves + 1), live: 0 .. (MaxMoves + 1)]
    <2>1. dm \in [App -> [Deployment -> D]] /\ dm[app[r]][d] \in D
      BY <1>1 DEF WorkType, DmType
    <2>2. dm' = [dm EXCEPT ![app[r]] = [dm[app[r]] EXCEPT ![d] = one]]
      BY <1>1, <2>1 DEF Submit
    <2>3. one \in D
      BY <2>1
    <2> HIDE DEF D, one
    <2>4. [dm[app[r]] EXCEPT ![d] = one] \in [Deployment -> D]
      BY <1>1, <2>1, <2>3
    <2>5. dm' \in [App -> [Deployment -> D]]
      BY <1>1, <2>1, <2>2, <2>4
    <2>6. QED
      BY <2>5 DEF DmType, D
  <1>3. QED
    BY <1>2 DEF WorkType, KubeType, Submit

LEMMA DeploymentStepType ==
    ASSUME AtType, WorkType, NEW r \in Run,
           UpdateDeployment(r) \/ DeleteDeployment(r) \/ BlockingWait(r)
    PROVE  AtType' /\ WorkType'
  <1> DEFINE d == Head(todo[r])[2]
  <1>1. status[r] = "running" /\ d \in Deployment
    <2>1. At(r, "update") \/ At(r, "remove")
      BY DEF UpdateDeployment, DeleteDeployment, BlockingWait
    <2>2. QED
      BY <2>1, ObjectType DEF At
  <1>2. app[r] \in App /\ gen[app[r]] \in 0 .. (MaxMoves + 1)
    BY DEF AtType, WorkType
  <1> HIDE DEF d
  <1>3. CASE Send(r, d)
    <2>1. AtType' /\ sound' \subseteq sound /\ moves' = moves
      BY <1>1, <1>3, WaitType, FailType DEF Send
    <2>2. QED
      BY <1>1, <1>2, <1>3, <2>1, SubmitType DEF Send
  <1>4. CASE Join(r, d)
    <2>1. AtType' /\ sound' \subseteq sound /\ moves' = moves
      BY <1>1, <1>4, WaitType DEF Join
    <2>2. QED
      BY <1>4, <2>1 DEF Join, WorkType, DmType, KubeType, world
  <1>5. CASE Done(r) /\ UNCHANGED <<world, fresh, left, trouble>>
    <2>1. AtType' /\ sound' \subseteq sound /\ moves' = moves
      BY <1>1, <1>5, DoneType
    <2>2. QED
      BY <1>5, <2>1 DEF WorkType, DmType, KubeType, world
  <1>6. CASE Submit(r, d, "deleting", 0) /\ (Wait(r) \/ Fail(r))
    <2>1. AtType' /\ sound' \subseteq sound /\ moves' = moves
      BY <1>1, <1>6, WaitType, FailType
    <2>2. 0 \in 0 .. (MaxMoves + 1)
      OBVIOUS
    <2>3. QED
      BY <1>1, <1>6, <2>1, <2>2, SubmitType
  <1>7. CASE Fail(r) /\ UNCHANGED <<world, fresh, left, trouble>>
    <2>1. AtType' /\ sound' \subseteq sound /\ moves' = moves
      BY <1>1, <1>7, FailType
    <2>2. QED
      BY <1>7, <2>1 DEF WorkType, DmType, KubeType, world
  <1>8. QED
    BY <1>3, <1>4, <1>5, <1>6, <1>7
       DEF UpdateDeployment, DeleteDeployment, BlockingWait, d

LEMMA PolicyStepType ==
    ASSUME AtType, WorkType, NEW r \in Run,
           ReadPolicy(r) \/ SetIamPolicy(r) \/ PolicyFails(r)
    PROVE  AtType' /\ WorkType'
  <1>1. status[r] = "running" /\ app[r] \in App
    BY DEF ReadPolicy, SetIamPolicy, PolicyFails, At, AtType
  <1>2. CASE ReadPolicy(r)
    <2>1. AtType'
      BY <1>1, <1>2, SameStages DEF ReadPolicy, AtType, WorkType, history
    <2>2. QED
      BY <1>2, <2>1 DEF ReadPolicy, WorkType, DmType, KubeType, world, history
  <1>3. CASE SetIamPolicy(r)
    <2>1. AtType' /\ sound' \subseteq sound /\ moves' = moves
      BY <1>1, <1>3, AnswerType, TryAgainType DEF SetIamPolicy
    <2>2. MembersOf(app[r]) \subseteq Member /\ copy[r] \subseteq Member
      BY <1>1, MembersApart DEF AtType
    <2>3. policy' \subseteq Member
      BY <1>3, <2>2 DEF SetIamPolicy, Edit
    <2>4. QED
      BY <1>3, <2>1, <2>3 DEF SetIamPolicy, WorkType, DmType, KubeType
  <1>4. CASE PolicyFails(r)
    <2>1. AtType' /\ sound' \subseteq sound /\ moves' = moves
      BY <1>1, <1>4, TryAgainType DEF PolicyFails
    <2>2. QED
      BY <1>4, <2>1 DEF PolicyFails, WorkType, DmType, KubeType, world
  <1>5. QED
    BY <1>2, <1>3, <1>4

LEMMA PlatformStepType ==
    ASSUME AtType, WorkType, NEW r \in Run,
           MakeObject(r) \/ GetCredentials(r) \/ DeleteEndpoints(r)
    PROVE  AtType' /\ WorkType'
  <1>1. status[r] = "running" /\ app[r] \in App /\ Answer(r)
    BY DEF MakeObject, GetCredentials, DeleteEndpoints, At, AtStage, AtType
  <1>2. AtType' /\ sound' \subseteq sound /\ moves' = moves
    BY <1>1, AnswerType
  <1>3. CASE MakeObject(r)
    <2>1. At(r, "make") /\ Head(todo[r])[2] \in Object \union {"namespace"}
      BY <1>3, ObjectType DEF MakeObject
    <2>2. KubeType'
      <3>1. CASE kube' = [kube EXCEPT ![app[r]].ns = IF @ = "none" THEN "active" ELSE @]
        BY <1>1, <3>1 DEF WorkType, KubeType
      <3>2. CASE /\ Head(todo[r])[2] # "namespace"
                 /\ kube' = [kube EXCEPT ![app[r]].made = @ \union {Head(todo[r])[2]}]
        BY <1>1, <2>1, <3>2 DEF WorkType, KubeType
      <3>3. QED
        BY <1>3, <3>1, <3>2 DEF MakeObject
    <2>3. QED
      BY <1>2, <1>3, <2>2 DEF MakeObject, WorkType, DmType
  <1>4. CASE GetCredentials(r)
    BY <1>1, <1>2, <1>4 DEF GetCredentials, WorkType, DmType, KubeType
  <1>5. CASE DeleteEndpoints(r)
    BY <1>1, <1>2, <1>5 DEF DeleteEndpoints, WorkType, DmType, KubeType
  <1>6. QED
    BY <1>3, <1>4, <1>5

LEMMA LoadType ==
    ASSUME AtType, WorkType, NEW r \in Run, GetPackageManagers(r)
    PROVE  AtType' /\ WorkType'
  <1>1. status[r] = "running" /\ Head(todo[r]) = Load
    BY DEF GetPackageManagers, AtStage, Load
  <1>2. Planned(Tail(todo[r])) /\ Tail(todo[r]) # << >> /\ Tail(todo[r]) \in Seq(Stage)
    BY <1>1, HeadType DEF Planned
  <1>3. todo' = [todo EXCEPT ![r] = Tail(todo[r])]
    BY DEF GetPackageManagers
  <1>4. todo' \in [Run -> Seq(Stage)]
    BY <1>2, <1>3 DEF AtType
  <1>5. \A s \in Run : Planned(todo'[s]) /\ (status'[s] = "running" <=> todo'[s] # << >>)
    <2> SUFFICES ASSUME NEW s \in Run
                 PROVE  Planned(todo'[s]) /\ (status'[s] = "running" <=> todo'[s] # << >>)
      OBVIOUS
    <2>1. CASE s = r
      BY <1>1, <1>2, <1>3, <2>1 DEF AtType, GetPackageManagers
    <2>2. CASE s # r
      BY <1>3, <2>2 DEF AtType, GetPackageManagers
    <2>3. QED
      BY <2>1, <2>2
  <1>6. target' \in [Run -> App \union {NoApp, GoneApp}]
    BY DEF GetPackageManagers, AtType, WorkType
  <1>7. AtType'
    BY <1>4, <1>5, <1>6 DEF AtType, GetPackageManagers, history
  <1>8. QED
    BY <1>7 DEF GetPackageManagers, WorkType, DmType, KubeType, world, history

LEMMA K8sStepType ==
    ASSUME AtType, WorkType, NEW r \in Run,
           \/ KsNamespace(r) \/ DropComponents(r) \/ DropNamespace(r)
           \/ \E c \in Component : ApplyComponent(r, c)
    PROVE  AtType' /\ WorkType'
  <1>1. status[r] = "running" /\ (Up(target[r]) => target[r] \in App)
    BY DEF KsNamespace, DropComponents, DropNamespace, ApplyComponent, AtStage, Up
  <1>2. CASE KsNamespace(r)
    <2>1. AtType' /\ sound' \subseteq sound /\ moves' = moves
      BY <1>1, <1>2, AnswerType DEF KsNamespace
    <2>2. KubeType' /\ left' \in [Run -> SUBSET Component]
      BY <1>1, <1>2 DEF KsNamespace, WorkType, KubeType
    <2>3. QED
      BY <1>2, <2>1, <2>2 DEF KsNamespace, WorkType, DmType
  <1>3. CASE DropComponents(r)
    <2>1. AtType' /\ sound' \subseteq sound /\ moves' = moves
      BY <1>1, <1>3, DoneType DEF DropComponents
    <2>2. KubeType'
      <3>1. ASSUME NEW rest \in SUBSET kube[target[r]].comps, Up(target[r]),
                   kube' = [kube EXCEPT ![target[r]].comps = rest]
            PROVE  KubeType'
        <4>1. rest \subseteq Component
          BY <1>1, <3>1 DEF WorkType, KubeType
        <4>2. QED
          BY <1>1, <3>1, <4>1 DEF WorkType, KubeType
      <3>2. CASE Up(target[r]) /\ kube' = [kube EXCEPT ![target[r]].comps = {}]
        BY <1>1, <3>2 DEF WorkType, KubeType
      <3>3. CASE UNCHANGED kube
        BY <3>3 DEF WorkType, KubeType
      <3>4. QED
        BY <1>3, <3>1, <3>2, <3>3 DEF DropComponents
    <2>3. trouble' \subseteq Run
      BY <1>3 DEF DropComponents, WorkType
    <2>4. QED
      BY <1>3, <2>1, <2>2, <2>3 DEF DropComponents, WorkType, DmType
  <1>4. CASE DropNamespace(r)
    <2>1. AtType' /\ sound' \subseteq sound /\ moves' = moves
      BY <1>1, <1>4, DoneType, AnswerType DEF DropNamespace
    <2>2. KubeType' /\ trouble' \subseteq Run
      BY <1>1, <1>4 DEF DropNamespace, WorkType, KubeType
    <2>3. QED
      BY <1>4, <2>1, <2>2 DEF DropNamespace, WorkType, DmType
  <1>5. ASSUME NEW c \in Component, ApplyComponent(r, c)
        PROVE  AtType' /\ WorkType'
    <2>1. AtType' /\ sound' \subseteq sound /\ moves' = moves
      <3>1. CASE Done(r)
        BY <1>1, <3>1, DoneType
      <3>2. CASE UNCHANGED <<cmd, app, status, todo, mid, waits, copy, target, alone,
                             sound, moves>>
        BY <3>2, SameStages DEF AtType
      <3>3. QED
        BY <1>5, <3>1, <3>2 DEF ApplyComponent
    <2>2. KubeType' /\ left' \in [Run -> SUBSET Component]
      BY <1>1, <1>5 DEF ApplyComponent, WorkType, KubeType
    <2>3. QED
      BY <1>5, <2>1, <2>2 DEF ApplyComponent, WorkType, DmType
  <1>6. QED
    BY <1>2, <1>3, <1>4, <1>5

LEMMA CallFailsType ==
    ASSUME AtType, WorkType, NEW r \in Run, CallFails(r)
    PROVE  AtType' /\ WorkType'
  <1>1. AtType' /\ sound' \subseteq sound /\ moves' = moves
    BY FailType DEF CallFails
  <1>2. QED
    BY <1>1 DEF CallFails, WorkType, DmType, KubeType, world

LEMMA StartType ==
    ASSUME AtType, WorkType, NEW r \in Run, NEW c \in Command, NEW a \in App,
           Start(r, c, a)
    PROVE  AtType' /\ WorkType'
  <1>1. c \in AnyCommand
    OBVIOUS
  <1>2. Planned(Stages(c)) /\ Stages(c) # << >> /\ Stages(c) \in Seq(Stage)
    BY <1>1, StagesType DEF Planned
  <1>3. /\ todo' = [todo EXCEPT ![r] = Stages(c)]
        /\ status' = [status EXCEPT ![r] = "running"]
    BY DEF Start
  <1>4. todo' \in [Run -> Seq(Stage)]
    BY <1>2, <1>3 DEF AtType
  <1>5. \A s \in Run : Planned(todo'[s]) /\ (status'[s] = "running" <=> todo'[s] # << >>)
    <2> SUFFICES ASSUME NEW s \in Run
                 PROVE  Planned(todo'[s]) /\ (status'[s] = "running" <=> todo'[s] # << >>)
      OBVIOUS
    <2>1. CASE s = r
      BY <1>2, <1>3, <2>1 DEF AtType
    <2>2. CASE s # r
      BY <1>3, <2>2 DEF AtType
    <2>3. QED
      BY <2>1, <2>2
  <1>6. /\ status' \in [Run -> {"idle", "running", "ok", "failed"}]
        /\ mid' \subseteq {s \in Run : status'[s] = "running"}
    BY DEF Start, AtType
  <1>7. /\ cmd' \in [Run -> AnyCommand] /\ app' \in [Run -> App]
        /\ target' \in [Run -> App \union {NoApp, GoneApp}]
        /\ alone' \subseteq Run
    BY <1>1 DEF Start, AtType
  <1>8. moves' \in 0 .. MaxMoves /\ moves' = moves + 1 /\ moves \in Nat
    BY DEF Start, Move, AtType
  <1>9. AtType'
    BY <1>4, <1>5, <1>6, <1>7, <1>8 DEF AtType, Start
  <1>10. gen' \in [App -> 1 .. (moves' + 1)]
    BY <1>8 DEF Start, WorkType, world
  <1>11. left' \in [Run -> SUBSET Component] /\ sound' \subseteq App
    BY DEF Start, Sound, WorkType
  <1>12. QED
    BY <1>9, <1>10, <1>11 DEF Start, WorkType, DmType, KubeType, world

LEMMA KillType ==
    ASSUME AtType, WorkType, NEW r \in Run, Kill(r)
    PROVE  AtType' /\ WorkType'
  <1>1. Planned(<< >>)
    BY EmptySeq DEF Planned
  <1>2. /\ todo' = [todo EXCEPT ![r] = << >>]
        /\ status' = [status EXCEPT ![r] = "failed"]
    BY DEF Kill
  <1>3. todo' \in [Run -> Seq(Stage)]
    BY <1>1, <1>2 DEF AtType, Planned
  <1>4. \A s \in Run : Planned(todo'[s]) /\ (status'[s] = "running" <=> todo'[s] # << >>)
    <2> SUFFICES ASSUME NEW s \in Run
                 PROVE  Planned(todo'[s]) /\ (status'[s] = "running" <=> todo'[s] # << >>)
      OBVIOUS
    <2>1. CASE s = r
      BY <1>1, <1>2, <2>1 DEF AtType
    <2>2. CASE s # r
      BY <1>2, <2>2 DEF AtType
    <2>3. QED
      BY <2>1, <2>2
  <1>5. /\ status' \in [Run -> {"idle", "running", "ok", "failed"}]
        /\ mid' \subseteq {s \in Run : status'[s] = "running"}
        /\ waits' \in [Run -> {"running", "ok", "error"}]
        /\ copy' \in [Run -> SUBSET Member]
        /\ target' \in [Run -> App \union {NoApp, GoneApp}]
    BY DEF Kill, Forget, AtType
  <1>6. AtType'
    BY <1>3, <1>4, <1>5 DEF AtType, Kill
  <1>7. QED
    BY <1>6 DEF Kill, WorkType, DmType, KubeType, world

LEMMA OpEndsType ==
    ASSUME AtType, WorkType, NEW a \in App, NEW d \in Deployment,
           NEW ok \in BOOLEAN, OpEnds(a, d, ok)
    PROVE  AtType' /\ WorkType'
  <1> DEFINE D == [op: {"none", "applying", "deleting", "done"},
                   sent: 0 .. (MaxMoves + 1), live: 0 .. (MaxMoves + 1)]
             was == dm[a][d]
             one == [op |-> IF ok /\ was.op = "deleting" THEN "none" ELSE "done",
                     sent |-> IF ok THEN was.sent ELSE 0,
                     live |-> IF ok THEN was.sent ELSE was.live]
  <1>1. dm \in [App -> [Deployment -> D]] /\ was \in D
    BY DEF WorkType, DmType
  <1>2. dm' = [dm EXCEPT ![a] = [dm[a] EXCEPT ![d] = one]]
    BY <1>1 DEF OpEnds
  <1>3. one \in D
    <2>1. 0 \in 0 .. (MaxMoves + 1)
      OBVIOUS
    <2>2. QED
      BY <1>1, <2>1
  <1>4. DmType'
    <2> HIDE DEF D, one
    <2>1. [dm[a] EXCEPT ![d] = one] \in [Deployment -> D]
      BY <1>1, <1>3
    <2>2. dm' \in [App -> [Deployment -> D]]
      BY <1>1, <1>2, <2>1
    <2>3. QED
      BY <2>2 DEF DmType, D
  <1>5. NewCluster \in [ns: {"none", "active", "terminating"},
                        made: SUBSET Object, comps: SUBSET Component]
    BY DEF NewCluster
  <1>6. /\ KubeType'
        /\ context' \in App \union {NoApp, GoneApp}
        /\ target' \in [Run -> App \union {NoApp, GoneApp}]
    <2>1. CASE UNCHANGED <<kube, context, target>>
      BY <2>1 DEF AtType, WorkType, KubeType
    <2>2. CASE /\ kube' = [kube EXCEPT ![a] = NewCluster]
               /\ context' = IF context = a THEN GoneApp ELSE context
               /\ target' = Gone(a)
      BY <1>5, <2>2 DEF AtType, WorkType, KubeType, Gone
    <2>3. QED
      BY <2>1, <2>2 DEF OpEnds
  <1>7. waits' \in [Run -> {"running", "ok", "error"}]
    BY DEF OpEnds, AtType
  <1>8. AtType'
    BY <1>6, <1>7, SameStages DEF OpEnds, AtType, history
  <1>9. QED
    BY <1>4, <1>6, <1>8 DEF OpEnds, WorkType, history

LEMMA OthersType ==
    ASSUME AtType, WorkType,
           \/ OutsideEdit
           \/ \E a \in App : Generate(a) \/ NamespaceGone(a) \/ EndpointAppears(a)
    PROVE  AtType' /\ WorkType'
  <1>1. CASE OutsideEdit
    <2>1. moves' \in 0 .. MaxMoves /\ moves' = moves + 1 /\ moves \in Nat
      BY <1>1 DEF OutsideEdit, Move, AtType
    <2>2. AtType'
      BY <1>1, <2>1, SameStages DEF OutsideEdit, AtType, local, history
    <2>3. gen' \in [App -> 1 .. (moves' + 1)]
      BY <1>1, <2>1 DEF OutsideEdit, WorkType
    <2>4. QED
      BY <1>1, <2>2, <2>3
         DEF OutsideEdit, WorkType, DmType, KubeType, local, history, Member
  <1>2. ASSUME NEW a \in App, Generate(a)
        PROVE  AtType' /\ WorkType'
    <2>1. moves' \in 0 .. MaxMoves /\ moves' = moves + 1 /\ moves \in Nat
      BY <1>2 DEF Generate, Move, AtType
    <2>2. AtType'
      BY <1>2, <2>1, SameStages DEF Generate, AtType, local
    <2>3. gen' \in [App -> 1 .. (moves' + 1)]
      BY <1>2, <2>1 DEF Generate, WorkType
    <2>4. QED
      BY <1>2, <2>2, <2>3 DEF Generate, WorkType, DmType, KubeType, local
  <1>3. ASSUME NEW a \in App, NamespaceGone(a)
        PROVE  AtType' /\ WorkType'
    <2>1. AtType'
      BY <1>3, SameStages DEF NamespaceGone, AtType, local, history
    <2>2. KubeType'
      <3> DEFINE one == [ns |-> "none", made |-> kube[a].made \ InNamespace, comps |-> {}]
                 K == [ns: {"none", "active", "terminating"},
                       made: SUBSET Object, comps: SUBSET Component]
      <3>1. kube' = [kube EXCEPT ![a] = one]
        BY <1>3 DEF NamespaceGone
      <3>2. kube \in [App -> K] /\ kube[a] \in K
        BY DEF WorkType, KubeType
      <3>3. one \in K
        BY <3>2
      <3> HIDE DEF one, K
      <3>4. kube' \in [App -> K]
        BY <3>1, <3>2, <3>3
      <3>5. QED
        BY <3>4 DEF K, KubeType
    <2>3. QED
      BY <1>3, <2>1, <2>2 DEF NamespaceGone, WorkType, DmType, local, history
  <1>4. ASSUME NEW a \in App, EndpointAppears(a)
        PROVE  AtType' /\ WorkType'
    <2>1. AtType'
      BY <1>4, SameStages DEF EndpointAppears, AtType, local, history
    <2>2. QED
      BY <1>4, <2>1 DEF EndpointAppears, WorkType, DmType, KubeType, local, history
  <1>5. QED
    BY <1>1, <1>2, <1>3, <1>4

LEMMA TypeInit == Init => TypeOK
  <1> SUFFICES ASSUME Init PROVE TypeOK
    OBVIOUS
  <1>1. Planned(<< >>)
    BY EmptySeq DEF Planned
  <1>2. "cluster" \in Deployment
    BY DEF Deployment
  <1>3. cmd \in [Run -> AnyCommand]
    <2>1. [verb |-> "apply", what |-> "all", storage |-> FALSE] \in AnyCommand
      BY DEF AnyCommand
    <2>2. QED
      BY <2>1 DEF Init
  <1>4. AtType
    <2>1. todo = [r \in Run |-> << >>] /\ todo \in [Run -> Seq(Stage)]
      BY EmptySeq DEF Init
    <2>2. QED
      BY <1>1, <1>3, <2>1 DEF Init, AtType
  <1>5. WorkType
    BY DEF Init, WorkType, DmType, KubeType, NewCluster, Member
  <1>6. QED
    BY <1>4, <1>5, TypeParts

LEMMA TypeStep == TypeOK /\ [Next]_vars => TypeOK'
  <1> SUFFICES ASSUME TypeOK, [Next]_vars PROVE TypeOK'
    OBVIOUS
  <1>1. AtType /\ WorkType
    BY TypeParts
  <1>2. ASSUME NEW r \in Run, Kfctl(r) \/ Kill(r) PROVE AtType' /\ WorkType'
    BY <1>1, <1>2, DeploymentStepType, PolicyStepType, PlatformStepType, LoadType,
       K8sStepType, CallFailsType, KillType DEF Kfctl
  <1>3. CASE \E r \in Run, c \in Command, a \in App : Start(r, c, a)
    BY <1>1, <1>3, StartType, TypePartsNext
  <1>4. CASE \E a \in App, d \in Deployment, ok \in BOOLEAN : OpEnds(a, d, ok)
    BY <1>1, <1>4, OpEndsType, TypePartsNext
  <1>5. CASE \/ OutsideEdit
             \/ \E a \in App : Generate(a) \/ NamespaceGone(a) \/ EndpointAppears(a)
    <2>1. AtType' /\ WorkType'
      BY <1>1, <1>5, OthersType
    <2>2. QED
      BY <2>1, TypePartsNext
  <1>6. CASE UNCHANGED vars
    BY <1>6 DEF TypeOK, vars, world, local, history
  <1>7. QED
    BY <1>2, <1>3, <1>4, <1>5, <1>6, TypePartsNext DEF Next

\* Every variable keeps its type, a run has stages left exactly while it runs,
\* and none of its plans ends with making the package manager.
THEOREM TypeCorrect == Spec => []TypeOK
  BY TypeInit, TypeStep, PTL DEF Spec

-----------------------------------------------------------------------------
(* What a step of one run leaves alone, and how it ends. *)

OthersAsBefore(r) ==
    \A s \in Run \ {r} :
        /\ todo'[s] = todo[s] /\ status'[s] = status[s] /\ copy'[s] = copy[s]
        /\ target'[s] = target[s] /\ (s \in mid' <=> s \in mid)

LEMMA ProceedKeeps ==
    ASSUME AtType, NEW r \in Run, NEW stages, NEW end, Proceed(r, stages, end)
    PROVE  OthersAsBefore(r) /\ UNCHANGED <<cmd, app, alone>>
  BY DEF Proceed, Forget, OthersAsBefore, AtType

\* A step but the making of the package manager ends the stage, well or badly,
\* or leaves the run where it was.
StepKind(r) ==
    /\ \/ /\ Done(r) /\ Head(todo[r]) # Load
          /\ Head(todo[r]) = Credentials => GetCredentials(r)
       \/ Fail(r)
       \/ UNCHANGED <<cmd, app, status, todo, target, alone>>
    /\ context' = IF GetCredentials(r) THEN app[r] ELSE context

LEMMA StepKinds ==
    ASSUME NEW r \in Run, Kfctl(r), ~ GetPackageManagers(r)
    PROVE  StepKind(r)
  <1> USE DEF StepKind, Answer
  <1>0. ASSUME NEW verb \in {"update", "remove", "policy", "make"}, At(r, verb)
        PROVE  Head(todo[r]) # Load /\ Head(todo[r]) # Credentials
    BY <1>0 DEF At, Load, Credentials
  <1>1. CASE UpdateDeployment(r) \/ DeleteDeployment(r) \/ BlockingWait(r)
    <2>1. At(r, "update") \/ At(r, "remove")
      BY <1>1 DEF UpdateDeployment, DeleteDeployment, BlockingWait
    <2>2. UNCHANGED context
      BY <1>1 DEF UpdateDeployment, DeleteDeployment, BlockingWait, Send, Join,
                  Submit, world
    <2>3. Head(todo[r]) # Load /\ Head(todo[r]) # Credentials
      BY <1>0, <2>1
    <2>4. Done(r) \/ Fail(r) \/ Wait(r)
      BY <1>1 DEF UpdateDeployment, DeleteDeployment, BlockingWait, Send, Join
    <2>5. ~ GetCredentials(r)
      BY <2>3 DEF GetCredentials, AtStage, Credentials
    <2>6. QED
      BY <2>2, <2>3, <2>4, <2>5 DEF Wait
  <1>2. CASE ReadPolicy(r) \/ SetIamPolicy(r) \/ PolicyFails(r)
    <2>1. At(r, "policy")
      BY <1>2 DEF ReadPolicy, SetIamPolicy, PolicyFails
    <2>2. UNCHANGED context
      BY <1>2 DEF ReadPolicy, SetIamPolicy, PolicyFails, world
    <2>3. Head(todo[r]) # Load /\ Head(todo[r]) # Credentials
      BY <1>0, <2>1
    <2>4. Done(r) \/ Fail(r) \/ UNCHANGED <<cmd, app, status, todo, target, alone>>
      BY <1>2 DEF ReadPolicy, SetIamPolicy, PolicyFails, TryAgain, history
    <2>5. ~ GetCredentials(r)
      BY <2>3 DEF GetCredentials, AtStage, Credentials
    <2>6. QED
      BY <2>2, <2>3, <2>4, <2>5
  <1>3. CASE MakeObject(r)
    <2>1. Head(todo[r]) # Load /\ Head(todo[r]) # Credentials
      BY <1>0, <1>3 DEF MakeObject
    <2>2. ~ GetCredentials(r)
      BY <2>1 DEF GetCredentials, AtStage, Credentials
    <2>3. QED
      BY <1>3, <2>1, <2>2 DEF MakeObject
  <1>4. CASE GetCredentials(r)
    BY <1>4 DEF GetCredentials, AtStage, Load
  <1>5. ASSUME /\ status[r] = "running"
               /\ Head(todo[r]) \in {<<"endpoint", "delete">>, <<"k8s", "namespace">>,
                                     <<"k8s", "components">>, <<"k8s", "dropComponents">>,
                                     <<"k8s", "dropNamespace">>},
               UNCHANGED context,
               Done(r) \/ Fail(r) \/ UNCHANGED <<cmd, app, status, todo, target, alone>>
        PROVE  StepKind(r)
    <2>1. Head(todo[r]) # Load /\ Head(todo[r]) # Credentials
      BY <1>5 DEF Load, Credentials
    <2>2. ~ GetCredentials(r)
      BY <2>1 DEF GetCredentials, AtStage, Credentials
    <2>3. QED
      BY <1>5, <2>1, <2>2
  <1>6. CASE KsNamespace(r) \/ DropComponents(r) \/ DropNamespace(r) \/ DeleteEndpoints(r)
    BY <1>5, <1>6
       DEF KsNamespace, DropComponents, DropNamespace, DeleteEndpoints, AtStage
  <1>7. ASSUME NEW c \in Component, ApplyComponent(r, c)
        PROVE  StepKind(r)
    BY <1>5, <1>7 DEF ApplyComponent, AtStage
  <1>8. CASE CallFails(r)
    <2>1. Fail(r) /\ UNCHANGED <<context, left>>
      BY <1>8 DEF CallFails, world
    <2>2. CASE GetCredentials(r)
      BY <1>4, <2>2
    <2>3. CASE ~ GetCredentials(r)
      BY <2>1, <2>3
    <2>4. QED
      BY <2>2, <2>3
  <1>9. QED
    BY <1>1, <1>2, <1>3, <1>4, <1>6, <1>7, <1>8 DEF Kfctl

LEMMA KeepsOthers ==
    ASSUME AtType, NEW r \in Run, Kfctl(r) \/ Kill(r)
    PROVE  /\ status[r] = "running"
           /\ OthersAsBefore(r) /\ UNCHANGED <<cmd, app, alone>>
  <1> DEFINE G == OthersAsBefore(r) /\ UNCHANGED <<cmd, app, alone>>
  <1>1. status[r] = "running"
    BY DEF Kfctl, Kill, UpdateDeployment, DeleteDeployment, BlockingWait, ReadPolicy,
           SetIamPolicy, PolicyFails, MakeObject, GetCredentials, GetPackageManagers,
           KsNamespace, ApplyComponent, DropComponents, DropNamespace,
           DeleteEndpoints, CallFails, At, AtStage
  <1>2. (Done(r) \/ Fail(r) \/ Answer(r)) => G
    BY ProceedKeeps DEF Done, Fail, Answer
  <1>3. Wait(r) \/ TryAgain(r) => G
    BY DEF Wait, TryAgain, Forget, OthersAsBefore, AtType
  <1>4. (UpdateDeployment(r) \/ DeleteDeployment(r) \/ BlockingWait(r)) => G
    BY <1>2, <1>3 DEF UpdateDeployment, DeleteDeployment, BlockingWait, Send, Join
  <1>5. ReadPolicy(r) => G
    BY DEF ReadPolicy, OthersAsBefore, AtType, history
  <1>6. (SetIamPolicy(r) \/ PolicyFails(r)) => G
    BY <1>2, <1>3 DEF SetIamPolicy, PolicyFails
  <1>7. (MakeObject(r) \/ GetCredentials(r) \/ KsNamespace(r) \/ DropComponents(r)
         \/ DropNamespace(r) \/ DeleteEndpoints(r) \/ CallFails(r)) => G
    BY <1>2 DEF MakeObject, GetCredentials, KsNamespace, DropComponents, DropNamespace,
                DeleteEndpoints, CallFails
  <1>8. GetPackageManagers(r) => G
    BY DEF GetPackageManagers, OthersAsBefore, AtType, history
  <1>9. ASSUME NEW c \in Component, ApplyComponent(r, c) PROVE G
    BY <1>2, <1>9 DEF ApplyComponent, OthersAsBefore
  <1>10. Kill(r) => G
    BY DEF Kill, Forget, OthersAsBefore, AtType
  <1> HIDE DEF G
  <1>11. G
    BY <1>4, <1>5, <1>6, <1>7, <1>8, <1>9, <1>10 DEF Kfctl
  <1>12. QED
    BY <1>1, <1>11 DEF G

-----------------------------------------------------------------------------
(* Who holds the etag has the policy. *)

LEMMA CopiesKept ==
    ASSUME CopyCurrent, NEW r \in Run, OthersAsBefore(r), WorkType,
           UNCHANGED policy, fresh' \subseteq fresh, r \notin fresh'
    PROVE  CopyCurrent'
  BY DEF CopyCurrent, OthersAsBefore, At, WorkType

\* Only a run at the policy holds it.
LEMMA NotHeld ==
    ASSUME CopyCurrent, NEW r \in Run, ~ At(r, "policy")
    PROVE  r \notin fresh
  BY DEF CopyCurrent

\* The one step that writes the policy, and what it changes.
LEMMA PolicyWritten ==
    ASSUME TypeOK, CopyCurrent, NEW r \in Run, Kfctl(r) \/ Kill(r),
           policy' # policy
    PROVE  /\ SetIamPolicy(r)
           /\ \A m \in Member : (m \in policy) # (m \in policy') =>
                  m \in MembersOf(app[r]) /\ m \in App \union policy'
  <1>1. SetIamPolicy(r)
    BY DEF Kfctl, Kill, UpdateDeployment, DeleteDeployment, BlockingWait, ReadPolicy,
           PolicyFails, MakeObject, GetCredentials, GetPackageManagers,
           KsNamespace, ApplyComponent, DropComponents, DropNamespace,
           DeleteEndpoints, CallFails, Send, Join, Submit, world
  <1>2. copy[r] = policy
    BY <1>1 DEF SetIamPolicy, CopyCurrent
  <1>3. app[r] \in App
    BY DEF TypeOK
  <1>4. QED
    BY <1>1, <1>2, <1>3 DEF SetIamPolicy, Edit, MembersOf

LEMMA CopyStep == TypeOK /\ CopyCurrent /\ [Next]_vars => CopyCurrent'
  <1> SUFFICES ASSUME TypeOK, CopyCurrent, [Next]_vars PROVE CopyCurrent'
    OBVIOUS
  <1>1. AtType /\ WorkType
    BY TypeParts
  <1>2. ASSUME NEW r \in Run, Kfctl(r) \/ Kill(r) PROVE CopyCurrent'
    <2>1. OthersAsBefore(r)
      BY <1>1, <1>2, KeepsOthers
    <2>2. CASE ReadPolicy(r)
      <3>1. r \in mid' /\ At(r, "policy")' /\ copy'[r] = policy'
        BY <1>1, <2>2 DEF ReadPolicy, At, AtType, world
      <3>2. UNCHANGED policy /\ fresh' = fresh \union {r}
        BY <2>2 DEF ReadPolicy, world
      <3>3. ASSUME NEW s \in fresh, s # r
            PROVE  s \in mid' /\ At(s, "policy")' /\ copy'[s] = policy'
        <4>1. s \in Run \ {r} /\ s \in mid /\ At(s, "policy") /\ copy[s] = policy
          BY <1>1, <3>3 DEF CopyCurrent, WorkType
        <4>2. QED
          BY <2>1, <3>2, <4>1 DEF OthersAsBefore, At
      <3>4. QED
        BY <3>1, <3>2, <3>3 DEF CopyCurrent
    <2>3. CASE SetIamPolicy(r)
      BY <2>3 DEF SetIamPolicy, CopyCurrent
    <2>4. CASE PolicyFails(r) \/ CallFails(r) \/ Kill(r)
      <3>1. UNCHANGED policy /\ fresh' = fresh \ {r}
        BY <2>4 DEF PolicyFails, CallFails, Kill, world
      <3>2. QED
        BY <1>1, <2>1, <3>1, CopiesKept
    <2>5. CASE \/ UpdateDeployment(r) \/ DeleteDeployment(r) \/ BlockingWait(r)
               \/ MakeObject(r) \/ GetCredentials(r) \/ GetPackageManagers(r)
               \/ KsNamespace(r) \/ DropComponents(r) \/ DropNamespace(r)
               \/ DeleteEndpoints(r) \/ \E c \in Component : ApplyComponent(r, c)
      <3>1. UNCHANGED <<policy, fresh>>
        BY <2>5
           DEF UpdateDeployment, DeleteDeployment, BlockingWait, MakeObject,
               GetCredentials, GetPackageManagers, KsNamespace, ApplyComponent,
               DropComponents, DropNamespace, DeleteEndpoints, Send, Join, Submit, world
      <3>2. ~ At(r, "policy")
        <4>1. \/ At(r, "update") \/ At(r, "remove") \/ At(r, "make")
              \/ AtStage(r, "credentials", "get") \/ AtStage(r, "endpoint", "delete")
              \/ \E object : AtStage(r, "k8s", object)
          BY <2>5
             DEF UpdateDeployment, DeleteDeployment, BlockingWait, MakeObject,
                 GetCredentials, GetPackageManagers, KsNamespace, ApplyComponent,
                 DropComponents, DropNamespace, DeleteEndpoints
        <4>2. QED
          BY <4>1 DEF At, AtStage
      <3>3. r \notin fresh'
        BY <3>1, <3>2, NotHeld
      <3>4. QED
        BY <1>1, <2>1, <3>1, <3>3, CopiesKept
    <2>6. QED
      BY <1>2, <2>2, <2>3, <2>4, <2>5 DEF Kfctl
  <1>3. ASSUME NEW r \in Run, NEW c \in Command, NEW a \in App, Start(r, c, a)
        PROVE  CopyCurrent'
    <2>1. r \notin fresh
      BY <1>3, NotHeld DEF Start, At
    <2>2. OthersAsBefore(r) /\ UNCHANGED <<policy, fresh>>
      BY <1>1, <1>3 DEF Start, OthersAsBefore, AtType, world
    <2>3. QED
      BY <1>1, <2>1, <2>2, CopiesKept
  <1>4. ASSUME UNCHANGED <<status, todo, mid, copy, policy, fresh>>
        PROVE  CopyCurrent'
    BY <1>4 DEF CopyCurrent, At
  <1>5. CASE \/ \E a \in App : Generate(a) \/ NamespaceGone(a) \/ EndpointAppears(a)
             \/ \E a \in App, d \in Deployment, ok \in BOOLEAN : OpEnds(a, d, ok)
             \/ UNCHANGED vars
    BY <1>4, <1>5 DEF Generate, NamespaceGone, EndpointAppears, OpEnds, vars, world,
                      local, history
  <1>6. CASE OutsideEdit
    BY <1>6 DEF OutsideEdit, CopyCurrent
  <1>7. QED
    BY <1>2, <1>3, <1>5, <1>6 DEF Next

\* A step changes the policy only as OthersKept allows.
LEMMA OthersKeptStep ==
    ASSUME TypeOK, CopyCurrent, [Next]_vars, NEW m \in Member,
           (m \in policy) # (m \in policy')
    PROVE  \/ m = Other /\ UNCHANGED <<todo, mid>>
           \/ /\ \E r \in Running : /\ m \in MembersOf(app[r])
                                   /\ At(r, "policy") /\ r \in mid \ mid'
              /\ m \in App \union policy'
  <1>1. ASSUME NEW r \in Run, Kfctl(r) \/ Kill(r)
        PROVE  /\ \E s \in Running : /\ m \in MembersOf(app[s])
                                    /\ At(s, "policy") /\ s \in mid \ mid'
               /\ m \in App \union policy'
    <2>1. SetIamPolicy(r) /\ m \in MembersOf(app[r]) /\ m \in App \union policy'
      BY <1>1, PolicyWritten
    <2>2. r \in mid \ mid' /\ At(r, "policy") /\ r \in Running
      BY <2>1 DEF SetIamPolicy, Answer, Done, Fail, Proceed, TryAgain, At, Running
    <2>3. QED
      BY <2>1, <2>2
  <1>2. CASE OutsideEdit
    BY <1>2 DEF OutsideEdit
  <1>3. CASE /\ ~ OutsideEdit
             /\ ~ \E r \in Run : Kfctl(r) \/ Kill(r)
    BY <1>3 DEF Next, Start, Generate, NamespaceGone, EndpointAppears, OpEnds, world, vars
  <1>4. QED
    BY <1>1, <1>2, <1>3

-----------------------------------------------------------------------------
(* A lonely apply of everything keeps to its own cluster. *)

\* Ending a stage but the loading keeps what Home says of the stages left.
LEMMA DoneHome ==
    ASSUME AtType, NEW r \in Run, status[r] = "running", Home(r),
           Done(r), Head(todo[r]) # Load,
           Head(todo[r]) = Credentials => context' = app[r]
    PROVE  status'[r] = "running" => Home(r)'
  <1> DEFINE s == todo[r]
             t == Tail(todo[r])
  <1>1. /\ s \in Seq(Stage) /\ s # << >> /\ Len(s) \in Nat
        /\ t \in Seq(Stage) /\ Len(t) = Len(s) - 1
        /\ \A i \in 1 .. Len(t) : t[i] = s[i + 1]
        /\ Head(s) = s[1]
    BY HeadTailProperties, LenProperties, HeadType DEF AtType
  <1>2. todo'[r] = t /\ app' = app /\ (t # << >> => target'[r] = target[r])
    BY DEF Done, Proceed, AtType
  <1>3. status'[r] = "running" => t # << >>
    BY DEF Done, Proceed, AtType
  <1> HIDE DEF s, t
  <1>4. ASSUME NEW i \in 1 .. Len(t), t[i] = Load
        PROVE  IF i = 1 THEN context' \in {app[r], GoneApp} ELSE t[i - 1] = Credentials
    <2>1. i + 1 \in 1 .. Len(s) /\ s[i + 1] = Load /\ i + 1 # 1
      BY <1>1, <1>4
    <2>2. s[i] = Credentials
      BY <2>1 DEF Home, s
    <2>3. CASE i = 1
      BY <1>1, <2>2, <2>3 DEF s
    <2>4. CASE i # 1
      <3>1. i - 1 \in 1 .. Len(t) /\ t[i - 1] = s[i]
        BY <1>1, <1>4, <2>4
      <3>2. QED
        BY <2>2, <2>4, <3>1
    <2>5. QED
      BY <2>3, <2>4
  <1>5. QED
    BY <1>2, <1>3, <1>4 DEF Home

\* An apply that fails ends.
LEMMA FailEnds ==
    ASSUME AtType, NEW r \in Run, Fail(r), cmd[r].verb = "apply"
    PROVE  status'[r] # "running"
  BY DEF Fail, Ignored, Proceed, AtType

\* When no package manager is to be made at once, the context does not matter.
LEMMA StillHome ==
    ASSUME NEW r, Home(r), UNCHANGED <<app, todo, target, context>>
    PROVE  Home(r)'
  BY DEF Home

LEMMA StepHome ==
    ASSUME AtType, WorkType, NEW r \in Run, Kfctl(r) \/ Kill(r), Home(r),
           cmd[r].verb = "apply"
    PROVE  status'[r] = "running" => Home(r)'
  <1>1. status[r] = "running"
    BY KeepsOthers
  <1>2. CASE Kill(r)
    BY <1>2 DEF Kill, AtType
  <1>3. CASE GetPackageManagers(r)
    <2> DEFINE s == todo[r]
               t == Tail(todo[r])
    <2>1. /\ s \in Seq(Stage) /\ s # << >> /\ Len(s) \in Nat /\ Len(s) > 0
          /\ t \in Seq(Stage) /\ Len(t) = Len(s) - 1
          /\ \A i \in 1 .. Len(t) : t[i] = s[i + 1]
          /\ Head(s) = s[1] /\ s[1] = Load
      BY <1>1, <1>3, HeadTailProperties, LenProperties, HeadType, EmptySeq
         DEF AtType, GetPackageManagers, AtStage, Load
    <2>2. /\ todo'[r] = t /\ app' = app /\ target'[r] = context /\ context' = context
      BY <1>3 DEF GetPackageManagers, AtType, world
    <2> HIDE DEF s, t
    <2>3. context \in {app[r], GoneApp}
      <3>1. 1 \in 1 .. Len(s)
        BY <2>1
      <3>2. QED
        BY <2>1, <3>1 DEF Home, s
    <2>4. ASSUME NEW i \in 1 .. Len(t), t[i] = Load
          PROVE  IF i = 1 THEN context' \in {app[r], GoneApp} ELSE t[i - 1] = Credentials
      <3>1. i + 1 \in 1 .. Len(s) /\ s[i + 1] = Load /\ i + 1 # 1 /\ i + 1 - 1 = i
        BY <2>1, <2>4
      <3>2. s[i] = Credentials
        BY <3>1 DEF Home, s
      <3>3. CASE i = 1
        BY <2>2, <2>3, <3>3
      <3>4. CASE i # 1
        <4>1. i - 1 \in 1 .. Len(t) /\ t[i - 1] = s[i]
          BY <2>1, <2>4, <3>4
        <4>2. QED
          BY <3>2, <3>4, <4>1
      <3>5. QED
        BY <3>3, <3>4
    <2>5. QED
      BY <2>2, <2>3, <2>4 DEF Home
  <1>4. CASE Kfctl(r) /\ ~ GetPackageManagers(r)
    <2>1. StepKind(r)
      BY <1>4, StepKinds
    <2>2. CASE /\ Done(r) /\ Head(todo[r]) # Load
               /\ Head(todo[r]) = Credentials => GetCredentials(r)
      BY <1>1, <2>1, <2>2, DoneHome DEF StepKind
    <2>3. CASE Fail(r)
      BY <2>3, FailEnds
    <2>4. CASE UNCHANGED <<cmd, app, status, todo, target, alone>>
      <3>1. CASE GetCredentials(r)
        <4>1. Done(r) \/ Fail(r)
          BY <3>1 DEF GetCredentials, Answer
        <4>2. Head(todo[r]) # Load /\ context' = app[r]
          BY <3>1 DEF GetCredentials, AtStage, Load
        <4>3. QED
          BY <1>1, <2>3, <4>1, <4>2, DoneHome
      <3>2. CASE ~ GetCredentials(r)
        BY <2>1, <2>4, <3>2, StillHome DEF StepKind
      <3>3. QED
        BY <3>1, <3>2
    <2>5. QED
      BY <2>1, <2>2, <2>3, <2>4 DEF StepKind
  <1>5. QED
    BY <1>2, <1>3, <1>4

OwnApply(r) == status[r] = "running" /\ cmd[r].verb = "apply" /\ cmd[r].what = "all"

LEMMA HomelyStep == TypeOK /\ Homely /\ [Next]_vars => Homely'
  <1> SUFFICES ASSUME TypeOK, Homely, [Next]_vars PROVE Homely'
    OBVIOUS
  <1>1. AtType /\ WorkType
    BY TypeParts
  <1>2. ASSUME NEW r \in Run, Kfctl(r) \/ Kill(r) PROVE Homely'
    <2>1. /\ status[r] = "running" /\ OthersAsBefore(r)
          /\ UNCHANGED <<cmd, app, alone>>
      BY <1>1, <1>2, KeepsOthers
    <2>2. Running' \subseteq Running
      BY <2>1 DEF Running, OthersAsBefore
    <2> SUFFICES ASSUME NEW s \in alone
                 PROVE  Running' \subseteq {s} /\ (OwnApply(s)' => Home(s)')
      BY <2>1 DEF Homely, OwnApply
    <2>3. s = r /\ Running \subseteq {s}
      BY <2>1 DEF Homely, Running
    <2>4. ASSUME OwnApply(s)' PROVE Home(s)'
      <3>1. OwnApply(r) /\ Home(r)
        BY <2>1, <2>3, <2>4 DEF OwnApply, Homely
      <3>2. QED
        BY <1>1, <1>2, <2>3, <2>4, <3>1, StepHome DEF OwnApply
    <2>5. QED
      BY <2>2, <2>3, <2>4
  <1>3. ASSUME NEW r \in Run, NEW c \in Command, NEW a \in App, Start(r, c, a)
        PROVE  Homely'
    <2>1. CASE Running # {}
      BY <1>3, <2>1 DEF Start, Homely
    <2>2. CASE Running = {}
      <3>1. alone' = {r} /\ Running' \subseteq {r}
        BY <1>1, <1>3, <2>2 DEF Start, Running, AtType
      <3>2. /\ cmd'[r] = c /\ todo'[r] = Stages(c) /\ target'[r] = NoApp
        BY <1>1, <1>3 DEF Start, AtType
      <3>3. c \in AnyCommand
        OBVIOUS
      <3>4. ASSUME c.verb = "apply", c.what = "all" PROVE Home(r)'
        <4>1. AfterCredentials(Stages(c))
          BY <3>3, <3>4, StagesType
        <4>2. ASSUME NEW i \in 1 .. Len(Stages(c)), Stages(c)[i] = Load
              PROVE  i # 1 /\ Stages(c)[i - 1] = Credentials
          <5>1. i > 1 /\ Stages(c)[i - 1] = Credentials
            BY <4>1, <4>2 DEF AfterCredentials
          <5>2. QED
            BY <5>1
        <4>3. QED
          BY <3>2, <4>2 DEF Home
      <3>5. QED
        BY <3>1, <3>2, <3>4 DEF Homely
    <2>3. QED
      BY <2>1, <2>2
  <1>4. ASSUME NEW a \in App, NEW d \in Deployment, NEW ok \in BOOLEAN, OpEnds(a, d, ok)
        PROVE  Homely'
    <2>1. UNCHANGED <<cmd, app, status, todo, alone>>
      BY <1>4 DEF OpEnds, history
    <2>2. /\ context' = context \/ context' = GoneApp
          /\ \A s \in Run : target'[s] = target[s] \/ target'[s] = GoneApp
      <3>1. CASE UNCHANGED <<context, target>>
        BY <3>1
      <3>2. CASE /\ context' = IF context = a THEN GoneApp ELSE context
                 /\ target' = Gone(a)
        BY <3>2 DEF Gone
      <3>3. QED
        BY <1>4, <3>1, <3>2 DEF OpEnds
    <2>3. alone \subseteq Run /\ Running' = Running
      BY <1>1, <2>1 DEF AtType, Running
    <2> SUFFICES ASSUME NEW s \in alone, OwnApply(s) PROVE Home(s)'
      BY <2>1, <2>3 DEF Homely, OwnApply
    <2>4. Home(s)
      BY DEF Homely, OwnApply
    <2>5. QED
      BY <2>1, <2>2, <2>3, <2>4 DEF Home
  <1>5. ASSUME UNCHANGED <<cmd, app, status, todo, target, context, alone>>
        PROVE  Homely'
    BY <1>5 DEF Homely, Home, Running
  <1>6. CASE \/ OutsideEdit
             \/ \E a \in App : Generate(a) \/ NamespaceGone(a) \/ EndpointAppears(a)
             \/ UNCHANGED vars
    BY <1>5, <1>6 DEF OutsideEdit, Generate, NamespaceGone, EndpointAppears, vars,
                      world, local, history
  <1>7. QED
    BY <1>2, <1>3, <1>4, <1>6 DEF Next

\* A step brings into another cluster only what ApplyStaysHome allows.
LEMMA StaysHomeStep ==
    ASSUME TypeOK, Homely, [Next]_vars,
           NEW r \in alone \intersect Running, NEW a \in App,
           cmd[r].verb = "apply", cmd[r].what = "all", a # app[r]
    PROVE  /\ kube'[a].comps \subseteq kube[a].comps
           /\ kube'[a].ns = "active" => kube[a].ns = "active"
  <1> DEFINE G == /\ kube'[a].comps \subseteq kube[a].comps
                  /\ kube'[a].ns = "active" => kube[a].ns = "active"
  <1>1. AtType /\ WorkType
    BY TypeParts
  <1>2. kube \in [App -> [ns: {"none", "active", "terminating"},
                         made: SUBSET Object, comps: SUBSET Component]]
    BY <1>1 DEF WorkType, KubeType
  <1>3. r \in Run /\ Running \subseteq {r} /\ Home(r)
    BY DEF Homely, Running
  <1>4. ASSUME UNCHANGED kube PROVE G
    BY <1>4
  <1>5. ASSUME NEW b, b # a, NEW k, kube' = [kube EXCEPT ![b] = k] PROVE G
    BY <1>2, <1>5
  <1>6. ASSUME NEW s \in Run, Kfctl(s) PROVE G
    <2>1. s = r
      BY <1>1, <1>3, <1>6, KeepsOthers DEF Running
    <2>2. target[r] \in App => target[r] = app[r]
      BY <1>3 DEF Home
    <2>3. CASE MakeObject(r)
      BY <1>5, <2>3 DEF MakeObject
    <2>4. CASE KsNamespace(r)
      BY <1>5, <2>2, <2>4 DEF KsNamespace, Up
    <2>5. ASSUME NEW c \in Component, ApplyComponent(r, c) PROVE G
      BY <1>5, <2>2, <2>5 DEF ApplyComponent, Up
    <2>6. CASE DropComponents(r)
      BY <1>4, <1>5, <2>2, <2>6 DEF DropComponents, Up
    <2>7. CASE DropNamespace(r)
      BY <1>4, <1>5, <2>2, <2>7 DEF DropNamespace, Up
    <2>8. CASE \/ UpdateDeployment(r) \/ DeleteDeployment(r) \/ BlockingWait(r)
               \/ ReadPolicy(r) \/ SetIamPolicy(r) \/ PolicyFails(r)
               \/ GetCredentials(r) \/ GetPackageManagers(r) \/ DeleteEndpoints(r)
               \/ CallFails(r)
      BY <1>4, <2>8
         DEF UpdateDeployment, DeleteDeployment, BlockingWait, ReadPolicy, SetIamPolicy,
             PolicyFails, GetCredentials, GetPackageManagers, DeleteEndpoints,
             CallFails, Send, Join, Submit, world
    <2>9. QED
      BY <1>6, <2>1, <2>3, <2>4, <2>5, <2>6, <2>7, <2>8 DEF Kfctl
  <1>7. ASSUME NEW b \in App, NEW d \in Deployment, NEW ok \in BOOLEAN, OpEnds(b, d, ok)
        PROVE  G
    <2>1. kube' = [kube EXCEPT ![b] = NewCluster] \/ UNCHANGED kube
      BY <1>7 DEF OpEnds
    <2>2. QED
      BY <1>2, <2>1 DEF NewCluster
  <1>8. ASSUME NEW b \in App, NamespaceGone(b) PROVE G
    BY <1>2, <1>8 DEF NamespaceGone
  <1>9. CASE \/ \E s \in Run : Kill(s)
             \/ \E s \in Run, c \in Command, b \in App : Start(s, c, b)
             \/ \E b \in App : Generate(b) \/ EndpointAppears(b)
             \/ OutsideEdit
             \/ UNCHANGED vars
    BY <1>4, <1>9 DEF Kill, Start, Generate, EndpointAppears, OutsideEdit, vars, world
  <1>10. QED
    BY <1>6, <1>7, <1>8, <1>9 DEF Next

-----------------------------------------------------------------------------
LEMMA ApartInit == Init => Apart
  BY TypeInit DEF Init, Apart, CopyCurrent, Homely

LEMMA ApartStep == Apart /\ [Next]_vars => Apart'
  BY TypeStep, CopyStep, HomelyStep DEF Apart

\* Whoever holds the etag of the present policy has its members, and an apply of
\* everything that is alone makes its package manager for its own cluster.
THEOREM ApartCorrect == Spec => []Apart
  BY ApartInit, ApartStep, PTL DEF Spec

\* No edit of the policy loses another's (utils/iamutils.go: the policy that is
\* set is the one that was read, with the etag it came with), and the accounts
\* let in through IAP stay bound.
THEOREM OthersKeptCorrect == Spec => OthersKept
  <1>1. ASSUME Apart, [Next]_vars
        PROVE  [\A m \in Member : (m \in policy) # (m \in policy') =>
                   \/ m = Other /\ UNCHANGED <<todo, mid>>
                   \/ /\ \E r \in Running : /\ m \in MembersOf(app[r])
                                           /\ At(r, "policy") /\ r \in mid \ mid'
                      /\ m \in App \union policy']_vars
    BY <1>1, OthersKeptStep DEF Apart
  <1>2. QED
    BY <1>1, ApartCorrect, PTL DEF Spec, OthersKept

\* A lonely apply of everything brings nothing into another application's
\* cluster: its package manager is made, from the current context, only after its
\* platform was applied and gcloud had made that cluster the context
\* (coordinator.go, Apply).
THEOREM ApplyStaysHomeCorrect == Spec => ApplyStaysHome
  <1>1. ASSUME Apart, [Next]_vars
        PROVE  [\A r \in alone \intersect Running, a \in App :
                  (cmd[r].verb = "apply" /\ cmd[r].what = "all" /\ a # app[r])
                  => /\ kube'[a].comps \subseteq kube[a].comps
                     /\ kube'[a].ns = "active" => kube[a].ns = "active"]_vars
    BY <1>1, StaysHomeStep DEF Apart
  <1>2. QED
    BY <1>1, ApartCorrect, PTL DEF Spec, ApplyStaysHome

=============================================================================
