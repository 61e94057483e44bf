------------------------- MODULE KfctlPlatformProofs -------------------------
(***************************************************************************)
(* What applies and deletes of the platform come to, for any               *)
(* applications, shells, commands and components: AppliesAgree,            *)
(* OkMeansApplied and DeletedMeansGone of Kfctl.                           *)
(***************************************************************************)
EXTENDS KfctlProofs

USE KfctlAssumption

-----------------------------------------------------------------------------
(* What is in the plan of a command *)

Has(s, x) == \E i \in 1 .. Len(s) : s[i] = x

LEMMA ConcatAt ==
    ASSUME NEW S, NEW s \in Seq(S), NEW t \in Seq(S)
    PROVE  /\ s \o t \in Seq(S) /\ Len(s \o t) = Len(s) + Len(t)
           /\ Len(s) \in Nat /\ Len(t) \in Nat
           /\ \A i \in 1 .. Len(s) : (s \o t)[i] = s[i]
           /\ \A i \in 1 .. Len(t) : (s \o t)[Len(s) + i] = t[i]
  <1>1. /\ s \o t \in Seq(S) /\ Len(s \o t) = Len(s) + Len(t)
        /\ Len(s) \in Nat /\ Len(t) \in Nat
        /\ \A i \in 1 .. Len(s) + Len(t) :
              (s \o t)[i] = IF i <= Len(s) THEN s[i] ELSE t[i - Len(s)]
    BY ConcatProperties, LenProperties
  <1>2. ASSUME NEW i \in 1 .. Len(t) PROVE (s \o t)[Len(s) + i] = t[i]
    <2>1. Len(s) + i \in 1 .. Len(s) + Len(t) /\ ~ (Len(s) + i <= Len(s))
          /\ (Len(s) + i) - Len(s) = i
      BY <1>1
    <2>2. QED
      BY <1>1, <2>1
  <1>3. QED
    BY <1>1, <1>2

LEMMA ConcatHas ==
    ASSUME NEW S, NEW s \in Seq(S), NEW t \in Seq(S), NEW x
    PROVE  (Has(s, x) \/ Has(t, x)) => Has(s \o t, x)
  <1> DEFINE u == s \o t
  <1>1. /\ Len(u) = Len(s) + Len(t) /\ Len(s) \in Nat /\ Len(t) \in Nat
        /\ \A i \in 1 .. Len(s) : u[i] = s[i]
        /\ \A i \in 1 .. Len(t) : u[Len(s) + i] = t[i]
    BY ConcatAt
  <1> HIDE DEF u
  <1>2. ASSUME NEW i \in 1 .. Len(s), s[i] = x PROVE Has(u, x)
    BY <1>1, <1>2 DEF Has
  <1>3. ASSUME NEW i \in 1 .. Len(t), t[i] = x PROVE Has(u, x)
    <2>1. Len(s) + i \in 1 .. Len(u)
      BY <1>1
    <2>2. QED
      BY <1>1, <1>3, <2>1 DEF Has
  <1>4. QED
    BY <1>2, <1>3 DEF Has, u

LEMMA AllHas ==
    ASSUME NEW S, NEW objects \in Seq(S), NEW verb, NEW x, Has(objects, x)
    PROVE  Has(All(verb, objects), <<verb, x>>)
  BY AllType DEF Has

LEMMA OneHas == ASSUME NEW x PROVE Has(<<x>>, x)
  <1>1. Len(<<x>>) = 1 /\ <<x>>[1] = x
    OBVIOUS
  <1>2. QED
    BY <1>1 DEF Has

LEMMA ExtrasHas == ASSUME NEW d \in Extra PROVE Has(Extras, d)
  <1> DEFINE n == Optional(<<"network">>, "network" \in Extra)
             g == Optional(<<"gcfs">>, "gcfs" \in Extra)
  <1>1. n \in Seq({"network", "gcfs"}) /\ g \in Seq({"network", "gcfs"})
    <2>1. <<"network">> \in Seq({"network", "gcfs"}) /\ <<"gcfs">> \in Seq({"network", "gcfs"})
      OBVIOUS
    <2>2. QED
      BY <2>1, OptionalType
  <1>2. /\ d = "network" => Has(n, d)
        /\ d = "gcfs" => Has(g, d)
    BY OneHas DEF Optional
  <1>3. d \in {"network", "gcfs"}
    OBVIOUS
  <1>4. Extras = n \o g
    BY DEF Extras
  <1> HIDE DEF n, g
  <1>5. QED
    BY <1>1, <1>2, <1>3, <1>4, ConcatHas

LEMMA UpdatesHas ==
    /\ Updates \in Seq({"update"} \X Deployment)
    /\ \A d \in Deployment : Has(Updates, <<"update", d>>)
  <1> DEFINE b == <<"storage", "cluster">>
             s == b \o Extras
  <1>1. b \in Seq(Deployment) /\ Has(b, "storage") /\ Has(b, "cluster")
    <2>1. /\ b \in Seq(Deployment) /\ Len(b) = 2
          /\ b[1] = "storage" /\ b[2] = "cluster"
      BY DEF Deployment
    <2> HIDE DEF b
    <2>2. QED
      BY <2>1 DEF Has
  <1>2. Updates = All("update", s)
    BY DEF Updates
  <1> HIDE DEF b
  <1>3. s \in Seq(Deployment) /\ \A d \in Deployment : Has(s, d)
    <2>1. Extras \in Seq(Deployment)
      BY ExtrasType
    <2>2. ASSUME NEW d \in Deployment PROVE Has(b, d) \/ Has(Extras, d)
      BY <1>1, ExtrasHas DEF Deployment
    <2>3. b \o Extras \in Seq(Deployment)
      BY <1>1, <2>1, ConcatAt
    <2>4. QED
      BY <1>1, <2>1, <2>2, <2>3, ConcatHas
  <1> HIDE DEF s
  <1>4. QED
    BY <1>2, <1>3, AllType, AllHas

LEMMA RemovalsHas ==
    ASSUME NEW storage \in BOOLEAN
    PROVE  /\ Removals(storage) \in Seq({"remove"} \X Deployment)
           /\ \A d \in Deployment : (d # "storage" \/ storage)
                 => Has(Removals(storage), <<"remove", d>>)
  <1> DEFINE b == <<"cluster">>
             o == Optional(<<"storage">>, storage)
             t == b \o o
             s == t \o Extras
  <1>1. /\ b \in Seq(Deployment) /\ Has(b, "cluster")
        /\ o \in Seq(Deployment) /\ (storage => Has(o, "storage"))
    <2>1. <<"storage">> \in Seq(Deployment) /\ b \in Seq(Deployment)
      BY DEF Deployment
    <2>2. Has(b, "cluster") /\ (storage => Has(o, "storage"))
      BY DEF Has, Optional
    <2>3. QED
      BY <2>1, <2>2, OptionalType
  <1>2. Removals(storage) = All("remove", s)
    BY DEF Removals
  <1> HIDE DEF b, o
  <1>3. t \in Seq(Deployment) /\ Has(t, "cluster") /\ (storage => Has(t, "storage"))
    BY <1>1, ConcatAt, ConcatHas
  <1> HIDE DEF t
  <1>4. s \in Seq(Deployment)
    BY <1>3, ExtrasType, ConcatAt
  <1>5. ASSUME NEW d \in Deployment, d # "storage" \/ storage PROVE Has(s, d)
    <2>1. Has(t, d) \/ Has(Extras, d)
      BY <1>3, <1>5, ExtrasHas DEF Deployment
    <2>2. QED
      BY <1>3, <2>1, ExtrasType, ConcatHas
  <1> HIDE DEF s
  <1>6. QED
    BY <1>2, <1>4, <1>5, AllType, AllHas

LEMMA MakesHas ==
    ASSUME NEW o \in Object \union {"namespace"}
    PROVE  Has(Makes, <<"make", o>>)
  <1>1. /\ Makes \in Seq({"make"} \X (Object \union {"namespace"}))
        /\ DOMAIN Makes = 1 .. Len(Makes)
    BY MakesType, LenProperties
  <1>2. CASE o = "namespace"
    <2> DEFINE N == {"namespace", "admin", "istio", "adminSecret", "userSecret",
                     "istioAdminSecret", "istioUserSecret", "loginSecret"}
               o1 == <<"namespace", "admin">>
               o2 == Optional(<<"istio">>, UseIstio)
               o3 == <<"adminSecret", "userSecret">>
               o4 == Optional(<<"istioAdminSecret", "istioUserSecret">>, UseIstio)
               o5 == <<"loginSecret">>
    <2>1. /\ o1 \in Seq(N) /\ o2 \in Seq(N) /\ o3 \in Seq(N) /\ o4 \in Seq(N) /\ o5 \in Seq(N)
          /\ Has(o1, "namespace")
      <3>1. /\ o1 \in Seq(N) /\ o3 \in Seq(N) /\ o5 \in Seq(N)
            /\ <<"istio">> \in Seq(N) /\ <<"istioAdminSecret", "istioUserSecret">> \in Seq(N)
        OBVIOUS
      <3>2. Has(o1, "namespace")
        BY DEF Has
      <3>3. QED
        BY <3>1, <3>2, OptionalType
    <2>2. Makes = All("make", (((o1 \o o2) \o o3) \o o4) \o o5)
      BY DEF Makes
    <2> HIDE DEF N, o1, o2, o3, o4, o5
    <2>3. o1 \o o2 \in Seq(N) /\ Has(o1 \o o2, "namespace")
      BY <2>1, ConcatAt, ConcatHas
    <2>4. (o1 \o o2) \o o3 \in Seq(N) /\ Has((o1 \o o2) \o o3, "namespace")
      BY <2>1, <2>3, ConcatAt, ConcatHas
    <2>5. ((o1 \o o2) \o o3) \o o4 \in Seq(N) /\ Has(((o1 \o o2) \o o3) \o o4, "namespace")
      BY <2>1, <2>4, ConcatAt, ConcatHas
    <2>6. /\ (((o1 \o o2) \o o3) \o o4) \o o5 \in Seq(N)
          /\ Has((((o1 \o o2) \o o3) \o o4) \o o5, "namespace")
      BY <2>1, <2>5, ConcatAt, ConcatHas
    <2>7. QED
      BY <1>2, <2>2, <2>6, AllHas
  <1>3. CASE o \in Object
    <2>1. PICK i \in 1 .. Len(Makes) : Makes[i][2] = o
      BY <1>1, <1>3 DEF Object
    <2>2. Makes[i] \in {"make"} \X (Object \union {"namespace"})
      BY <1>1, ElementOfSeq
    <2>3. Makes[i] = <<"make", o>>
      BY <2>1, <2>2
    <2>4. QED
      BY <2>1, <2>3 DEF Has
  <1>4. QED
    BY <1>2, <1>3

-----------------------------------------------------------------------------
(* The order of a plan *)

Clear      == <<"policy", "clear">>
Rewrite    == <<"policy", "rewrite">>
Components == <<"k8s", "components">>
Namespace  == <<"k8s", "namespace">>

\* What ApplyPlan says of stage i of s.
InOrder(s, i) ==
    /\ s[i] \in ApplyStage
    /\ s[i] = Clear => i < Len(s) /\ s[i + 1] = Rewrite
    /\ s[i] = Components => i = 1 \/ s[i - 1] = Namespace

LEMMA PlanInOrder == \A s : ApplyPlan(s) <=> \A i \in 1 .. Len(s) : InOrder(s, i)
  BY DEF ApplyPlan, InOrder, Clear, Rewrite, Components, Namespace

\* Stages of an apply that may come anywhere.
LEMMA PlainPlan ==
    ASSUME NEW s \in Seq(ApplyStage \ {Clear, Components})
    PROVE  ApplyPlan(s) /\ \A i \in 1 .. Len(s) : s[i] # Components
  <1>1. \A i \in 1 .. Len(s) : s[i] \in ApplyStage \ {Clear, Components}
    BY ElementOfSeq
  <1>2. QED
    BY <1>1, PlanInOrder DEF InOrder

LEMMA ConcatApplyPlan ==
    ASSUME NEW s \in Seq(Stage), NEW t \in Seq(Stage), ApplyPlan(s), ApplyPlan(t),
           1 \in 1 .. Len(t) => t[1] # Components
    PROVE  ApplyPlan(s \o t)
  <1> DEFINE u == s \o t
             n == Len(s)
  <1>1. /\ Len(u) = n + Len(t) /\ n \in Nat /\ Len(t) \in Nat
        /\ \A i \in 1 .. n : u[i] = s[i]
        /\ \A i \in 1 .. Len(t) : u[n + i] = t[i]
    BY ConcatAt
  <1> HIDE DEF u
  <1>2. ASSUME NEW i \in 1 .. n PROVE InOrder(u, i)
    <2>1. InOrder(s, i)
      BY PlanInOrder
    <2>2. s[i] = Clear => i < n /\ i + 1 \in 1 .. n /\ s[i + 1] = Rewrite
      BY <1>1, <2>1 DEF InOrder
    <2>3. s[i] = Components => i = 1 \/ (i - 1 \in 1 .. n /\ s[i - 1] = Namespace)
      BY <1>1, <2>1 DEF InOrder
    <2>4. QED
      BY <1>1, <2>1, <2>2, <2>3 DEF InOrder
  <1>3. ASSUME NEW i \in 1 .. Len(t) PROVE InOrder(u, n + i)
    <2>1. InOrder(t, i)
      BY PlanInOrder
    <2>2. t[i] = Clear => i < Len(t) /\ i + 1 \in 1 .. Len(t) /\ t[i + 1] = Rewrite
      BY <1>1, <2>1 DEF InOrder
    <2>3. t[i] = Components => i - 1 \in 1 .. Len(t) /\ t[i - 1] = Namespace
      BY <1>1, <2>1 DEF InOrder
    <2>4. (n + i) + 1 = n + (i + 1) /\ (n + i) - 1 = n + (i - 1)
      BY <1>1
    <2>5. u[n + i] = t[i] /\ t[i] \in ApplyStage
      BY <1>1, <2>1 DEF InOrder
    <2>6. u[n + i] = Clear => n + i < Len(u) /\ u[(n + i) + 1] = Rewrite
      BY <1>1, <2>2, <2>4, <2>5
    <2>7. u[n + i] = Components => u[(n + i) - 1] = Namespace
      BY <1>1, <2>3, <2>4, <2>5
    <2>8. QED
      BY <2>5, <2>6, <2>7 DEF InOrder
  <1>4. ASSUME NEW i \in 1 .. Len(u) PROVE InOrder(u, i)
    <2>1. CASE i <= n
      BY <1>1, <1>2, <2>1
    <2>2. CASE i > n
      <3>1. i - n \in 1 .. Len(t) /\ i = n + (i - n)
        BY <1>1, <2>2
      <3>2. QED
        BY <1>3, <3>1
    <2>3. QED
      BY <1>1, <2>1, <2>2
  <1>5. ApplyPlan(u)
    BY <1>4, PlanInOrder
  <1>6. QED
    BY <1>5 DEF u

LEMMA ApplyStageType ==
    /\ ApplyStage \subseteq Stage /\ DeleteStage \subseteq Stage
    /\ {"update"} \X Deployment \subseteq ApplyStage \ {Clear, Components}
    /\ {"make"} \X (Object \union {"namespace"}) \subseteq ApplyStage \ {Clear, Components}
    /\ Credentials \in ApplyStage \ {Clear, Components}
  BY DEF ApplyStage, DeleteStage, Stage, Clear, Components, Credentials

LEMMA ApplyPlatformPlan ==
    /\ ApplyPlatform \in Seq(Stage) /\ ApplyPlan(ApplyPlatform)
    /\ \A d \in Deployment : Has(ApplyPlatform, <<"update", d>>)
    /\ Has(ApplyPlatform, Rewrite)
    /\ \A o \in Object \union {"namespace"} : Has(ApplyPlatform, <<"make", o>>)
    /\ Has(ApplyPlatform, Credentials)
    /\ \A i \in 1 .. Len(ApplyPlatform) : ApplyPlatform[i] # Components
  <1> DEFINE P == ApplyStage \ {Clear, Components}
             u == All("policy", <<"clear", "rewrite">>)
             v == <<<<"credentials", "get">>>>
  <1>1. ASSUME NEW S, S \subseteq P, NEW s \in Seq(S)
        PROVE  /\ s \in Seq(Stage) /\ ApplyPlan(s)
               /\ \A i \in 1 .. Len(s) : s[i] # Components
    <2>1. P \subseteq Stage
      BY ApplyStageType
    <2>2. s \in Seq(P) /\ s \in Seq(Stage)
      BY <1>1, <2>1, SeqMonotonic
    <2>3. QED
      BY <2>2, PlainPlan
  <1>2. /\ Updates \in Seq(Stage) /\ ApplyPlan(Updates)
        /\ \A i \in 1 .. Len(Updates) : Updates[i] # Components
    BY <1>1, UpdatesHas, ApplyStageType
  <1>3. /\ Makes \in Seq(Stage) /\ ApplyPlan(Makes)
        /\ \A i \in 1 .. Len(Makes) : Makes[i] # Components
    BY <1>1, MakesType, ApplyStageType
  <1>4. /\ v \in Seq(Stage) /\ ApplyPlan(v) /\ Has(v, Credentials)
        /\ \A i \in 1 .. Len(v) : v[i] # Components
    <2>1. v \in Seq({Credentials}) /\ Len(v) = 1 /\ v[1] = Credentials
      BY DEF Credentials
    <2> HIDE DEF v
    <2>2. Has(v, Credentials)
      BY <2>1 DEF Has
    <2>3. QED
      BY <1>1, <2>1, <2>2, ApplyStageType
  <1>5. /\ u \in Seq(Stage) /\ ApplyPlan(u) /\ Has(u, Rewrite)
        /\ \A i \in 1 .. Len(u) : u[i] # Components
    <2> DEFINE o == <<"clear", "rewrite">>
    <2>1. /\ o \in Seq({"clear", "rewrite"}) /\ Len(o) = 2
          /\ o[1] = "clear" /\ o[2] = "rewrite"
      OBVIOUS
    <2>2. u = All("policy", o)
      OBVIOUS
    <2> HIDE DEF u, o
    <2>3. /\ u \in Seq({"policy"} \X {"clear", "rewrite"})
          /\ Len(u) = 2 /\ u[1] = Clear /\ u[2] = Rewrite
      <3>1. o \in Seq({"clear", "rewrite"}) /\ Len(o) = 2
        BY <2>1
      <3>2. ASSUME NEW q \in Seq({"clear", "rewrite"}), Len(q) = 2
            PROVE  /\ All("policy", q) \in Seq({"policy"} \X {"clear", "rewrite"})
                   /\ Len(All("policy", q)) = 2
                   /\ \A i \in 1 .. 2 : All("policy", q)[i] = <<"policy", q[i]>>
        BY <3>2, AllType
      <3>3. QED
        BY <2>1, <2>2, <3>1, <3>2 DEF Clear, Rewrite
    <2>4. {"policy"} \X {"clear", "rewrite"} \subseteq Stage
      BY DEF Stage
    <2>5. Clear \in ApplyStage /\ Rewrite \in ApplyStage /\ Clear # Components
          /\ Rewrite # Components /\ Rewrite # Clear
      BY DEF Clear, Rewrite, Components, ApplyStage
    <2>6. \A i \in 1 .. Len(u) : i = 1 \/ i = 2
      BY <2>3
    <2>7. ApplyPlan(u)
      <3>1. InOrder(u, 1)
        <4>1. u[1 + 1] = Rewrite /\ 1 < Len(u)
          BY <2>3
        <4>2. QED
          BY <2>3, <2>5, <4>1 DEF InOrder
      <3>2. InOrder(u, 2)
        BY <2>3, <2>5 DEF InOrder
      <3>3. \A i \in 1 .. Len(u) : InOrder(u, i)
        BY <2>6, <3>1, <3>2
      <3>4. QED
        BY <3>3, PlanInOrder
    <2>8. QED
      <3>1. u \in Seq(Stage)
        BY <2>3, <2>4, SeqMonotonic
      <3>2. Has(u, Rewrite)
        BY <2>3 DEF Has
      <3>3. \A i \in 1 .. Len(u) : u[i] # Components
        BY <2>3, <2>5, <2>6
      <3>4. QED
        BY <2>7, <3>1, <3>2, <3>3
  <1>6. ApplyPlatform = ((Updates \o u) \o Makes) \o v
    BY DEF ApplyPlatform
  <1> HIDE DEF u, v, P
  \* What is said of each part, of a sequence of parts.
  <1> DEFINE Good(s) == /\ s \in Seq(Stage) /\ ApplyPlan(s)
                        /\ \A i \in 1 .. Len(s) : s[i] # Components
  <1>7. ASSUME NEW s, Good(s), NEW t, Good(t)
        PROVE  Good(s \o t) /\ \A x : Has(s, x) \/ Has(t, x) => Has(s \o t, x)
    <2> DEFINE w == s \o t
    <2>1. /\ w \in Seq(Stage) /\ Len(w) = Len(s) + Len(t)
          /\ Len(s) \in Nat /\ Len(t) \in Nat
          /\ \A i \in 1 .. Len(s) : w[i] = s[i]
          /\ \A i \in 1 .. Len(t) : w[Len(s) + i] = t[i]
      BY <1>7, ConcatAt
    <2>2. ApplyPlan(w)
      BY <1>7, ConcatApplyPlan
    <2>3. \A x : Has(s, x) \/ Has(t, x) => Has(w, x)
      BY <1>7, ConcatHas
    <2> HIDE DEF w
    <2>4. ASSUME NEW i \in 1 .. Len(w) PROVE w[i] # Components
      <3>1. CASE i <= Len(s)
        BY <1>7, <2>1, <3>1
      <3>2. CASE i > Len(s)
        <4>1. i - Len(s) \in 1 .. Len(t) /\ i = Len(s) + (i - Len(s))
          BY <2>1, <3>2
        <4>2. QED
          BY <1>7, <2>1, <4>1
      <3>3. QED
        BY <2>1, <3>1, <3>2
    <2>5. QED
      BY <2>1, <2>2, <2>3, <2>4 DEF w
  <1>8. Good(Updates) /\ Good(u) /\ Good(Makes) /\ Good(v)
    BY <1>2, <1>3, <1>4, <1>5
  <1>9. Good(Updates \o u) /\ \A x : Has(Updates, x) \/ Has(u, x) => Has(Updates \o u, x)
    BY <1>7, <1>8
  <1>10. /\ Good((Updates \o u) \o Makes)
         /\ \A x : Has(Updates \o u, x) \/ Has(Makes, x) => Has((Updates \o u) \o Makes, x)
    BY <1>7, <1>8, <1>9
  <1>11. /\ Good(ApplyPlatform)
         /\ \A x : Has((Updates \o u) \o Makes, x) \/ Has(v, x) => Has(ApplyPlatform, x)
    BY <1>6, <1>7, <1>8, <1>10
  <1>12. QED
    BY <1>4, <1>5, <1>9, <1>10, <1>11, UpdatesHas, MakesHas

LEMMA K8sStages ==
    /\ ApplyK8s \in Seq(Stage) /\ ApplyPlan(ApplyK8s) /\ Has(ApplyK8s, Components)
    /\ Len(ApplyK8s) = 3 /\ ApplyK8s[1] = Load
    /\ DeleteK8s \in Seq(Stage) /\ \A i \in 1 .. Len(DeleteK8s) : DeleteK8s[i] \in DeleteStage
  <1> DEFINE o == <<"load", "namespace", "components">>
             p == <<"load", "dropComponents", "dropNamespace">>
             S == {"load", "namespace", "components", "dropComponents", "dropNamespace"}
  <1>1. /\ o \in Seq(S) /\ Len(o) = 3
        /\ o[1] = "load" /\ o[2] = "namespace" /\ o[3] = "components"
        /\ p \in Seq(S) /\ Len(p) = 3
        /\ p[1] = "load" /\ p[2] = "dropComponents" /\ p[3] = "dropNamespace"
    OBVIOUS
  <1>2. ApplyK8s = All("k8s", o) /\ DeleteK8s = All("k8s", p)
    BY DEF ApplyK8s, DeleteK8s
  <1>3. {"k8s"} \X S \subseteq Stage
    BY DEF Stage
  <1> HIDE DEF o, p, S
  <1>4. /\ ApplyK8s \in Seq({"k8s"} \X S) /\ Len(ApplyK8s) = 3
        /\ ApplyK8s[1] = Load /\ ApplyK8s[2] = Namespace
        /\ ApplyK8s[3] = Components
        /\ DeleteK8s \in Seq({"k8s"} \X S) /\ Len(DeleteK8s) = 3
        /\ DeleteK8s[1] = Load /\ DeleteK8s[2] = <<"k8s", "dropComponents">>
        /\ DeleteK8s[3] = <<"k8s", "dropNamespace">>
    <2>1. /\ ApplyK8s \in Seq({"k8s"} \X S) /\ Len(ApplyK8s) = 3
          /\ \A i \in 1 .. 3 : ApplyK8s[i] = <<"k8s", o[i]>>
          /\ DeleteK8s \in Seq({"k8s"} \X S) /\ Len(DeleteK8s) = 3
          /\ \A i \in 1 .. 3 : DeleteK8s[i] = <<"k8s", p[i]>>
      <3>1. o \in Seq(S) /\ p \in Seq(S) /\ Len(o) = 3 /\ Len(p) = 3
        BY <1>1
      <3>2. ASSUME NEW q \in Seq(S), Len(q) = 3
            PROVE  /\ All("k8s", q) \in Seq({"k8s"} \X S) /\ Len(All("k8s", q)) = 3
                   /\ \A i \in 1 .. 3 : All("k8s", q)[i] = <<"k8s", q[i]>>
        BY <3>2, AllType
      <3>3. QED
        BY <1>2, <3>1, <3>2
    <2>2. QED
      BY <1>1, <2>1 DEF Load, Components, Namespace
  <1>5. ApplyK8s \in Seq(Stage) /\ DeleteK8s \in Seq(Stage)
    BY <1>3, <1>4, SeqMonotonic
  <1>6. \A i \in 1 .. 3 : i = 1 \/ i = 2 \/ i = 3
    OBVIOUS
  <1>7. /\ Load \in ApplyStage /\ Load \notin {Clear, Components}
        /\ Namespace \in ApplyStage /\ Namespace \notin {Clear, Components}
        /\ Components \in ApplyStage /\ Components # Clear
        /\ {Load, <<"k8s", "dropComponents">>, <<"k8s", "dropNamespace">>} \subseteq DeleteStage
    BY DEF Load, Clear, Components, Namespace, ApplyStage, DeleteStage
  <1>8. ApplyPlan(ApplyK8s)
    <2> DEFINE k == ApplyK8s
    <2>1. Len(k) = 3 /\ k[1] = Load /\ k[2] = Namespace /\ k[3] = Components
      BY <1>4
    <2> HIDE DEF k
    <2>2. InOrder(k, 1) /\ InOrder(k, 2)
      BY <1>7, <2>1 DEF InOrder
    <2>3. InOrder(k, 3)
      <3>1. k[3 - 1] = Namespace
        BY <2>1
      <3>2. QED
        BY <1>7, <2>1, <3>1 DEF InOrder
    <2>4. \A i \in 1 .. Len(k) : InOrder(k, i)
      BY <1>6, <2>1, <2>2, <2>3
    <2>5. QED
      BY <2>4, PlanInOrder DEF k
  <1>9. /\ Has(ApplyK8s, Components)
        /\ \A i \in 1 .. Len(DeleteK8s) : DeleteK8s[i] \in DeleteStage
    BY <1>4, <1>6, <1>7 DEF Has
  <1>10. QED
    BY <1>4, <1>5, <1>8, <1>9

LEMMA DeletePlatformPlan ==
    ASSUME NEW storage \in BOOLEAN
    PROVE  /\ DeletePlatform(storage) \in Seq(Stage)
           /\ \A what : DeletePlan(DeletePlatform(storage), what)
           /\ \A d \in Deployment : (d # "storage" \/ storage)
                 => Has(DeletePlatform(storage), <<"remove", d>>)
           /\ Has(DeletePlatform(storage), <<"policy", "clean">>)
           /\ Has(DeletePlatform(storage), <<"endpoint", "delete">>)
           /\ Len(DeletePlatform(storage)) > 0
           /\ DeletePlatform(storage)[Len(DeletePlatform(storage))] = <<"endpoint", "delete">>
  <1> DEFINE s == Removals(storage)
             t == <<<<"policy", "clean">>, <<"endpoint", "delete">>>>
             u == DeletePlatform(storage)
  <1>1. /\ s \in Seq(DeleteStage)
        /\ \A d \in Deployment : (d # "storage" \/ storage) => Has(s, <<"remove", d>>)
    <2>1. {"remove"} \X Deployment \subseteq DeleteStage
      BY DEF DeleteStage
    <2>2. QED
      BY <2>1, RemovalsHas, SeqMonotonic
  <1>2. /\ t \in Seq(DeleteStage) /\ Len(t) = 2
        /\ t[1] = <<"policy", "clean">> /\ t[2] = <<"endpoint", "delete">>
    BY DEF DeleteStage
  <1>3. u = s \o t
    BY DEF DeletePlatform
  <1> HIDE DEF s, t, u
  <1>4. Has(t, <<"policy", "clean">>) /\ Has(t, <<"endpoint", "delete">>)
    BY <1>2 DEF Has
  <1>5. /\ u \in Seq(DeleteStage) /\ Len(u) = Len(s) + 2 /\ Len(s) \in Nat
        /\ u[Len(s) + 2] = <<"endpoint", "delete">>
        /\ \A x : Has(s, x) \/ Has(t, x) => Has(u, x)
    <2>1. /\ s \o t \in Seq(DeleteStage) /\ Len(s \o t) = Len(s) + Len(t)
          /\ Len(s) \in Nat /\ \A i \in 1 .. Len(t) : (s \o t)[Len(s) + i] = t[i]
      <3>1. s \in Seq(DeleteStage) /\ t \in Seq(DeleteStage)
        BY <1>1, <1>2
      <3> HIDE <1>1, <1>2
      <3>2. QED
        BY <3>1, ConcatAt
    <2>2. (s \o t)[Len(s) + 2] = t[2]
      BY <1>2, <2>1
    <2>3. \A x : Has(s, x) \/ Has(t, x) => Has(s \o t, x)
      BY <1>1, <1>2, ConcatHas
    <2>4. QED
      BY <1>2, <1>3, <2>1, <2>2, <2>3
  <1>6. u \in Seq(Stage)
    BY <1>5, ApplyStageType, SeqMonotonic
  <1>7. \A what : DeletePlan(u, what)
    BY <1>5, ElementOfSeq DEF DeletePlan
  <1>8. QED
    BY <1>1, <1>4, <1>5, <1>6, <1>7 DEF u

LEMMA StagesPlan ==
    ASSUME NEW c \in AnyCommand
    PROVE  /\ IF c.verb = "apply" THEN ApplyPlan(Stages(c))
                                  ELSE DeletePlan(Stages(c), c.what)
           /\ (c.verb = "apply" /\ c.what # "k8s") =>
                 /\ \A d \in Deployment : Has(Stages(c), <<"update", d>>)
                 /\ Has(Stages(c), Rewrite)
                 /\ \A o \in Object \union {"namespace"} : Has(Stages(c), <<"make", o>>)
           /\ (c.verb = "apply" /\ c.what = "all") =>
                 /\ Has(Stages(c), Credentials) /\ Has(Stages(c), Components)
                 /\ Head(Stages(c)) # Components
           /\ (c.verb = "delete" /\ c.what # "k8s") =>
                 /\ \A d \in Deployment : (d # "storage" \/ c.storage)
                       => Has(Stages(c), <<"remove", d>>)
                 /\ Has(Stages(c), <<"policy", "clean">>)
                 /\ Has(Stages(c), <<"endpoint", "delete">>)
  <1> DEFINE p == ApplyPlatform
             k == ApplyK8s
  <1>1. /\ p \in Seq(Stage) /\ ApplyPlan(p) /\ Has(p, Rewrite) /\ Has(p, Credentials)
        /\ \A d \in Deployment : Has(p, <<"update", d>>)
        /\ \A o \in Object \union {"namespace"} : Has(p, <<"make", o>>)
        /\ \A i \in 1 .. Len(p) : p[i] # Components
        /\ Len(p) > 1 /\ Len(p) \in Nat
    BY ApplyPlatformPlan, ApplyPlatformType, LenProperties
  <1>2. /\ k \in Seq(Stage) /\ ApplyPlan(k) /\ Has(k, Components)
        /\ Len(k) = 3 /\ k[1] = Load /\ Load # Components
    BY K8sStages DEF Load, Components
  <1>3. /\ DeleteK8s \in Seq(Stage)
        /\ \A i \in 1 .. Len(DeleteK8s) : DeleteK8s[i] \in DeleteStage
    BY K8sStages
  <1>4. c.verb \in {"apply", "delete"} /\ c.what \in {"all", "platform", "k8s"}
        /\ c.storage \in BOOLEAN
    BY DEF AnyCommand
  <1>5. CASE c.verb = "apply" /\ c.what = "all"
    <2>1. Stages(c) = p \o k
      BY <1>5 DEF Stages, Optional
    <2> HIDE DEF p, k
    <2> DEFINE s == p \o k
    <2>2. /\ s \in Seq(Stage) /\ ApplyPlan(s)
          /\ \A x : Has(p, x) \/ Has(k, x) => Has(s, x)
          /\ Len(s) = Len(p) + 3 /\ s[1] = p[1]
      <3>1. ApplyPlan(s)
        BY <1>1, <1>2, ConcatApplyPlan
      <3>2. \A x : Has(p, x) \/ Has(k, x) => Has(s, x)
        BY <1>1, <1>2, ConcatHas
      <3>3. /\ s \in Seq(Stage) /\ Len(s) = Len(p) + Len(k)
            /\ \A i \in 1 .. Len(p) : s[i] = p[i]
        <4>1. p \in Seq(Stage) /\ k \in Seq(Stage)
          BY <1>1, <1>2
        <4> HIDE <1>1, <1>2
        <4>2. QED
          BY <4>1, ConcatAt
      <3>4. QED
        BY <1>1, <1>2, <3>1, <3>2, <3>3
    <2>3. Stages(c) = s
      BY <2>1
    <2> HIDE DEF s
    <2>4. Head(s) = s[1]
      BY <1>1, <2>2, HeadTailProperties, EmptySeq
    <2>5. QED
      BY <1>1, <1>2, <1>5, <2>2, <2>3, <2>4
  <1>6. CASE c.verb = "apply" /\ c.what = "platform"
    <2>1. Stages(c) = p \o << >>
      BY <1>6 DEF Stages, Optional
    <2>2. Stages(c) = p
      BY <1>1, <2>1, ConcatEmptySeq
    <2>3. QED
      BY <1>1, <1>6, <2>2
  <1>7. CASE c.verb = "apply" /\ c.what = "k8s"
    <2>1. Stages(c) = << >> \o k
      BY <1>7 DEF Stages, Optional
    <2>2. Stages(c) = k
      BY <1>2, <2>1, ConcatEmptySeq
    <2>3. QED
      BY <1>2, <1>7, <2>2
  <1>8. CASE c.verb = "delete" /\ c.what = "k8s"
    <2>1. Stages(c) = DeleteK8s \o << >>
      BY <1>8 DEF Stages, Optional
    <2>2. Stages(c) = DeleteK8s
      BY <1>3, <2>1, ConcatEmptySeq
    <2>3. DeletePlan(Stages(c), c.what)
      BY <1>3, <1>8, <2>2 DEF DeletePlan
    <2>4. QED
      BY <1>8, <2>3
  <1>9. CASE c.verb = "delete" /\ c.what # "k8s"
    <2> DEFINE m == DeleteK8s
               q == DeletePlatform(c.storage)
               s == m \o q
    <2>1. Stages(c) = s
      BY <1>9 DEF Stages, Optional
    <2>2. /\ q \in Seq(Stage) /\ DeletePlan(q, c.what)
          /\ \A d \in Deployment : (d # "storage" \/ c.storage) => Has(q, <<"remove", d>>)
          /\ Has(q, <<"policy", "clean">>) /\ Has(q, <<"endpoint", "delete">>)
          /\ Len(q) > 0 /\ Len(q) \in Nat /\ q[Len(q)] = <<"endpoint", "delete">>
      BY <1>4, DeletePlatformPlan, LenProperties
    <2>3. m \in Seq(Stage) /\ \A i \in 1 .. Len(m) : m[i] \in DeleteStage
      BY <1>3
    <2> HIDE DEF m, q
    <2>4. \A x : Has(q, x) => Has(s, x)
      BY <2>2, <2>3, ConcatHas
    <2>5. /\ Len(s) = Len(m) + Len(q) /\ Len(m) \in Nat
          /\ \A i \in 1 .. Len(m) : s[i] = m[i]
          /\ \A i \in 1 .. Len(q) : s[Len(m) + i] = q[i]
      BY <2>2, <2>3, ConcatAt
    <2> HIDE DEF s
    <2>6. s[Len(s)] = <<"endpoint", "delete">>
      BY <2>2, <2>5
    <2>7. ASSUME NEW i \in 1 .. Len(s) PROVE s[i] \in DeleteStage
      <3>1. CASE i <= Len(m)
        BY <2>3, <2>5, <3>1
      <3>2. CASE i > Len(m)
        <4>1. i - Len(m) \in 1 .. Len(q) /\ i = Len(m) + (i - Len(m))
          BY <2>2, <2>5, <3>2
        <4>2. QED
          BY <2>2, <2>5, <4>1 DEF DeletePlan
      <3>3. QED
        BY <2>5, <3>1, <3>2
    <2>8. QED
      BY <1>9, <2>1, <2>2, <2>4, <2>6, <2>7 DEF DeletePlan
  <1>10. QED
    BY <1>4, <1>5, <1>6, <1>7, <1>8, <1>9

\* What is left of a plan after its first stage.
LEMMA TailPlan ==
    ASSUME NEW s \in Seq(Stage), s # << >>
    PROVE  /\ ApplyPlan(s) =>
                 /\ ApplyPlan(Tail(s)) /\ Head(s) \in ApplyStage
                 /\ Head(s) = Clear => Has(Tail(s), Rewrite)
                 /\ (Tail(s) # << >> /\ Head(Tail(s)) = Components) => Head(s) = Namespace
           /\ \A what : DeletePlan(s, what) =>
                 DeletePlan(Tail(s), what) /\ Head(s) \in DeleteStage
           /\ \A x : Has(s, x) => x = Head(s) \/ Has(Tail(s), x)
           /\ \A x : Has(Tail(s), x) => Tail(s) # << >>
  <1> DEFINE t == Tail(s)
  <1>1. /\ Len(s) \in Nat /\ Len(s) > 0
        /\ t \in Seq(Stage) /\ Len(t) = Len(s) - 1
        /\ \A i \in 1 .. Len(t) : t[i] = s[i + 1]
        /\ Head(s) = s[1]
        /\ t = << >> <=> Len(t) = 0
        /\ t # << >> => Head(t) = t[1]
    <2>1. ASSUME NEW q \in Seq(Stage)
          PROVE  /\ Len(q) \in Nat /\ (q = << >> <=> Len(q) = 0)
                 /\ q # << >> => Head(q) = q[1]
      BY <2>1, HeadTailProperties, LenProperties, EmptySeq
    <2>2. /\ t \in Seq(Stage) /\ Len(t) = Len(s) - 1
          /\ \A i \in 1 .. Len(t) : t[i] = s[i + 1]
      BY HeadTailProperties
    <2> HIDE DEF t
    <2>3. QED
      BY <2>1, <2>2
  <1> HIDE DEF t
  <1>2. ASSUME ApplyPlan(s)
        PROVE  /\ ApplyPlan(t) /\ Head(s) \in ApplyStage
               /\ Head(s) = Clear => Has(t, Rewrite)
               /\ (t # << >> /\ Head(t) = Components) => Head(s) = Namespace
    <2>1. \A i \in 1 .. Len(s) : InOrder(s, i)
      BY <1>2, PlanInOrder
    <2>2. ASSUME NEW i \in 1 .. Len(t) PROVE InOrder(t, i)
      <3>1. i + 1 \in 1 .. Len(s) /\ t[i] = s[i + 1] /\ InOrder(s, i + 1)
        BY <1>1, <2>1
      <3>2. t[i] = Clear => i < Len(t) /\ t[i + 1] = Rewrite
        <4>1. t[i] = Clear => i + 1 < Len(s) /\ s[(i + 1) + 1] = Rewrite
          BY <3>1 DEF InOrder
        <4>2. i + 1 < Len(s) => i < Len(t) /\ i + 1 \in 1 .. Len(t)
          BY <1>1
        <4>3. QED
          BY <1>1, <4>1, <4>2
      <3>3. t[i] = Components => i = 1 \/ t[i - 1] = Namespace
        <4>1. t[i] = Components => s[i] = Namespace
          BY <3>1 DEF InOrder
        <4>2. i # 1 => i - 1 \in 1 .. Len(t) /\ t[i - 1] = s[i]
          BY <1>1
        <4>3. QED
          BY <4>1, <4>2
      <3>4. QED
        BY <3>1, <3>2, <3>3 DEF InOrder
    <2>3. InOrder(s, 1)
      BY <1>1, <2>1
    <2>4. Head(s) = Clear => Has(t, Rewrite)
      <3>1. Head(s) = Clear => 1 < Len(s) /\ s[1 + 1] = Rewrite
        BY <1>1, <2>3 DEF InOrder
      <3>2. 1 < Len(s) => 1 \in 1 .. Len(t) /\ t[1] = s[1 + 1]
        BY <1>1
      <3>3. QED
        BY <3>1, <3>2 DEF Has
    <2>5. (t # << >> /\ Head(t) = Components) => Head(s) = Namespace
      <3>1. t # << >> => 2 \in 1 .. Len(s) /\ t[1] = s[2]
        BY <1>1
      <3>2. ASSUME 2 \in 1 .. Len(s), s[2] = Components PROVE s[1] = Namespace
        <4>1. InOrder(s, 2)
          BY <2>1, <3>2
        <4>2. QED
          BY <3>2, <4>1 DEF InOrder
      <3>3. QED
        BY <1>1, <3>1, <3>2
    <2>6. ApplyPlan(t)
      BY <2>2, PlanInOrder
    <2>7. Head(s) \in ApplyStage
      BY <1>1, <2>3 DEF InOrder
    <2>8. QED
      BY <2>4, <2>5, <2>6, <2>7
  <1>3. ASSUME NEW what, DeletePlan(s, what)
        PROVE  DeletePlan(t, what) /\ Head(s) \in DeleteStage
    <2>1. \A i \in 1 .. Len(t) : i + 1 \in 1 .. Len(s) /\ t[i] = s[i + 1]
      BY <1>1
    <2>2. t # << >> => Len(t) \in 1 .. Len(t) /\ Len(t) + 1 = Len(s) /\ s # << >>
      BY <1>1
    <2>3. 1 \in 1 .. Len(s)
      BY <1>1
    <2>4. QED
      BY <1>1, <1>3, <2>1, <2>2, <2>3 DEF DeletePlan
  <1>4. ASSUME NEW x, Has(s, x), x # Head(s) PROVE Has(t, x)
    <2>1. PICK i \in 1 .. Len(s) : s[i] = x
      BY <1>4 DEF Has
    <2>2. i # 1
      BY <1>1, <1>4, <2>1
    <2>3. i - 1 \in 1 .. Len(t) /\ (i - 1) + 1 = i
      BY <1>1, <2>1, <2>2
    <2>4. QED
      BY <1>1, <2>1, <2>3 DEF Has
  <1>5. \A x : Has(t, x) => t # << >>
    BY <1>1 DEF Has
  <1>6. QED
    BY <1>2, <1>3, <1>4, <1>5 DEF t

-----------------------------------------------------------------------------
(* How a step of a run ends *)

Stays(r) == UNCHANGED <<status, todo, sound>>
Ends(r)  == /\ todo'[r] = Tail(todo[r])
            /\ status'[r] = IF Tail(todo[r]) = << >> THEN "ok" ELSE "running"
            /\ sound' = sound
Quits(r) == /\ todo'[r] = << >> /\ status'[r] = "failed" /\ sound' = sound \ {app[r]}
Skips(r) == /\ Ignored(r) /\ todo'[r] = DeletePlatform(cmd[r].storage)
            /\ status'[r] = "running" /\ sound' = sound \ {app[r]}
Clears(r) == r \notin mid' /\ waits'[r] = "running"

\* What Orderly says of a run.
Proper(r) ==
    /\ IF cmd[r].verb = "apply" THEN ApplyPlan(todo[r])
                                ELSE DeletePlan(todo[r], cmd[r].what)
    /\ IF r \in mid THEN Head(todo[r])[1] \in {"update", "remove", "policy"}
                    ELSE waits[r] = "running"

LEMMA Endings ==
    ASSUME AtType, NEW r \in Run, status[r] = "running"
    PROVE  /\ Done(r) => Ends(r) /\ Clears(r)
           /\ Fail(r) => (Quits(r) \/ Skips(r)) /\ Clears(r)
           /\ Fail(r) => (~ Ignored(r) => Quits(r))
           /\ Wait(r) => Stays(r) /\ waits' = waits /\ mid' = mid \union {r}
           /\ TryAgain(r) => Stays(r) /\ Clears(r)
           /\ Kill(r) => Quits(r) /\ Clears(r)
  <1>1. Done(r) => Ends(r) /\ Clears(r)
    BY DEF Done, Proceed, Forget, AtType, Ends, Clears
  <1>2. Fail(r) => Clears(r) /\ (~ Ignored(r) => Quits(r))
    BY DEF Fail, Proceed, Forget, AtType, Quits, Clears
  <1>3. Fail(r) /\ Ignored(r) => Skips(r)
    <2>1. cmd[r].storage \in BOOLEAN
      BY DEF AtType, AnyCommand
    <2>2. DeletePlatform(cmd[r].storage) # << >>
      BY <2>1, DeletePlatformType, EmptySeq
    <2>3. QED
      BY <2>2 DEF Fail, Proceed, AtType, Skips
  <1>4. QED
    BY <1>1, <1>2, <1>3 DEF Wait, TryAgain, Forget, AtType, Stays, Clears, Kill, Quits

LEMMA StaysOrEnds ==
    ASSUME AtType, NEW r \in Run, status[r] = "running", Ends(r)
    PROVE  todo' # todo
  <1>1. todo[r] \in Seq(Stage) /\ todo[r] # << >>
    BY HeadType DEF AtType
  <1>2. ASSUME NEW s \in Seq(Stage), s # << >> PROVE Tail(s) # s
    <2>1. Len(s) \in Nat /\ Len(Tail(s)) = Len(s) - 1
      BY <1>2, HeadTailProperties, LenProperties
    <2> DEFINE t == Tail(s)
    <2>2. Len(t) # Len(s)
      BY <2>1
    <2> HIDE DEF t
    <2>3. t # s
      BY <2>2
    <2>4. QED
      BY <2>3 DEF t
  <1>3. Tail(todo[r]) # todo[r]
    BY <1>1, <1>2
  <1>4. QED
    BY <1>3 DEF Ends

\* A failing call or a kill ends badly; at another verb, or in an apply, it ends
\* the command.
Breaks(r) == CallFails(r) \/ Kill(r)

LEMMA BreakKind ==
    ASSUME AtType, NEW r \in Run, Breaks(r)
    PROVE  /\ UNCHANGED world
           /\ (Quits(r) \/ Skips(r)) /\ Clears(r)
           /\ (cmd[r].verb = "apply" \/ ~ At(r, "k8s")) => Quits(r)
           /\ left' = left
  BY Endings DEF Breaks, CallFails, Kill, Ignored

\* Which actions there are for each stage.
LEMMA ByVerb ==
    ASSUME NEW r \in Run, Kfctl(r) \/ Kill(r)
    PROVE  /\ At(r, "update") => UpdateDeployment(r) \/ BlockingWait(r) \/ Breaks(r)
           /\ At(r, "remove") => DeleteDeployment(r) \/ BlockingWait(r) \/ Breaks(r)
           /\ At(r, "policy") => \/ ReadPolicy(r) \/ SetIamPolicy(r) \/ PolicyFails(r)
                                 \/ Breaks(r)
           /\ At(r, "make") => MakeObject(r) \/ Breaks(r)
           /\ AtStage(r, "credentials", "get") => GetCredentials(r) \/ Breaks(r)
           /\ AtStage(r, "endpoint", "delete") => DeleteEndpoints(r) \/ Breaks(r)
           /\ AtStage(r, "k8s", "namespace") => KsNamespace(r) \/ Breaks(r)
           /\ AtStage(r, "k8s", "components") =>
                 (\E c \in Component : ApplyComponent(r, c)) \/ Breaks(r)
  <1> USE DEF At, AtStage
  <1>1. UpdateDeployment(r) => At(r, "update")
    BY DEF UpdateDeployment
  <1>2. DeleteDeployment(r) => At(r, "remove")
    BY DEF DeleteDeployment
  <1>3. BlockingWait(r) => At(r, "update") \/ At(r, "remove")
    BY DEF BlockingWait
  <1>4. ReadPolicy(r) \/ SetIamPolicy(r) \/ PolicyFails(r) => At(r, "policy")
    BY DEF ReadPolicy, SetIamPolicy, PolicyFails
  <1>5. MakeObject(r) => At(r, "make")
    BY DEF MakeObject
  <1>6. /\ GetCredentials(r) => AtStage(r, "credentials", "get")
        /\ DeleteEndpoints(r) => AtStage(r, "endpoint", "delete")
        /\ GetPackageManagers(r) => AtStage(r, "k8s", "load")
        /\ KsNamespace(r) => AtStage(r, "k8s", "namespace")
        /\ \A c \in Component : ApplyComponent(r, c) => AtStage(r, "k8s", "components")
        /\ DropComponents(r) => AtStage(r, "k8s", "dropComponents")
        /\ DropNamespace(r) => AtStage(r, "k8s", "dropNamespace")
    BY DEF GetCredentials, DeleteEndpoints, GetPackageManagers, KsNamespace,
           ApplyComponent, DropComponents, DropNamespace
  <1>7. QED
    BY <1>1, <1>2, <1>3, <1>4, <1>5, <1>6 DEF Kfctl, Breaks

\* Of a run that stays, what it is in the middle of.
Middle(r) ==
    \/ /\ mid' = mid \union {r} /\ waits' = waits
       /\ At(r, "update") \/ At(r, "remove") \/ At(r, "policy")
    \/ Clears(r)
    \/ UNCHANGED <<mid, waits>>

LEMMA Outcomes ==
    ASSUME AtType, NEW r \in Run, Proper(r), Kfctl(r) \/ Kill(r)
    PROVE  /\ status[r] = "running"
           /\ \/ Stays(r) /\ Middle(r)
              \/ (Ends(r) \/ Quits(r) \/ Skips(r)) /\ Clears(r)
  <1> DEFINE G == \/ Stays(r) /\ Middle(r)
                  \/ (Ends(r) \/ Quits(r) \/ Skips(r)) /\ Clears(r)
  <1>1. status[r] = "running"
    BY KeepsOthers
  <1> SUFFICES G
    BY <1>1
  <1>2. (Done(r) \/ Fail(r) \/ Answer(r) \/ TryAgain(r) \/ Breaks(r)) => G
    BY <1>1, Endings, BreakKind DEF Answer, Middle
  <1>3. Wait(r) /\ (At(r, "update") \/ At(r, "remove")) => G
    BY <1>1, Endings DEF Middle
  <1>4. CASE UpdateDeployment(r) \/ DeleteDeployment(r) \/ BlockingWait(r)
    BY <1>2, <1>3, <1>4 DEF UpdateDeployment, DeleteDeployment, BlockingWait, Send, Join
  <1>5. CASE ReadPolicy(r)
    BY <1>5 DEF ReadPolicy, Stays, Middle, history
  <1>6. CASE SetIamPolicy(r) \/ PolicyFails(r)
    BY <1>2, <1>6 DEF SetIamPolicy, PolicyFails
  <1>7. CASE \/ MakeObject(r) \/ GetCredentials(r) \/ KsNamespace(r) \/ DropComponents(r)
             \/ DropNamespace(r) \/ DeleteEndpoints(r) \/ Breaks(r)
    BY <1>2, <1>7 DEF MakeObject, GetCredentials, KsNamespace, DropComponents,
                      DropNamespace, DeleteEndpoints
  <1>8. ASSUME NEW c \in Component, ApplyComponent(r, c) PROVE G
    BY <1>2, <1>8 DEF ApplyComponent, Stays, Middle
  <1>9. ASSUME GetPackageManagers(r) PROVE G
    <2>1. Head(todo[r]) = Load /\ Tail(todo[r]) # << >>
      BY <1>1, <1>9, HeadType DEF GetPackageManagers, AtStage, Load
    <2>2. r \notin mid /\ waits[r] = "running"
      BY <2>1 DEF Proper, Load
    <2>3. QED
      BY <1>1, <1>9, <2>1, <2>2
         DEF GetPackageManagers, Ends, Clears, AtType, history
  <1>10. QED
    BY <1>1, <1>4, <1>5, <1>6, <1>7, <1>8, <1>9 DEF Kfctl, Breaks

\* The waits of other runs are not touched.
LEMMA WaitsKept ==
    ASSUME AtType, NEW r \in Run, Kfctl(r) \/ Kill(r), NEW s \in Run, s # r
    PROVE  waits'[s] = waits[s]
  <1> DEFINE G == waits'[s] = waits[s]
  <1>1. (Done(r) \/ Fail(r) \/ Answer(r) \/ TryAgain(r) \/ Wait(r) \/ Kill(r)) => G
    BY DEF Done, Fail, Answer, Proceed, TryAgain, Wait, Kill, Forget, AtType
  <1>2. CASE UpdateDeployment(r) \/ DeleteDeployment(r) \/ BlockingWait(r)
    BY <1>1, <1>2 DEF UpdateDeployment, DeleteDeployment, BlockingWait, Send, Join
  <1>3. CASE ReadPolicy(r) \/ GetPackageManagers(r)
    BY <1>3 DEF ReadPolicy, GetPackageManagers
  <1>4. CASE \/ SetIamPolicy(r) \/ PolicyFails(r)
             \/ MakeObject(r) \/ GetCredentials(r) \/ KsNamespace(r) \/ DropComponents(r)
             \/ DropNamespace(r) \/ DeleteEndpoints(r) \/ CallFails(r) \/ Kill(r)
    BY <1>1, <1>4 DEF SetIamPolicy, PolicyFails, MakeObject, GetCredentials, KsNamespace,
                      DropComponents, DropNamespace, DeleteEndpoints, CallFails
  <1>5. ASSUME NEW c \in Component, ApplyComponent(r, c) PROVE G
    BY <1>1, <1>5 DEF ApplyComponent
  <1>6. QED
    BY <1>2, <1>3, <1>4, <1>5 DEF Kfctl

-----------------------------------------------------------------------------
(* What deployment manager is asked, and what it does *)

LEMMA SubmitEffect ==
    ASSUME AtType, DmType, NEW r \in Run, NEW d \in Deployment, NEW op, NEW sent,
           Submit(r, d, op, sent), NEW a \in App, NEW e \in Deployment
    PROVE  /\ (a = app[r] /\ e = d) =>
                 dm'[a][e].op = op /\ dm'[a][e].sent = sent
           /\ ~ (a = app[r] /\ e = d) => dm'[a][e] = dm[a][e]
           /\ dm'[a][e].live = dm[a][e].live
  <1> DEFINE one == [dm[app[r]][d] EXCEPT !.op = op, !.sent = sent]
             D == [op: {"none", "applying", "deleting", "done"},
                   sent: 0 .. (MaxMoves + 1), live: 0 .. (MaxMoves + 1)]
  <1>1. dm \in [App -> [Deployment -> D]] /\ app[r] \in App
    BY DEF DmType, AtType
  <1>2. dm' = [dm EXCEPT ![app[r]] = [dm[app[r]] EXCEPT ![d] = one]]
    BY <1>1 DEF Submit
  <1>3. one.op = op /\ one.sent = sent /\ one.live = dm[app[r]][d].live
    <2>1. dm[app[r]][d] \in D
      BY <1>1
    <2>2. QED
      BY <2>1
  <1> HIDE DEF one, D
  <1>4. /\ (a = app[r] /\ e = d) => dm'[a][e] = one
        /\ ~ (a = app[r] /\ e = d) => dm'[a][e] = dm[a][e]
    BY <1>1, <1>2
  <1>5. QED
    BY <1>3, <1>4

\* The three ways a step of a run can be about its deployment.
LEMMA DmChanges ==
    ASSUME AtType, NEW r \in Run, Kfctl(r) \/ Kill(r)
    PROVE  \/ UNCHANGED dm
           \/ /\ At(r, "update") /\ r \notin mid
              /\ Send(r, Head(todo[r])[2])
              /\ Head(todo[r])[2] \in Deployment
           \/ /\ At(r, "remove") /\ r \notin mid
              /\ Head(todo[r])[2] \in Deployment
              /\ dm[app[r]][Head(todo[r])[2]].op = "done"
              /\ Submit(r, Head(todo[r])[2], "deleting", 0)
              /\ Wait(r) \/ Fail(r)
  <1>1. CASE UpdateDeployment(r)
    BY <1>1, ObjectType DEF UpdateDeployment, Join, world
  <1>2. CASE DeleteDeployment(r)
    BY <1>2, ObjectType DEF DeleteDeployment, world
  <1>3. CASE \/ BlockingWait(r) \/ ReadPolicy(r) \/ PolicyFails(r) \/ GetPackageManagers(r)
             \/ CallFails(r) \/ Kill(r)
    BY <1>3 DEF BlockingWait, ReadPolicy, PolicyFails, GetPackageManagers, CallFails, Kill,
                world
  <1>4. CASE \/ SetIamPolicy(r) \/ MakeObject(r) \/ GetCredentials(r) \/ KsNamespace(r)
             \/ (\E c \in Component : ApplyComponent(r, c))
             \/ DropComponents(r) \/ DropNamespace(r) \/ DeleteEndpoints(r)
    BY <1>4 DEF SetIamPolicy, MakeObject, GetCredentials, KsNamespace, ApplyComponent,
                DropComponents, DropNamespace, DeleteEndpoints
  <1>5. QED
    BY <1>1, <1>2, <1>3, <1>4 DEF Kfctl

LEMMA OpEndsEffect ==
    ASSUME AtType, DmType, NEW b \in App, NEW d \in Deployment, NEW ok \in BOOLEAN,
           OpEnds(b, d, ok), NEW a \in App, NEW e \in Deployment
    PROVE  /\ ~ (a = b /\ e = d) => dm'[a][e] = dm[a][e]
           /\ (a = b /\ e = d) =>
                 /\ dm'[a][e].op = IF ok /\ dm[a][e].op = "deleting" THEN "none" ELSE "done"
                 /\ dm'[a][e].live = IF ok THEN dm[a][e].sent ELSE dm[a][e].live
                 /\ Busy(a, e)
  <1> DEFINE D == [op: {"none", "applying", "deleting", "done"},
                   sent: 0 .. (MaxMoves + 1), live: 0 .. (MaxMoves + 1)]
             was == dm[b][d]
             one == [op |-> IF ok /\ was.op = "deleting" THEN "none" ELSE "done",
                     sent |-> IF ok THEN was.sent ELSE 0,
                     live |-> IF ok THEN was.sent ELSE was.live]
  <1>1. dm \in [App -> [Deployment -> D]]
    BY DEF DmType
  <1>2. dm' = [dm EXCEPT ![b] = [dm[b] EXCEPT ![d] = one]]
    BY <1>1 DEF OpEnds
  <1>3. /\ one.op = IF ok /\ was.op = "deleting" THEN "none" ELSE "done"
        /\ one.live = IF ok THEN was.sent ELSE was.live
        /\ Busy(b, d)
    BY DEF OpEnds
  <1> HIDE DEF one, D
  <1>4. /\ (a = b /\ e = d) => dm'[a][e] = one
        /\ ~ (a = b /\ e = d) => dm'[a][e] = dm[a][e]
    BY <1>1, <1>2
  <1>5. QED
    BY <1>3, <1>4

-----------------------------------------------------------------------------
(* The order of stages is kept. *)

LEMMA OrderlyParts ==
    Orderly <=> /\ \A r \in Run : Proper(r)
                /\ \A a \in App, d \in Deployment :
                      /\ dm[a][d].op = "none" => dm[a][d].live = 0
                      /\ dm[a][d].op = "deleting" => dm[a][d].sent = 0
  BY DEF Orderly, Proper

LEMMA OrderlyPartsNext ==
    Orderly' <=> /\ \A r \in Run : Proper(r)'
                 /\ \A a \in App, d \in Deployment :
                       /\ dm'[a][d].op = "none" => dm'[a][d].live = 0
                       /\ dm'[a][d].op = "deleting" => dm'[a][d].sent = 0
  BY DEF Orderly, Proper

LEMMA ProperStep ==
    ASSUME AtType, NEW r \in Run, Kfctl(r) \/ Kill(r), \A s \in Run : Proper(s)
    PROVE  \A s \in Run : Proper(s)'
  <1>1. /\ status[r] = "running" /\ OthersAsBefore(r) /\ UNCHANGED cmd
        /\ \/ Stays(r) /\ Middle(r)
           \/ (Ends(r) \/ Quits(r) \/ Skips(r)) /\ Clears(r)
    BY KeepsOthers, Outcomes
  <1>2. /\ todo[r] \in Seq(Stage) /\ todo[r] # << >> /\ cmd[r].storage \in BOOLEAN
    BY <1>1, HeadType DEF AtType, AnyCommand
  <1>3. ASSUME NEW s \in Run \ {r} PROVE Proper(s)'
    <2>1. UNCHANGED <<todo[s], waits[s], cmd>> /\ (s \in mid' <=> s \in mid)
      BY <1>1, WaitsKept DEF OthersAsBefore
    <2>2. QED
      BY <2>1 DEF Proper
  <1>4. CASE Stays(r) /\ Middle(r)
    <2>1. Proper(r)'
      BY <1>1, <1>4 DEF Stays, Middle, Clears, Proper, At
    <2>2. QED
      BY <1>3, <2>1
  <1>5. CASE (Ends(r) \/ Quits(r) \/ Skips(r)) /\ Clears(r)
    <2> SUFFICES IF cmd[r].verb = "apply" THEN ApplyPlan(todo'[r])
                                          ELSE DeletePlan(todo'[r], cmd[r].what)
      BY <1>1, <1>3, <1>5 DEF Proper, Clears
    <2>1. CASE Ends(r)
      BY <1>2, <2>1, TailPlan DEF Ends, Proper
    <2>2. CASE Quits(r)
      <3>1. Len(<< >>) = 0
        BY EmptySeq
      <3>2. ApplyPlan(<< >>) /\ DeletePlan(<< >>, cmd[r].what)
        BY <3>1 DEF ApplyPlan, DeletePlan
      <3>3. QED
        BY <2>2, <3>2 DEF Quits
    <2>3. CASE Skips(r)
      BY <1>2, <2>3, DeletePlatformPlan DEF Skips, Ignored
    <2>4. QED
      BY <1>5, <2>1, <2>2, <2>3
  <1>6. QED
    BY <1>1, <1>3, <1>4, <1>5

LEMMA OrderlyStep == TypeOK /\ Orderly /\ [Next]_vars => Orderly'
  <1> SUFFICES ASSUME TypeOK, Orderly, [Next]_vars PROVE Orderly'
    OBVIOUS
  <1>1. AtType /\ WorkType /\ DmType
    BY TypeParts DEF WorkType
  <1>2. /\ \A r \in Run : Proper(r)
        /\ \A a \in App, d \in Deployment :
              /\ dm[a][d].op = "none" => dm[a][d].live = 0
              /\ dm[a][d].op = "deleting" => dm[a][d].sent = 0
    BY OrderlyParts
  <1>3. ASSUME NEW r \in Run, Kfctl(r) \/ Kill(r) PROVE Orderly'
    <2>1. \A s \in Run : Proper(s)'
      BY <1>1, <1>2, <1>3, ProperStep
    <2>2. ASSUME NEW a \in App, NEW d \in Deployment
          PROVE  /\ dm'[a][d].op = "none" => dm'[a][d].live = 0
                 /\ dm'[a][d].op = "deleting" => dm'[a][d].sent = 0
      <3> DEFINE e == Head(todo[r])[2]
      <3>1. \/ UNCHANGED dm
            \/ e \in Deployment /\ \/ Submit(r, e, "applying", gen[app[r]])
                                   \/ Submit(r, e, "deleting", 0)
        BY <1>1, <1>3, DmChanges DEF Send
      <3> HIDE DEF e
      <3>2. CASE UNCHANGED dm
        BY <1>2, <3>2
      <3>3. CASE e \in Deployment /\ Submit(r, e, "applying", gen[app[r]])
        BY <1>1, <1>2, <3>3, SubmitEffect
      <3>4. CASE e \in Deployment /\ Submit(r, e, "deleting", 0)
        BY <1>1, <1>2, <3>4, SubmitEffect
      <3>5. QED
        BY <3>1, <3>2, <3>3, <3>4
    <2>3. QED
      BY <2>1, <2>2, OrderlyPartsNext
  <1>4. ASSUME NEW r \in Run, NEW c \in Command, NEW b \in App, Start(r, c, b)
        PROVE  Orderly'
    <2>1. c \in AnyCommand
      OBVIOUS
    <2>2. IF c.verb = "apply" THEN ApplyPlan(Stages(c)) ELSE DeletePlan(Stages(c), c.what)
      BY <2>1, StagesPlan
    <2>3. r \notin mid /\ UNCHANGED <<mid, waits, dm>>
      BY <1>1, <1>4 DEF Start, AtType, world
    <2>4. cmd'[r] = c /\ todo'[r] = Stages(c)
      BY <1>1, <1>4 DEF Start, AtType
    <2>5. ASSUME NEW s \in Run \ {r} PROVE cmd'[s] = cmd[s] /\ todo'[s] = todo[s]
      BY <1>1, <1>4 DEF Start, AtType
    <2>6. \A s \in Run : Proper(s)'
      <3>1. Proper(r)'
        BY <1>2, <2>2, <2>3, <2>4 DEF Proper
      <3>2. ASSUME NEW s \in Run \ {r} PROVE Proper(s)'
        BY <1>2, <2>3, <2>5 DEF Proper
      <3>3. QED
        BY <3>1, <3>2
    <2>7. QED
      BY <1>2, <2>3, <2>6, OrderlyPartsNext
  <1>5. ASSUME NEW b \in App, NEW d \in Deployment, NEW ok \in BOOLEAN, OpEnds(b, d, ok)
        PROVE  Orderly'
    <2>1. UNCHANGED <<cmd, todo, mid>>
      BY <1>5 DEF OpEnds
    <2>2. \A s \in Run : s \notin mid => waits'[s] = waits[s]
      BY <1>1, <1>5 DEF OpEnds, Waiting, AtType
    <2>3. \A s \in Run : Proper(s)'
      BY <1>2, <2>1, <2>2 DEF Proper
    <2>4. ASSUME NEW a \in App, NEW e \in Deployment
          PROVE  /\ dm'[a][e].op = "none" => dm'[a][e].live = 0
                 /\ dm'[a][e].op = "deleting" => dm'[a][e].sent = 0
      BY <1>1, <1>2, <1>5, OpEndsEffect
    <2>5. QED
      BY <2>3, <2>4, OrderlyPartsNext
  <1>6. ASSUME UNCHANGED <<cmd, todo, mid, waits, dm>> PROVE Orderly'
    BY <1>6 DEF Orderly
  <1>7. CASE \/ OutsideEdit
             \/ \E a \in App : Generate(a) \/ NamespaceGone(a) \/ EndpointAppears(a)
             \/ UNCHANGED vars
    BY <1>6, <1>7 DEF OutsideEdit, Generate, NamespaceGone, EndpointAppears, vars,
                      world, local
  <1>8. QED
    BY <1>3, <1>4, <1>5, <1>7 DEF Next

-----------------------------------------------------------------------------
(* What applies of one application come to *)

Deployed(a, d) ==
    /\ Busy(a, d) => dm[a][d].op = "applying" /\ dm[a][d].sent = gen[a]
    /\ dm[a][d].live = gen[a] \/ Coming(a, <<"update", d>>)
    /\ \A r \in mid : (app[r] = a /\ Head(todo[r]) = <<"update", d>>
                      /\ waits[r] = "ok") => dm[a][d].live = gen[a]
InCluster(a) ==
    /\ kube[a].ns # "terminating"
    /\ kube[a].ns = "active" \/ Coming(a, <<"make", "namespace">>)
    /\ \A o \in Object : o \in kube[a].made \/ Coming(a, <<"make", o>>)

\* What Agreeing says of an application.
Agree(a) ==
    /\ \A r \in Running : cmd[r].verb = "apply"
    /\ \A d \in Deployment : Deployed(a, d)
    /\ MembersOf(a) \subseteq policy \/ Coming(a, Rewrite)
    /\ InCluster(a)

LEMMA AgreeParts == Agreeing <=> \A a \in sound : Agree(a)
  BY DEF Agreeing, Agree, Deployed, InCluster, Rewrite

LEMMA AgreePartsNext == Agreeing' <=> \A a \in sound' : Agree(a)'
  BY DEF Agreeing, Agree, Deployed, InCluster, Rewrite

LEMMA ComingHas ==
    \A a, x : Coming(a, x) <=> \E r \in Running : app[r] = a /\ Has(todo[r], x)
  BY DEF Coming, Due, Has

LEMMA ComingHasNext ==
    \A a, x : Coming(a, x)' <=> \E r \in Running' : app'[r] = a /\ Has(todo'[r], x)
  BY DEF Coming, Due, Has

\* The steps that runs take while an application is in sound.
LEMMA ApplyStep ==
    ASSUME AtType, \A s \in Run : Proper(s), NEW a \in sound \intersect sound', Agree(a),
           NEW r \in Run, Kfctl(r) \/ Kill(r)
    PROVE  /\ status[r] = "running" /\ cmd[r].verb = "apply"
           /\ Head(todo[r]) \in ApplyStage /\ ApplyPlan(todo[r])
           /\ \/ Stays(r) /\ Middle(r)
              \/ Ends(r) /\ Clears(r)
              \/ Quits(r) /\ Clears(r) /\ app[r] # a
           /\ app[r] = a => ~ Breaks(r)
           /\ \A x : Coming(a, x) => \/ Coming(a, x)'
                                     \/ app[r] = a /\ Ends(r) /\ Head(todo[r]) = x
  <1>1. /\ status[r] = "running" /\ OthersAsBefore(r) /\ UNCHANGED <<cmd, app, alone>>
        /\ \/ Stays(r) /\ Middle(r)
           \/ (Ends(r) \/ Quits(r) \/ Skips(r)) /\ Clears(r)
    BY KeepsOthers, Outcomes
  <1>2. cmd[r].verb = "apply" /\ r \in Running
    BY <1>1 DEF Agree, Running
  <1>3. todo[r] \in Seq(Stage) /\ todo[r] # << >> /\ ApplyPlan(todo[r])
    BY <1>1, <1>2, HeadType DEF AtType, Proper
  <1>4. /\ Head(todo[r]) \in ApplyStage
        /\ \A x : Has(todo[r], x) => x = Head(todo[r]) \/ Has(Tail(todo[r]), x)
        /\ \A x : Has(Tail(todo[r]), x) => Tail(todo[r]) # << >>
    BY <1>3, TailPlan
  <1>5. ~ Skips(r) /\ (Quits(r) => app[r] # a)
    BY <1>2 DEF Skips, Ignored, Quits
  <1>6. app[r] = a => ~ Breaks(r)
    BY <1>2, <1>5, BreakKind
  <1>7. ASSUME NEW x, Coming(a, x)
        PROVE  Coming(a, x)' \/ (app[r] = a /\ Ends(r) /\ Head(todo[r]) = x)
    <2>1. PICK s \in Running : app[s] = a /\ Has(todo[s], x)
      BY <1>7, ComingHas
    <2>2. CASE s # r
      <3>1. s \in Running' /\ todo'[s] = todo[s] /\ app'[s] = a
        BY <1>1, <2>1, <2>2 DEF OthersAsBefore, Running
      <3>2. QED
        BY <2>1, <3>1, ComingHasNext
    <2>3. CASE s = r /\ Stays(r)
      <3>1. r \in Running' /\ todo'[r] = todo[r] /\ app'[r] = a
        BY <1>1, <2>1, <2>3 DEF Stays, Running
      <3>2. QED
        BY <2>1, <2>3, <3>1, ComingHasNext
    <2>4. CASE s = r /\ Ends(r) /\ x # Head(todo[r])
      <3>1. Has(Tail(todo[r]), x) /\ Tail(todo[r]) # << >>
        BY <1>4, <2>1, <2>4
      <3>2. r \in Running' /\ todo'[r] = Tail(todo[r]) /\ app'[r] = a
        BY <1>1, <2>1, <2>4, <3>1 DEF Ends, Running
      <3>3. QED
        BY <3>1, <3>2, ComingHasNext
    <2>5. QED
      BY <1>1, <1>5, <2>1, <2>2, <2>3, <2>4
  <1>8. QED
    BY <1>1, <1>2, <1>3, <1>4, <1>5, <1>6, <1>7

\* What an apply does to clusters, its own and, by the package manager, others.
LEMMA ApplyGrows ==
    ASSUME AtType, WorkType, NEW r \in Run, Kfctl(r) \/ Kill(r),
           Head(todo[r]) \in ApplyStage, NEW a \in App
    PROVE  /\ kube[a].made \subseteq kube'[a].made
           /\ kube[a].comps \subseteq kube'[a].comps
           /\ kube[a].ns = "active" => kube'[a].ns = "active"
           /\ kube[a].ns # "terminating" => kube'[a].ns # "terminating"
           /\ (At(r, "make") /\ app[r] = a /\ ~ Breaks(r)) =>
                 /\ Head(todo[r])[2] = "namespace" => kube'[a].ns # "none"
                 /\ Head(todo[r])[2] \in Object =>
                       Head(todo[r])[2] \in kube'[a].made
  <1> DEFINE G == /\ kube[a].made \subseteq kube'[a].made
                  /\ kube[a].comps \subseteq kube'[a].comps
                  /\ kube[a].ns = "active" => kube'[a].ns = "active"
                  /\ kube[a].ns # "terminating" => kube'[a].ns # "terminating"
             K == [ns: {"none", "active", "terminating"},
                   made: SUBSET Object, comps: SUBSET Component]
             o == Head(todo[r])[2]
  <1>1. kube \in [App -> K] /\ app[r] \in App
    BY DEF WorkType, KubeType, AtType
  <1>2. ASSUME UNCHANGED kube PROVE G
    BY <1>2
  <1>3. ASSUME NEW b \in App,
               kube' = [kube EXCEPT ![b].ns = IF @ = "none" THEN "active" ELSE @]
        PROVE  G /\ kube'[b].ns # "none"
    BY <1>1, <1>3
  <1>4. ASSUME MakeObject(r)
        PROVE  /\ G
               /\ app[r] = a => /\ o = "namespace" => kube'[a].ns # "none"
                                /\ o \in Object => o \in kube'[a].made
    <2>1. CASE /\ o = "namespace"
               /\ kube' = [kube EXCEPT ![app[r]].ns = IF @ = "none" THEN "active" ELSE @]
      <3>1. o \notin Object
        BY <2>1 DEF Object
      <3>2. QED
        BY <1>1, <1>3, <2>1, <3>1
    <2>2. CASE /\ o # "namespace"
               /\ kube' = [kube EXCEPT ![app[r]].made = @ \union {o}]
      BY <1>1, <2>2
    <2>3. QED
      BY <1>4, <2>1, <2>2 DEF MakeObject
  <1>5. KsNamespace(r) => G
    BY <1>3 DEF KsNamespace, Up
  <1>6. ASSUME NEW c \in Component, ApplyComponent(r, c) PROVE G
    <2>1. kube' = [kube EXCEPT ![target[r]].comps = @ \union {c}]
      BY <1>6 DEF ApplyComponent
    <2>2. QED
      BY <1>1, <2>1
  <1>7. ~ DropComponents(r) /\ ~ DropNamespace(r)
    BY DEF DropComponents, DropNamespace, AtStage, ApplyStage, Credentials
  <1>8. ASSUME \/ UpdateDeployment(r) \/ DeleteDeployment(r) \/ BlockingWait(r)
               \/ ReadPolicy(r) \/ SetIamPolicy(r) \/ PolicyFails(r)
               \/ GetCredentials(r) \/ GetPackageManagers(r) \/ DeleteEndpoints(r)
               \/ CallFails(r) \/ Kill(r)
        PROVE  G
    <2>1. UNCHANGED kube
      BY <1>8
         DEF UpdateDeployment, DeleteDeployment, BlockingWait, ReadPolicy, SetIamPolicy,
             PolicyFails, GetCredentials, GetPackageManagers, DeleteEndpoints,
             CallFails, Kill, Send, Join, Submit, world
    <2>2. QED
      BY <1>2, <2>1
  <1> HIDE DEF G
  <1>9. G
    BY <1>4, <1>5, <1>6, <1>7, <1>8 DEF Kfctl
  <1>10. (At(r, "make") /\ ~ Breaks(r)) => MakeObject(r)
    BY ByVerb
  <1>11. QED
    BY <1>4, <1>9, <1>10 DEF G

LEMMA RunAgrees ==
    ASSUME TypeOK, CopyCurrent, \A s \in Run : Proper(s),
           NEW a \in sound \intersect sound', Agree(a),
           NEW r \in Run, Kfctl(r) \/ Kill(r)
    PROVE  Agree(a)'
  <1>0. AtType /\ WorkType /\ DmType /\ a \in App /\ AtType' /\ WorkType'
    <2>1. TypeOK'
      BY TypeStep DEF Next
    <2>2. QED
      BY <2>1, TypeParts, TypePartsNext DEF WorkType
  <1>1. /\ status[r] = "running" /\ cmd[r].verb = "apply"
        /\ Head(todo[r]) \in ApplyStage /\ ApplyPlan(todo[r])
        /\ \/ Stays(r) /\ Middle(r)
           \/ Ends(r) /\ Clears(r)
           \/ Quits(r) /\ Clears(r) /\ app[r] # a
        /\ app[r] = a => ~ Breaks(r)
        /\ \A x : Coming(a, x) => \/ Coming(a, x)'
                                  \/ app[r] = a /\ Ends(r) /\ Head(todo[r]) = x
    BY <1>0, ApplyStep
  <1>2. OthersAsBefore(r) /\ UNCHANGED <<cmd, app>>
    BY <1>0, KeepsOthers
  <1>3. \A s \in Running' : cmd'[s].verb = "apply"
    <2>1. Running' \subseteq Running
      BY <1>1, <1>2 DEF Running, OthersAsBefore
    <2>2. QED
      BY <1>2, <2>1 DEF Agree
  <1>4. ASSUME NEW d \in Deployment PROVE Deployed(a, d)'
    <2> DEFINE e == Head(todo[r])[2]
    <2>1. Deployed(a, d)
      BY DEF Agree
    <2>2. \/ UNCHANGED dm
          \/ At(r, "update") /\ e \in Deployment /\ Submit(r, e, "applying", gen[app[r]])
      <3>1. ~ At(r, "remove")
        BY <1>1 DEF At, ApplyStage, Credentials
      <3>2. QED
        BY <1>0, <3>1, DmChanges DEF Send
    <2>3. gen' = gen
      BY DEF Kfctl, Kill, UpdateDeployment, DeleteDeployment, BlockingWait, ReadPolicy,
             SetIamPolicy, PolicyFails, MakeObject, GetCredentials, GetPackageManagers,
             KsNamespace, ApplyComponent, DropComponents, DropNamespace,
             DeleteEndpoints, CallFails, Send, Join, Submit, world
    <2>4. /\ dm'[a][d].live = dm[a][d].live
          /\ Busy(a, d)' => dm'[a][d].op = "applying" /\ dm'[a][d].sent = gen[a]
      <3> HIDE DEF e
      <3>1. CASE UNCHANGED dm
        BY <2>1, <3>1 DEF Deployed, Busy
      <3>2. CASE e \in Deployment /\ Submit(r, e, "applying", gen[app[r]])
        <4>1. /\ dm'[a][d].live = dm[a][d].live
              /\ (a = app[r] /\ d = e) =>
                    dm'[a][d].op = "applying" /\ dm'[a][d].sent = gen[app[r]]
              /\ ~ (a = app[r] /\ d = e) => dm'[a][d] = dm[a][d]
          BY <1>0, <3>2, SubmitEffect
        <4>2. QED
          BY <2>1, <4>1 DEF Deployed, Busy
      <3>3. QED
        BY <2>2, <3>1, <3>2
    <2>5. ASSUME app[r] = a, Ends(r), Head(todo[r]) = <<"update", d>>
          PROVE  dm[a][d].live = gen[a]
      <3>1. At(r, "update")
        BY <1>1, <2>5 DEF At
      <3>2. UpdateDeployment(r) \/ BlockingWait(r)
        BY <1>1, <2>5, <3>1, ByVerb
      <3>3. Quits(r) => FALSE
        BY <2>5 DEF Ends, Quits
      <3>4. ASSUME UpdateDeployment(r) PROVE FALSE
        <4>1. Wait(r) \/ Fail(r)
          BY <3>4 DEF UpdateDeployment, Send, Join
        <4>2. Stays(r)
          BY <1>0, <1>1, <3>3, <4>1, Endings DEF Ignored
        <4>3. QED
          BY <1>0, <1>1, <2>5, <4>2, StaysOrEnds DEF Stays
      <3>5. waits[r] = "ok" /\ r \in mid
        <4>1. BlockingWait(r)
          BY <3>2, <3>4
        <4>2. Fail(r) => FALSE
          BY <1>0, <1>1, <3>3, Endings DEF Ignored
        <4>3. QED
          BY <4>1, <4>2 DEF BlockingWait
      <3>6. QED
        BY <2>1, <2>5, <3>5 DEF Deployed
    <2>6. ASSUME NEW s \in mid', app'[s] = a, Head(todo'[s]) = <<"update", d>>,
                 waits'[s] = "ok"
          PROVE  dm[a][d].live = gen[a]
      <3>1. CASE s # r
        <4>1. /\ s \in mid /\ app[s] = a /\ Head(todo[s]) = <<"update", d>>
              /\ waits[s] = "ok"
          <5>1. s \in Run
            BY <1>0, <2>6 DEF AtType
          <5>2. QED
            BY <1>0, <1>2, <2>6, <3>1, <5>1, WaitsKept DEF OthersAsBefore
        <4>2. QED
          BY <2>1, <4>1 DEF Deployed
      <3>2. CASE s = r
        <4>1. Stays(r) /\ Middle(r) /\ ~ Clears(r)
          BY <1>1, <2>6, <3>2 DEF Clears
        <4>2. waits[r] = "ok" /\ todo' = todo
          BY <2>6, <3>2, <4>1 DEF Middle, Stays
        <4>3. r \in mid
          BY <4>2 DEF Proper
        <4>4. QED
          BY <1>2, <2>1, <2>6, <3>2, <4>2, <4>3 DEF Deployed
      <3>3. QED
        BY <3>1, <3>2
    <2>7. dm'[a][d].live = gen'[a] \/ Coming(a, <<"update", d>>)'
      BY <1>1, <2>1, <2>3, <2>4, <2>5 DEF Deployed
    <2>8. QED
      BY <2>3, <2>4, <2>6, <2>7 DEF Deployed
  <1>5. MembersOf(a) \subseteq policy' \/ Coming(a, Rewrite)'
    <2>1. ASSUME SetIamPolicy(r), app[r] = a PROVE MembersOf(a) \subseteq policy' \/ Coming(a, Rewrite)'
      <3>1. At(r, "policy") /\ Head(todo[r]) = <<"policy", Head(todo[r])[2]>>
            /\ Head(todo[r])[2] \in {"clear", "rewrite"}
        BY <1>1, <2>1 DEF SetIamPolicy, At, ApplyStage, Credentials
      <3>2. CASE Head(todo[r])[2] = "rewrite"
        BY <2>1, <3>2 DEF SetIamPolicy, Edit
      <3>3. CASE Head(todo[r])[2] = "clear"
        <4>1. Head(todo[r]) = Clear
          BY <3>1, <3>3 DEF Clear
        <4>2. todo[r] \in Seq(Stage) /\ todo[r] # << >>
          BY <1>0, <1>1, HeadType DEF AtType
        <4>3. Has(Tail(todo[r]), Rewrite) /\ Tail(todo[r]) # << >>
          BY <1>1, <4>1, <4>2, TailPlan
        <4>4. CASE Ends(r)
          <5>1. r \in Running' /\ Has(todo'[r], Rewrite) /\ app'[r] = a
            BY <1>2, <2>1, <4>3, <4>4 DEF Ends, Running
          <5>2. QED
            BY <5>1, ComingHasNext
        <4>5. CASE Stays(r)
          <5>1. Has(todo[r], Rewrite)
            <6>1. /\ Len(Tail(todo[r])) = Len(todo[r]) - 1 /\ Len(todo[r]) \in Nat
                  /\ \A i \in 1 .. Len(Tail(todo[r])) : Tail(todo[r])[i] = todo[r][i + 1]
              BY <4>2, HeadTailProperties, LenProperties
            <6>2. PICK i \in 1 .. Len(Tail(todo[r])) : Tail(todo[r])[i] = Rewrite
              BY <4>3 DEF Has
            <6>3. i + 1 \in 1 .. Len(todo[r]) /\ todo[r][i + 1] = Rewrite
              BY <6>1, <6>2
            <6>4. QED
              BY <6>3 DEF Has
          <5>2. r \in Running' /\ todo'[r] = todo[r] /\ app'[r] = a
            BY <1>1, <1>2, <2>1, <4>5 DEF Stays, Running
          <5>3. QED
            BY <5>1, <5>2, ComingHasNext
        <4>6. QED
          BY <1>1, <2>1, <4>4, <4>5
      <3>4. QED
        BY <3>1, <3>2, <3>3
    <2>2. ASSUME ~ (SetIamPolicy(r) /\ app[r] = a) PROVE MembersOf(a) \subseteq policy' \/ Coming(a, Rewrite)'
      <3>1. MembersOf(a) \subseteq policy => MembersOf(a) \subseteq policy'
        <4>1. a \in App /\ app[r] \in App /\ MembersOf(a) \subseteq Member
          BY <1>0, MembersApart DEF AtType, WorkType
        <4>2. CASE policy' = policy
          BY <4>2
        <4>3. CASE policy' # policy
          <5>1. app[r] # a
            BY <1>0, <2>2, <4>3, PolicyWritten
          <5>2. \A m \in MembersOf(a) : m \in App => m = a
            BY <4>1, KfctlAssumption DEF MembersOf
          <5>3. a \notin MembersOf(app[r])
            BY <4>1, <5>1, MembersApart
          <5>4. QED
            BY <1>0, <4>1, <4>3, <5>2, <5>3, PolicyWritten
        <4>4. QED
          BY <4>2, <4>3
      <3>2. ASSUME app[r] = a, Ends(r), Head(todo[r]) = Rewrite PROVE FALSE
        <4>1. At(r, "policy")
          BY <1>1, <3>2 DEF At, Rewrite
        <4>2. ReadPolicy(r) \/ PolicyFails(r)
          BY <1>1, <2>2, <3>2, <4>1, ByVerb
        <4>3. todo' = todo
          BY <4>2 DEF ReadPolicy, PolicyFails, TryAgain
        <4>4. QED
          BY <1>0, <1>1, <3>2, <4>3, StaysOrEnds
      <3>3. QED
        BY <1>1, <3>1, <3>2 DEF Agree
    <2>3. QED
      BY <2>1, <2>2
  <1>6. InCluster(a)'
    <2>1. /\ kube[a].made \subseteq kube'[a].made
          /\ kube[a].ns = "active" => kube'[a].ns = "active"
          /\ kube[a].ns # "terminating" => kube'[a].ns # "terminating"
          /\ (At(r, "make") /\ app[r] = a /\ ~ Breaks(r)) =>
                /\ Head(todo[r])[2] = "namespace" => kube'[a].ns # "none"
                /\ Head(todo[r])[2] \in Object =>
                      Head(todo[r])[2] \in kube'[a].made
      BY <1>0, <1>1, ApplyGrows
    <2>2. kube'[a].ns \in {"none", "active", "terminating"}
      BY <1>0 DEF WorkType, KubeType
    <2>3. InCluster(a)
      BY DEF Agree
    <2>4. ASSUME NEW o, app[r] = a, Head(todo[r]) = <<"make", o>>
          PROVE  At(r, "make") /\ ~ Breaks(r) /\ Head(todo[r])[2] = o
      BY <1>1, <2>4 DEF At
    <2>5. kube'[a].ns # "terminating"
      BY <2>1, <2>3 DEF InCluster
    <2>6. kube'[a].ns = "active" \/ Coming(a, <<"make", "namespace">>)'
      <3>1. CASE app[r] = a /\ Head(todo[r]) = <<"make", "namespace">>
        BY <2>1, <2>2, <2>4, <2>5, <3>1
      <3>2. CASE ~ (app[r] = a /\ Head(todo[r]) = <<"make", "namespace">>)
        BY <1>1, <2>1, <2>3, <3>2 DEF InCluster
      <3>3. QED
        BY <3>1, <3>2
    <2>7. ASSUME NEW o \in Object
          PROVE  o \in kube'[a].made \/ Coming(a, <<"make", o>>)'
      <3>1. CASE app[r] = a /\ Head(todo[r]) = <<"make", o>>
        BY <2>1, <2>4, <3>1
      <3>2. CASE ~ (app[r] = a /\ Head(todo[r]) = <<"make", o>>)
        BY <1>1, <2>1, <2>3, <3>2 DEF InCluster
      <3>3. QED
        BY <3>1, <3>2
    <2>8. QED
      BY <2>5, <2>6, <2>7 DEF InCluster
  <1>7. QED
    BY <1>3, <1>4, <1>5, <1>6 DEF Agree

\* A command that begins: an apply of the platform makes an application at rest
\* sound, as it has everything still to do.
LEMMA StartAgrees ==
    ASSUME AtType, WorkType, Agreeing, NEW r \in Run, NEW c \in Command, NEW b \in App,
           Start(r, c, b), NEW a \in sound'
    PROVE  Agree(a)'
  <1>1. /\ c \in AnyCommand /\ status[r] # "running"
        /\ cmd'[r] = c /\ app'[r] = b /\ todo'[r] = Stages(c) /\ status'[r] = "running"
        /\ UNCHANGED <<world, mid, waits>>
    BY DEF Start, AtType
  <1>2. \A s \in Run \ {r} : /\ cmd'[s] = cmd[s] /\ app'[s] = app[s]
                             /\ todo'[s] = todo[s] /\ status'[s] = status[s]
    BY DEF Start, AtType
  <1>3. r \in Running' /\ r \notin Running /\ Running' = Running \union {r}
    BY <1>1, <1>2 DEF Running
  <1>4. /\ c.verb = "apply"
        /\ a \in sound \/ (a = b /\ c.what # "k8s" /\ AtRest(a))
    BY <1>1 DEF Start, Sound, AnyCommand
  <1>5. \A s \in mid' : s \in mid /\ s \in Running /\ s \in Run \ {r}
    BY <1>1 DEF AtType, Running
  <1>6. CASE a \in sound
    <2>1. Agree(a)
      BY <1>6, AgreeParts
    <2>2. \A x : Coming(a, x) => Coming(a, x)'
      <3>1. \A s \in Running : s \in Run \ {r} /\ s \in Running'
        BY <1>3 DEF Running
      <3>2. QED
        BY <1>2, <3>1, ComingHas, ComingHasNext
    <2>3. \A s \in Running' : cmd'[s].verb = "apply"
      <3>1. \A s \in Running : cmd[s].verb = "apply" /\ s \in Run \ {r}
        BY <1>3, <2>1 DEF Agree, Running
      <3>2. QED
        BY <1>1, <1>2, <1>3, <1>4, <3>1
    <2>4. ASSUME NEW d \in Deployment PROVE Deployed(a, d)'
      <3>1. Deployed(a, d)
        BY <2>1 DEF Agree
      <3>2. ASSUME NEW s \in mid', app'[s] = a, Head(todo'[s]) = <<"update", d>>,
                   waits'[s] = "ok"
            PROVE  dm[a][d].live = gen[a]
        <4>1. /\ s \in mid /\ app[s] = a /\ Head(todo[s]) = <<"update", d>>
              /\ waits[s] = "ok"
          BY <1>1, <1>2, <1>5, <3>2
        <4>2. QED
          BY <3>1, <4>1 DEF Deployed
      <3>3. QED
        BY <1>1, <2>2, <3>1, <3>2 DEF Deployed, Busy, world
    <2>5. QED
      BY <1>1, <2>1, <2>2, <2>3, <2>4 DEF Agree, InCluster, world
  <1>7. CASE a = b /\ c.what # "k8s" /\ AtRest(a)
    <2>1. /\ \A d \in Deployment : Coming(a, <<"update", d>>)'
          /\ Coming(a, Rewrite)'
          /\ Coming(a, <<"make", "namespace">>)'
          /\ \A o \in Object : Coming(a, <<"make", o>>)'
      <3>1. /\ \A d \in Deployment : Has(Stages(c), <<"update", d>>)
            /\ Has(Stages(c), Rewrite)
            /\ \A o \in Object \union {"namespace"} : Has(Stages(c), <<"make", o>>)
        BY <1>1, <1>4, <1>7, StagesPlan
      <3>2. \A x : Has(Stages(c), x) => Coming(a, x)'
        BY <1>1, <1>3, <1>7, ComingHasNext
      <3>3. QED
        BY <3>1, <3>2
    <2>2. \A s \in Running' : cmd'[s].verb = "apply"
      <3>1. \A s \in Running : cmd[s].verb = "apply" /\ s \in Run \ {r}
        BY <1>3, <1>7 DEF AtRest, Running, AtType, AnyCommand
      <3>2. QED
        BY <1>1, <1>2, <1>3, <1>4, <3>1
    <2>3. \A s \in mid' : app'[s] # a
      BY <1>2, <1>5, <1>7 DEF AtRest
    <2>4. /\ \A d \in Deployment : ~ Busy(a, d)'
          /\ kube'[a].ns # "terminating"
      BY <1>1, <1>7 DEF AtRest, Busy, world
    <2>5. \A d \in Deployment : Deployed(a, d)'
      BY <2>1, <2>3, <2>4 DEF Deployed
    <2>6. InCluster(a)'
      BY <2>1, <2>4 DEF InCluster
    <2>7. QED
      BY <2>1, <2>2, <2>5, <2>6 DEF Agree
  <1>8. QED
    BY <1>4, <1>6, <1>7

\* An operation of a sound application ends: its cluster is not deleted.
LEMMA OpEndsSound ==
    ASSUME AtType, WorkType, NEW a \in App, Agree(a), NEW b \in App,
           NEW d \in Deployment, NEW ok \in BOOLEAN, OpEnds(b, d, ok)
    PROVE  kube'[a] = kube[a] /\ (context = a => context' = a)
  <1>1. CASE a = b
    <2>1. dm[a][d].op = "applying" /\ dm[a][d].sent = gen[a]
      BY <1>1 DEF OpEnds, Agree, Deployed
    <2>2. gen[a] \in 1 .. (moves + 1) /\ moves \in Nat
      BY DEF WorkType, AtType
    <2>3. gen[a] # 0
      BY <2>2
    <2>4. ~ /\ d = "cluster" /\ dm[a][d].live > 0
            /\ (IF ok THEN dm[a][d].sent ELSE dm[a][d].live) = 0
      <3>1. dm[a][d].live > 0 => dm[a][d].live # 0
        BY DEF WorkType, DmType
      <3>2. QED
        BY <2>1, <2>3, <3>1
    <2>5. UNCHANGED <<kube, context>>
      BY <1>1, <2>4 DEF OpEnds
    <2>6. QED
      BY <2>5
  <1>2. CASE a # b
    <2>1. \/ UNCHANGED <<kube, context>>
          \/ /\ kube' = [kube EXCEPT ![b] = NewCluster]
             /\ context' = IF context = b THEN GoneApp ELSE context
      BY DEF OpEnds
    <2>2. QED
      BY <1>2, <2>1 DEF WorkType, KubeType
  <1>3. QED
    BY <1>1, <1>2

LEMMA OpEndsAgrees ==
    ASSUME AtType, WorkType, NEW a \in App, Agree(a), NEW b \in App,
           NEW d \in Deployment, NEW ok \in BOOLEAN, OpEnds(b, d, ok)
    PROVE  Agree(a)'
  <1>1. UNCHANGED <<gen, policy, cmd, app, status, todo, mid>>
    BY DEF OpEnds
  <1>2. kube'[a] = kube[a]
    BY OpEndsSound
  <1>3. Running' = Running /\ \A x : Coming(a, x)' <=> Coming(a, x)
    BY <1>1 DEF Running, Coming, Due
  <1>4. ASSUME NEW e \in Deployment PROVE Deployed(a, e)'
    <2>1. Deployed(a, e)
      BY DEF Agree
    <2>2. /\ ~ (a = b /\ e = d) => dm'[a][e] = dm[a][e]
          /\ (a = b /\ e = d) =>
                /\ dm'[a][e].op = IF ok /\ dm[a][e].op = "deleting" THEN "none" ELSE "done"
                /\ dm'[a][e].live = IF ok THEN dm[a][e].sent ELSE dm[a][e].live
                /\ Busy(a, e)
      BY OpEndsEffect DEF WorkType
    <2>3. CASE a = b /\ e = d
      <3>1. /\ dm[a][e].sent = gen[a] /\ ~ Busy(a, e)'
            /\ dm'[a][e].live = IF ok THEN gen[a] ELSE dm[a][e].live
        BY <2>1, <2>2, <2>3 DEF Deployed, Busy
      <3>2. ASSUME NEW s \in mid, app[s] = a, Head(todo[s]) = <<"update", e>>,
                   waits'[s] = "ok"
            PROVE  dm'[a][e].live = gen[a]
        <4>1. ok \/ waits[s] = "ok"
          BY <3>2 DEF OpEnds, AtType
        <4>2. QED
          BY <2>1, <3>1, <3>2, <4>1 DEF Deployed
      <3>3. QED
        BY <1>1, <1>3, <2>1, <3>1, <3>2 DEF Deployed
    <2>4. CASE ~ (a = b /\ e = d)
      <3>1. dm'[a][e] = dm[a][e]
        BY <2>2, <2>4
      <3>2. ASSUME NEW s \in mid, app[s] = a, Head(todo[s]) = <<"update", e>>
            PROVE  waits'[s] = waits[s]
        <4>1. s \notin Waiting(b, d)
          BY <2>4, <3>2 DEF Waiting
        <4>2. QED
          BY <4>1 DEF OpEnds, AtType
      <3>3. QED
        BY <1>1, <1>3, <2>1, <3>1, <3>2 DEF Deployed, Busy
    <2>5. QED
      BY <2>3, <2>4
  <1>5. QED
    BY <1>1, <1>2, <1>3, <1>4 DEF Agree, InCluster

LEMMA AgreeingStep == Apart /\ Orderly /\ Agreeing /\ [Next]_vars => Agreeing'
  <1> SUFFICES ASSUME Apart, Orderly, Agreeing, [Next]_vars, NEW a \in sound'
               PROVE  Agree(a)'
    BY AgreePartsNext
  <1>1. TypeOK /\ CopyCurrent /\ AtType /\ WorkType /\ \A s \in Run : Proper(s)
    BY TypeParts, OrderlyParts DEF Apart
  <1>2. a \in sound => Agree(a) /\ a \in App
    BY <1>1, AgreeParts DEF WorkType
  <1>3. ASSUME NEW r \in Run, Kfctl(r) \/ Kill(r) PROVE Agree(a)'
    <2>1. a \in sound
      <3>1. Stays(r) \/ Ends(r) \/ Quits(r) \/ Skips(r)
        BY <1>1, <1>3, Outcomes
      <3>2. QED
        BY <3>1 DEF Stays, Ends, Quits, Skips
    <2>2. QED
      BY <1>1, <1>2, <1>3, <2>1, RunAgrees
  <1>4. ASSUME NEW r \in Run, NEW c \in Command, NEW b \in App, Start(r, c, b)
        PROVE  Agree(a)'
    BY <1>1, <1>4, StartAgrees
  <1>5. ASSUME NEW b \in App, NEW d \in Deployment, NEW ok \in BOOLEAN, OpEnds(b, d, ok)
        PROVE  Agree(a)'
    <2>1. a \in sound
      BY <1>5 DEF OpEnds, history
    <2>2. QED
      BY <1>1, <1>2, <1>5, <2>1, OpEndsAgrees
  \* All other steps leave the application as it was.
  <1>6. ASSUME a \in sound, UNCHANGED <<dm, cmd, app, status, todo, mid, waits>>,
               gen'[a] = gen[a], kube'[a] = kube[a],
               MembersOf(a) \subseteq policy => MembersOf(a) \subseteq policy'
        PROVE  Agree(a)'
    <2>1. Agree(a)
      BY <1>2, <1>6
    <2>2. Running' = Running /\ \A x : Coming(a, x)' <=> Coming(a, x)
      BY <1>6 DEF Running, Coming, Due
    <2>3. \A d \in Deployment : Deployed(a, d)'
      BY <1>6, <2>1, <2>2 DEF Agree, Deployed, Busy
    <2>4. QED
      BY <1>6, <2>1, <2>2, <2>3 DEF Agree, InCluster
  <1>7. ASSUME NEW b \in App, Generate(b) PROVE Agree(a)'
    <2>1. a \in sound /\ a # b
      BY <1>7 DEF Generate
    <2>2. gen'[a] = gen[a]
      BY <1>1, <1>7, <2>1 DEF Generate, WorkType
    <2>3. QED
      BY <1>6, <1>7, <2>1, <2>2 DEF Generate, local
  <1>8. ASSUME NEW b \in App, NamespaceGone(b) PROVE Agree(a)'
    <2>1. a \in sound
      BY <1>8 DEF NamespaceGone, history
    <2>2. a # b
      BY <1>2, <1>8, <2>1 DEF NamespaceGone, Agree, InCluster
    <2>3. kube'[a] = kube[a]
      BY <1>1, <1>8, <2>2 DEF NamespaceGone, WorkType, KubeType
    <2>4. QED
      BY <1>6, <1>8, <2>1, <2>3 DEF NamespaceGone, local
  <1>9. ASSUME OutsideEdit PROVE Agree(a)'
    <2>1. a \in sound
      BY <1>9 DEF OutsideEdit, history
    <2>2. Other \notin MembersOf(a)
      BY <1>1, <2>1, MembersApart DEF WorkType
    <2>3. MembersOf(a) \subseteq policy => MembersOf(a) \subseteq policy'
      BY <1>9, <2>2 DEF OutsideEdit
    <2>4. QED
      BY <1>6, <1>9, <2>1, <2>3 DEF OutsideEdit, local
  <1>10. CASE (\E b \in App : EndpointAppears(b)) \/ UNCHANGED vars
    BY <1>6, <1>10 DEF EndpointAppears, vars, world, local, history
  <1>11. QED
    BY <1>3, <1>4, <1>5, <1>7, <1>8, <1>9, <1>10 DEF Next

-----------------------------------------------------------------------------
(* What a lonely apply of everything comes to *)

LEMMA DueHas == \A r, x : Due(r, x) <=> Has(todo[r], x)
  BY DEF Due, Has

LEMMA DueHasNext == \A r, x : Due(r, x)' <=> Has(todo'[r], x)
  BY DEF Due, Has

ApplyCourse(r) == OnCourse(r, "apply") /\ cmd[r].what = "all" /\ app[r] \in sound
Brought(r) ==
    /\ context = app[r] \/ Due(r, Credentials)
    /\ kube[app[r]].comps = Component \/ Due(r, Components)
    /\ AtStage(r, "k8s", "components") => Component \ left[r] \subseteq kube[app[r]].comps

LEMMA ApplyingParts == Applying <=> \A r \in alone : ApplyCourse(r) => Brought(r)
  BY DEF Applying, ApplyCourse, Brought, Components

LEMMA ApplyingPartsNext ==
    Applying' <=> \A r \in alone' : ApplyCourse(r)' => Brought(r)'
  BY DEF Applying, ApplyCourse, Brought, Components

\* A run that stays or ends a stage keeps what it has due but for that stage.
LEMMA DueKept ==
    ASSUME AtType, NEW r \in Run, status[r] = "running", Stays(r) \/ Ends(r)
    PROVE  \A x : Due(r, x) => Due(r, x)' \/ (Ends(r) /\ Head(todo[r]) = x)
  <1>1. todo[r] \in Seq(Stage) /\ todo[r] # << >>
    BY HeadType DEF AtType
  <1>2. \A x : Has(todo[r], x) => x = Head(todo[r]) \/ Has(Tail(todo[r]), x)
    BY <1>1, TailPlan
  <1>3. QED
    BY <1>2, DueHas, DueHasNext DEF Stays, Ends

LEMMA RunBrings ==
    ASSUME TypeOK, \A s \in Run : Proper(s), NEW r \in Run, Kfctl(r) \/ Kill(r),
           Home(r), ApplyCourse(r)', ApplyCourse(r) => Brought(r)
    PROVE  Brought(r)'
  <1>0. AtType /\ WorkType /\ AtType' /\ WorkType'
    <2>1. TypeOK'
      BY TypeStep DEF Next
    <2>2. QED
      BY <2>1, TypeParts, TypePartsNext DEF WorkType
  <1>1. status[r] = "running" /\ UNCHANGED <<cmd, app>>
    BY <1>0, KeepsOthers
  <1>2. /\ \/ Stays(r) /\ Middle(r)
           \/ (Ends(r) \/ Quits(r) \/ Skips(r)) /\ Clears(r)
        /\ cmd[r].verb = "apply" /\ cmd[r].what = "all"
    BY <1>0, <1>1, Outcomes DEF ApplyCourse, OnCourse
  <1>3. ~ Skips(r) /\ ~ Quits(r) /\ ~ Breaks(r)
    <2>1. ~ Skips(r)
      BY <1>2 DEF Skips, Ignored
    <2>2. ~ Quits(r)
      BY DEF Quits, ApplyCourse, OnCourse
    <2>3. QED
      BY <1>0, <1>2, <2>1, <2>2, BreakKind
  <1>4. Stays(r) \/ Ends(r)
    BY <1>2, <1>3
  <1>5. Brought(r) /\ app[r] \in App
    BY <1>0, <1>1, <1>2, <1>4 DEF ApplyCourse, OnCourse, Stays, Ends, AtType
  <1>6. /\ todo[r] \in Seq(Stage) /\ todo[r] # << >> /\ ApplyPlan(todo[r])
        /\ Head(todo[r]) \in ApplyStage
        /\ (Tail(todo[r]) # << >> /\ Head(Tail(todo[r])) = Components)
              => Head(todo[r]) = Namespace
    BY <1>0, <1>1, <1>2, HeadType, TailPlan DEF AtType, Proper
  <1>7. \A x : Due(r, x) => Due(r, x)' \/ (Ends(r) /\ Head(todo[r]) = x)
    BY <1>0, <1>1, <1>4, DueKept
  <1>8. context' = app[r] \/ Due(r, Credentials)'
    <2>1. context' = IF GetCredentials(r) THEN app[r] ELSE context
      <3>1. CASE GetPackageManagers(r)
        <4>1. ~ GetCredentials(r) /\ UNCHANGED context
          BY <3>1 DEF GetPackageManagers, GetCredentials, AtStage, world
        <4>2. QED
          BY <4>1
      <3>2. CASE ~ GetPackageManagers(r)
        <4>1. Kfctl(r)
          BY <1>3 DEF Breaks
        <4>2. QED
          BY <3>2, <4>1, StepKinds DEF StepKind
      <3>3. QED
        BY <3>1, <3>2
    <2>2. Head(todo[r]) = Credentials => GetCredentials(r)
      BY <1>1, <1>3, ByVerb DEF AtStage, Credentials
    <2>3. QED
      BY <1>5, <1>7, <2>1, <2>2 DEF Brought
  <1> DEFINE comps == kube[app[r]].comps
             comps2 == kube'[app[r]].comps
  <1>9. comps \subseteq comps2
    BY <1>0, <1>5, <1>6, ApplyGrows
  <1>10. comps2 \subseteq Component
    BY <1>0, <1>5 DEF WorkType, KubeType
  <1>11. ASSUME NEW c \in Component, ApplyComponent(r, c)
         PROVE  comps2 = comps \union {c} /\ left'[r] = left[r] \ {c} /\ c \in left[r]
    <2>1. target[r] = app[r]
      BY <1>11 DEF ApplyComponent, Up, Home
    <2>2. /\ kube' = [kube EXCEPT ![app[r]].comps = @ \union {c}]
          /\ left' = [left EXCEPT ![r] = @ \ {c}] /\ c \in left[r]
      BY <1>11, <2>1 DEF ApplyComponent
    <2>3. QED
      BY <1>0, <1>5, <2>2 DEF WorkType, KubeType
  <1>12. AtStage(r, "k8s", "components") => \E c \in Component : ApplyComponent(r, c)
    BY <1>3, ByVerb
  <1>13. comps2 = Component \/ Due(r, Components)'
    <2>1. ASSUME Ends(r), Head(todo[r]) = Components PROVE comps2 = Component
      <3>1. AtStage(r, "k8s", "components")
        BY <1>1, <2>1 DEF AtStage, Components
      <3>2. PICK c \in Component : ApplyComponent(r, c)
        BY <1>12, <3>1
      <3>3. left[r] = {c}
        BY <1>0, <1>1, <2>1, <3>2, StaysOrEnds DEF ApplyComponent
      <3>4. Component \ {c} \subseteq comps
        BY <1>5, <3>1, <3>3 DEF Brought
      <3>5. QED
        BY <1>10, <1>11, <3>2, <3>4
    <2>2. QED
      BY <1>5, <1>7, <1>9, <1>10, <2>1 DEF Brought
  <1>14. ASSUME AtStage(r, "k8s", "components")' PROVE Component \ left'[r] \subseteq comps2
    <2>1. CASE Stays(r)
      <3>1. AtStage(r, "k8s", "components")
        BY <1>14, <2>1 DEF AtStage, Stays
      <3>2. PICK c \in Component : ApplyComponent(r, c)
        BY <1>12, <3>1
      <3>3. Component \ left[r] \subseteq comps
        BY <1>5, <3>1 DEF Brought
      <3>4. QED
        BY <1>11, <3>2, <3>3
    <2>2. CASE Ends(r)
      <3>1. Tail(todo[r]) # << >> /\ Head(Tail(todo[r])) = Components
        BY <1>0, <1>14, <2>2 DEF AtStage, Ends, AtType, Components
      <3>2. AtStage(r, "k8s", "namespace")
        BY <1>1, <1>6, <3>1 DEF AtStage, Namespace
      <3>3. KsNamespace(r)
        BY <1>3, <3>2, ByVerb
      <3>4. left'[r] = Component
        BY <1>0, <3>3 DEF KsNamespace, WorkType
      <3>5. QED
        BY <3>4
    <2>3. QED
      BY <1>4, <2>1, <2>2
  <1>15. QED
    BY <1>1, <1>8, <1>13, <1>14 DEF Brought

LEMMA ApplyingStep ==
    Apart /\ Orderly /\ Agreeing /\ Applying /\ [Next]_vars => Applying'
  <1> SUFFICES ASSUME Apart, Orderly, Agreeing, Applying, [Next]_vars,
                      NEW r \in alone', ApplyCourse(r)'
               PROVE  Brought(r)'
    BY ApplyingPartsNext
  <1>1. /\ TypeOK /\ Homely /\ AtType /\ WorkType /\ r \in Run
        /\ \A s \in Run : Proper(s)
        /\ r \in alone /\ ApplyCourse(r) => Brought(r)
    <2>1. TypeOK' /\ r \in Run
      BY TypeStep, TypePartsNext DEF Apart, AtType
    <2>2. QED
      BY <2>1, TypeParts, OrderlyParts, ApplyingParts DEF Apart
  <1>2. ASSUME NEW s \in Run, Kfctl(s) \/ Kill(s) PROVE Brought(r)'
    <2>1. /\ status[s] = "running" /\ UNCHANGED <<cmd, alone>> /\ r \in alone
      BY <1>1, <1>2, KeepsOthers
    <2>2. s = r
      BY <1>1, <1>2, <2>1 DEF Homely, Running
    <2>3. Home(r)
      BY <1>1, <2>1, <2>2 DEF Homely, ApplyCourse, OnCourse
    <2>4. QED
      BY <1>1, <1>2, <2>1, <2>2, <2>3, RunBrings
  <1>3. ASSUME NEW s \in Run, NEW c \in Command, NEW b \in App, Start(s, c, b)
        PROVE  Brought(r)'
    <2>1. r = s
      BY <1>3 DEF Start
    <2>2. cmd'[r] = c /\ todo'[r] = Stages(c) /\ c \in AnyCommand
      BY <1>1, <1>3, <2>1 DEF Start, AtType
    <2>3. c.verb = "apply" /\ c.what = "all"
      BY <2>2 DEF ApplyCourse, OnCourse
    <2>4. /\ Has(Stages(c), Credentials) /\ Has(Stages(c), Components)
          /\ Head(Stages(c)) # Components
      BY <2>2, <2>3, StagesPlan
    <2>5. ~ AtStage(r, "k8s", "components")'
      BY <2>2, <2>4 DEF AtStage, Components
    <2>6. QED
      BY <2>2, <2>4, <2>5, DueHasNext DEF Brought
  \* All other steps leave the run, its context and its application's cluster.
  <1>4. ASSUME UNCHANGED <<cmd, app, status, todo, left, alone>>, sound' \subseteq sound,
               app[r] \in sound =>
                   /\ kube'[app[r]].comps = kube[app[r]].comps
                   /\ context = app[r] => context' = app[r]
        PROVE  Brought(r)'
    <2>1. app[r] \in sound /\ Brought(r)
      BY <1>1, <1>4 DEF ApplyCourse, OnCourse
    <2>2. QED
      BY <1>4, <2>1 DEF Brought, Due, AtStage
  <1>5. app[r] \in sound => Agree(app[r]) /\ app[r] \in App
    BY <1>1, AgreeParts DEF WorkType
  <1>6. ASSUME NEW b \in App, NEW d \in Deployment, NEW ok \in BOOLEAN, OpEnds(b, d, ok)
        PROVE  Brought(r)'
    <2>1. UNCHANGED <<cmd, app, status, todo, left, alone, sound>>
      BY <1>6 DEF OpEnds, history
    <2>2. app[r] \in sound =>
             /\ kube'[app[r]] = kube[app[r]]
             /\ context = app[r] => context' = app[r]
      BY <1>1, <1>5, <1>6, OpEndsSound
    <2>3. QED
      BY <1>4, <2>1, <2>2
  <1>7. ASSUME NEW b \in App, NamespaceGone(b) PROVE Brought(r)'
    <2>1. UNCHANGED <<cmd, app, status, todo, left, alone, sound, context>>
      BY <1>7 DEF NamespaceGone, history, local
    <2>2. ASSUME app[r] \in sound PROVE kube'[app[r]] = kube[app[r]]
      <3>1. app[r] # b /\ app[r] \in App
        BY <1>5, <1>7, <2>2 DEF NamespaceGone, Agree, InCluster
      <3>2. QED
        BY <1>1, <1>7, <3>1 DEF NamespaceGone, WorkType, KubeType
    <2>3. QED
      BY <1>4, <2>1, <2>2
  <1>8. CASE \/ OutsideEdit
             \/ \E b \in App : Generate(b) \/ EndpointAppears(b)
             \/ UNCHANGED vars
    <2>1. /\ UNCHANGED <<cmd, app, status, todo, left, alone, kube, context>>
          /\ sound' \subseteq sound
      BY <1>8 DEF OutsideEdit, Generate, EndpointAppears, vars, world, local, history
    <2>2. QED
      BY <1>4, <2>1
  <1>9. QED
    BY <1>2, <1>3, <1>6, <1>7, <1>8 DEF Next

-----------------------------------------------------------------------------
(* What a lonely delete of the platform comes to *)

DeleteCourse(r) == OnCourse(r, "delete") /\ cmd[r].what # "k8s"
Removed(r, d) ==
    LET op == dm[app[r]][d].op IN
    /\ (d # "storage" \/ cmd[r].storage) => op = "none" \/ Due(r, <<"remove", d>>)
    /\ (r \in mid /\ AtStage(r, "remove", d)) =>
          /\ waits[r] = "running" => op = "deleting"
          /\ waits[r] = "ok" => op = "none"
Taken(r) ==
    /\ \A d \in Deployment : Removed(r, d)
    /\ app[r] \notin policy \/ Due(r, <<"policy", "clean">>)
    /\ app[r] \notin endpoint \/ Due(r, <<"endpoint", "delete">>)

LEMMA DeletingParts == Deleting <=> \A r \in alone : DeleteCourse(r) => Taken(r)
  BY DEF Deleting, DeleteCourse, Taken, Removed

LEMMA DeletingPartsNext == Deleting' <=> \A r \in alone' : DeleteCourse(r)' => Taken(r)'
  BY DEF Deleting, DeleteCourse, Taken, Removed

\* Which stages a delete has left when it begins with the platform.
LEMMA AllDue ==
    ASSUME NEW r \in Run, cmd'[r].storage \in BOOLEAN,
           \/ todo'[r] = DeletePlatform(cmd'[r].storage)
           \/ /\ cmd'[r] \in AnyCommand /\ todo'[r] = Stages(cmd'[r])
              /\ cmd'[r].verb = "delete" /\ cmd'[r].what # "k8s",
           r \notin mid'
    PROVE  Taken(r)'
  <1>1. /\ \A d \in Deployment : (d # "storage" \/ cmd'[r].storage)
              => Has(todo'[r], <<"remove", d>>)
        /\ Has(todo'[r], <<"policy", "clean">>)
        /\ Has(todo'[r], <<"endpoint", "delete">>)
    BY DeletePlatformPlan, StagesPlan
  <1>2. QED
    BY <1>1, DueHasNext DEF Taken, Removed

LEMMA EndpointKept ==
    ASSUME NEW r \in Run, Kfctl(r) \/ Kill(r)
    PROVE  endpoint' = endpoint \/ (DeleteEndpoints(r) /\ endpoint' = endpoint \ {app[r]})
  BY DEF Kfctl, Kill, UpdateDeployment, DeleteDeployment, BlockingWait, ReadPolicy,
         SetIamPolicy, PolicyFails, MakeObject, GetCredentials, GetPackageManagers,
         KsNamespace, ApplyComponent, DropComponents, DropNamespace,
         DeleteEndpoints, CallFails, Send, Join, Submit, world

LEMMA RunTakes ==
    ASSUME TypeOK, CopyCurrent, \A s \in Run : Proper(s),
           NEW r \in Run, Kfctl(r) \/ Kill(r),
           DeleteCourse(r)', DeleteCourse(r) => Taken(r)
    PROVE  Taken(r)'
  <1>0. AtType /\ WorkType /\ DmType /\ AtType'
    <2>1. TypeOK'
      BY TypeStep DEF Next
    <2>2. QED
      BY <2>1, TypeParts, TypePartsNext DEF WorkType
  <1>1. status[r] = "running" /\ UNCHANGED <<cmd, app>> /\ app[r] \in App
    BY <1>0, KeepsOthers DEF AtType
  <1>2. /\ \/ Stays(r) /\ Middle(r)
           \/ (Ends(r) \/ Skips(r)) /\ Clears(r)
        /\ cmd[r].verb = "delete" /\ cmd[r].what # "k8s"
        /\ ~ Quits(r)
    <2>1. ~ Quits(r)
      BY DEF Quits, DeleteCourse, OnCourse
    <2>2. QED
      BY <1>0, <1>1, <2>1, Outcomes DEF DeleteCourse, OnCourse
  <1>3. CASE Skips(r)
    <2>1. cmd[r].storage \in BOOLEAN
      BY <1>0 DEF AtType, AnyCommand
    <2>2. r \notin mid'
      <3>1. CASE Clears(r)
        BY <3>1 DEF Clears
      <3>2. CASE Stays(r) /\ ~ Clears(r)
        <4>1. /\ todo[r] = DeletePlatform(cmd[r].storage)
              /\ At(r, "k8s")
          BY <1>3, <3>2 DEF Skips, Stays, Ignored
        <4>2. Head(todo[r]) \in Cloud
          <5>1. todo[r] \in Seq(Cloud) /\ todo[r] # << >>
            BY <2>1, <4>1, DeletePlatformType, EmptySeq
          <5>2. QED
            BY <5>1, HeadTailProperties
        <4>3. QED
          BY <4>1, <4>2 DEF Cloud, At
      <3>3. QED
        BY <1>2, <3>1, <3>2
    <2>3. QED
      BY <1>1, <1>3, <2>1, <2>2, AllDue DEF Skips
  <1>4. CASE ~ Skips(r)
    <2>1. /\ \/ Stays(r) /\ Middle(r)
             \/ Ends(r) /\ Clears(r)
          /\ ~ Breaks(r)
      BY <1>0, <1>2, <1>4, BreakKind
    <2>2. Taken(r)
      BY <1>1, <1>2 DEF DeleteCourse, OnCourse
    <2>3. /\ todo[r] \in Seq(Stage) /\ todo[r] # << >> /\ DeletePlan(todo[r], cmd[r].what)
          /\ Head(todo[r]) \in DeleteStage
      BY <1>0, <1>1, <1>2, HeadType, TailPlan DEF AtType, Proper
    <2>4. \A x : Due(r, x) => Due(r, x)' \/ (Ends(r) /\ Head(todo[r]) = x)
      BY <1>0, <1>1, <2>1, DueKept
    <2>5. Ends(r) => todo' # todo
      BY <1>0, <1>1, StaysOrEnds
    <2>6. ASSUME NEW d \in Deployment PROVE Removed(r, d)'
      <3> DEFINE e == Head(todo[r])[2]
                 op == dm[app[r]][d].op
                 op2 == dm'[app[r]][d].op
      <3>1. \/ UNCHANGED dm
            \/ /\ At(r, "remove") /\ r \notin mid /\ e \in Deployment
               /\ dm[app[r]][e].op = "done" /\ Submit(r, e, "deleting", 0) /\ Wait(r)
        <4>1. ~ At(r, "update")
          BY <2>3 DEF At, DeleteStage
        <4>2. Fail(r) => Quits(r) \/ Skips(r)
          BY <1>0, <1>1, Endings
        <4>3. QED
          BY <1>0, <1>2, <1>4, <4>1, <4>2, DmChanges
      <3>2. op = "none" => op2 = "none"
        <4> HIDE DEF e
        <4>1. CASE UNCHANGED dm
          BY <4>1
        <4>2. CASE /\ e \in Deployment
                   /\ dm[app[r]][e].op = "done" /\ Submit(r, e, "deleting", 0)
          BY <1>0, <1>1, <4>2, SubmitEffect
        <4>3. QED
          BY <3>1, <4>1, <4>2
      <3>3. ASSUME Ends(r), Head(todo[r]) = <<"remove", d>> PROVE op2 = "none"
        <4>1. At(r, "remove") /\ AtStage(r, "remove", d) /\ e = d
          BY <1>1, <3>3 DEF At, AtStage
        <4>2. DeleteDeployment(r) \/ BlockingWait(r)
          BY <2>1, <4>1, ByVerb
        <4>3. ~ Wait(r) /\ ~ Fail(r)
          BY <1>0, <1>1, <1>2, <1>4, <2>5, <3>3, Endings DEF Stays
        <4>4. CASE DeleteDeployment(r)
          BY <4>1, <4>3, <4>4 DEF DeleteDeployment, world
        <4>5. CASE BlockingWait(r)
          <5>1. waits[r] = "ok" /\ r \in mid /\ UNCHANGED dm
            BY <4>3, <4>5 DEF BlockingWait, world
          <5>2. QED
            BY <2>2, <4>1, <5>1 DEF Taken, Removed
        <4>6. QED
          BY <4>2, <4>4, <4>5
      <3>4. ASSUME r \in mid', AtStage(r, "remove", d)'
            PROVE  /\ waits'[r] = "running" => op2 = "deleting"
                   /\ waits'[r] = "ok" => op2 = "none"
        <4>1. Stays(r) /\ Middle(r) /\ ~ Clears(r)
          BY <2>1, <3>4 DEF Clears
        <4>2. AtStage(r, "remove", d) /\ At(r, "remove") /\ e = d /\ waits' = waits
          BY <3>4, <4>1 DEF Stays, Middle, At, AtStage
        <4>3. DeleteDeployment(r) \/ BlockingWait(r)
          BY <2>1, <4>2, ByVerb
        <4>4. ~ Done(r) /\ ~ Fail(r)
          BY <1>0, <1>1, <4>1, Endings
        <4>5. Submit(r, d, "deleting", 0) /\ r \notin mid
          BY <4>2, <4>3, <4>4 DEF DeleteDeployment, BlockingWait
        <4>6. waits'[r] = "running"
          BY <4>2, <4>5 DEF Proper
        <4>7. op2 = "deleting"
          BY <1>0, <1>1, <4>5, SubmitEffect
        <4>8. QED
          BY <4>6, <4>7
      <3>5. (d # "storage" \/ cmd[r].storage) => op2 = "none" \/ Due(r, <<"remove", d>>)'
        <4>1. (d # "storage" \/ cmd[r].storage) => op = "none" \/ Due(r, <<"remove", d>>)
          BY <2>2 DEF Taken, Removed
        <4> HIDE DEF op, op2
        <4>2. QED
          BY <2>4, <3>2, <3>3, <4>1
      <3>6. QED
        BY <1>1, <3>4, <3>5 DEF Removed
    <2>7. app[r] \notin policy' \/ Due(r, <<"policy", "clean">>)'
      <3>1. CASE SetIamPolicy(r)
        <4>1. At(r, "policy") /\ Head(todo[r])[2] # "rewrite"
          BY <2>3, <3>1 DEF SetIamPolicy, At, DeleteStage
        <4>2. QED
          BY <3>1, <4>1 DEF SetIamPolicy, Edit
      <3>2. CASE ~ SetIamPolicy(r)
        <4>1. policy' = policy
          BY <3>2, PolicyWritten
        <4>2. ASSUME Ends(r), Head(todo[r]) = <<"policy", "clean">> PROVE FALSE
          <5>1. At(r, "policy")
            BY <1>1, <4>2 DEF At
          <5>2. ReadPolicy(r) \/ PolicyFails(r)
            BY <2>1, <3>2, <5>1, ByVerb
          <5>3. todo' = todo
            BY <5>2 DEF ReadPolicy, PolicyFails, TryAgain
          <5>4. QED
            BY <2>5, <4>2, <5>3
        <4>3. QED
          BY <2>2, <2>4, <4>1, <4>2 DEF Taken
      <3>3. QED
        BY <3>1, <3>2
    <2>8. app[r] \notin endpoint' \/ Due(r, <<"endpoint", "delete">>)'
      <3>1. Head(todo[r]) = <<"endpoint", "delete">> => DeleteEndpoints(r)
        BY <1>1, <2>1, ByVerb DEF AtStage
      <3>2. DeleteEndpoints(r) => app[r] \notin endpoint'
        BY DEF DeleteEndpoints
      <3>3. app[r] \notin endpoint => app[r] \notin endpoint'
        BY EndpointKept
      <3>4. QED
        BY <2>2, <2>4, <3>1, <3>2, <3>3 DEF Taken
    <2>9. QED
      BY <1>1, <2>6, <2>7, <2>8 DEF Taken
  <1>5. QED
    BY <1>3, <1>4

LEMMA DeletingStep ==
    Apart /\ Orderly /\ Deleting /\ [Next]_vars => Deleting'
  <1> SUFFICES ASSUME Apart, Orderly, Deleting, [Next]_vars,
                      NEW r \in alone', DeleteCourse(r)'
               PROVE  Taken(r)'
    BY DeletingPartsNext
  <1>1. /\ TypeOK /\ CopyCurrent /\ Homely /\ AtType /\ WorkType /\ DmType
        /\ r \in Run /\ AtType' /\ app[r] \in App
        /\ \A s \in Run : Proper(s)
        /\ r \in alone /\ DeleteCourse(r) => Taken(r)
    <2>1. TypeOK' /\ AtType' /\ r \in Run
      BY TypeStep, TypePartsNext DEF Apart, AtType
    <2>2. QED
      BY <2>1, TypeParts, OrderlyParts, DeletingParts DEF Apart, WorkType, AtType
  <1>2. ASSUME NEW s \in Run, Kfctl(s) \/ Kill(s) PROVE Taken(r)'
    <2>1. status[s] = "running" /\ r \in alone
      BY <1>1, <1>2, KeepsOthers
    <2>2. s = r
      BY <1>1, <1>2, <2>1 DEF Homely, Running
    <2>3. QED
      BY <1>1, <1>2, <2>1, <2>2, RunTakes
  <1>3. ASSUME NEW s \in Run, NEW c \in Command, NEW b \in App, Start(s, c, b)
        PROVE  Taken(r)'
    <2>1. r = s
      BY <1>3 DEF Start
    <2>2. /\ cmd'[r] = c /\ todo'[r] = Stages(c) /\ c \in AnyCommand
          /\ c.storage \in BOOLEAN /\ r \notin mid'
      BY <1>1, <1>3, <2>1 DEF Start, AtType, AnyCommand
    <2>3. c.verb = "delete" /\ c.what # "k8s"
      BY <2>2 DEF DeleteCourse, OnCourse
    <2>4. QED
      BY <1>1, <2>2, <2>3, AllDue
  \* All other steps leave the run and its application's deployments and binding.
  <1>4. ASSUME UNCHANGED <<cmd, app, status, todo, mid, waits, alone, dm>>,
               app[r] \in policy' => app[r] \in policy,
               r \in alone /\ DeleteCourse(r) /\ Taken(r) =>
                   (app[r] \notin endpoint' \/ Due(r, <<"endpoint", "delete">>))
        PROVE  Taken(r)'
    <2>1. r \in alone /\ DeleteCourse(r) /\ Taken(r)
      BY <1>1, <1>4 DEF DeleteCourse, OnCourse
    <2>2. \A x : Due(r, x)' <=> Due(r, x)
      BY <1>4 DEF Due
    <2>3. QED
      BY <1>4, <2>1, <2>2 DEF Taken, Removed, AtStage
  <1>5. ASSUME NEW b \in App, NEW d \in Deployment, NEW ok \in BOOLEAN, OpEnds(b, d, ok)
        PROVE  Taken(r)'
    <2>1. UNCHANGED <<cmd, app, status, todo, mid, alone, policy, endpoint>>
      BY <1>5 DEF OpEnds, history
    <2>2. Taken(r)
      BY <1>1, <2>1 DEF DeleteCourse, OnCourse
    <2>3. \A x : Due(r, x)' <=> Due(r, x)
      BY <2>1 DEF Due
    <2>4. ASSUME NEW e \in Deployment PROVE Removed(r, e)'
      <3>1. Removed(r, e)
        BY <2>2 DEF Taken
      <3>2. /\ ~ (app[r] = b /\ e = d) => dm'[app[r]][e] = dm[app[r]][e]
            /\ (app[r] = b /\ e = d) =>
                  /\ dm'[app[r]][e].op =
                        IF ok /\ dm[app[r]][e].op = "deleting" THEN "none" ELSE "done"
                  /\ Busy(app[r], e)
        BY <1>1, <1>5, OpEndsEffect
      <3>3. CASE app[r] = b /\ e = d
        <4>1. dm[app[r]][e].op # "none"
          BY <3>2, <3>3 DEF Busy
        <4>2. ASSUME r \in mid, AtStage(r, "remove", e)
              PROVE  /\ waits'[r] # "running"
                     /\ waits'[r] = "ok" => dm'[app[r]][e].op = "none"
          <5>1. waits[r] = "running" => dm[app[r]][e].op = "deleting"
            BY <3>1, <4>2 DEF Removed
          <5>2. waits[r] # "ok"
            BY <3>1, <4>1, <4>2 DEF Removed
          <5>3. r \in Waiting(b, d)
            BY <1>1, <3>3, <4>2 DEF Waiting, AtStage
          <5>4. waits'[r] = IF waits[r] = "running" THEN IF ok THEN "ok" ELSE "error"
                                                    ELSE waits[r]
            BY <1>1, <1>5, <5>3 DEF OpEnds
          <5>5. QED
            BY <3>2, <3>3, <5>1, <5>2, <5>4
        <4>3. QED
          BY <2>1, <2>3, <3>1, <4>1, <4>2 DEF Removed, AtStage
      <3>4. CASE ~ (app[r] = b /\ e = d)
        <4>1. AtStage(r, "remove", e) => r \notin Waiting(b, d)
          BY <3>4 DEF Waiting, AtStage
        <4>2. AtStage(r, "remove", e) => waits'[r] = waits[r]
          BY <1>1, <1>5, <4>1 DEF OpEnds
        <4>3. QED
          BY <2>1, <2>3, <3>1, <3>2, <3>4, <4>2 DEF Removed, AtStage
      <3>5. QED
        BY <3>3, <3>4
    <2>5. QED
      BY <2>1, <2>2, <2>3, <2>4 DEF Taken
  <1>6. ASSUME NEW b \in App, EndpointAppears(b) PROVE Taken(r)'
    <2>1. /\ UNCHANGED <<cmd, app, status, todo, mid, waits, alone, dm, policy>>
          /\ endpoint' = endpoint \union {b}
      BY <1>6 DEF EndpointAppears, local, history
    <2>2. ASSUME DeleteCourse(r), Taken(r), app[r] = b
          PROVE  Due(r, <<"endpoint", "delete">>)
      <3>1. "cluster" \in Deployment /\ "cluster" # "storage"
        BY DEF Deployment
      <3>2. dm[b]["cluster"].live > 0
        BY <1>6 DEF EndpointAppears, Up
      <3>3. dm[b]["cluster"].op # "none"
        BY <3>1, <3>2 DEF Orderly
      <3>4. Due(r, <<"remove", "cluster">>)
        BY <2>2, <3>1, <3>3 DEF Taken, Removed
      <3>5. DeletePlan(todo[r], cmd[r].what) /\ todo[r] \in Seq(Stage)
        BY <1>1, <2>2 DEF DeleteCourse, OnCourse, Proper, AtType
      <3>6. Len(todo[r]) \in 1 .. Len(todo[r]) /\ todo[r] # << >>
        BY <3>4, <3>5, LenProperties, EmptySeq DEF Due
      <3>7. todo[r][Len(todo[r])] = <<"endpoint", "delete">>
        BY <2>2, <3>5, <3>6 DEF DeletePlan, DeleteCourse
      <3>8. QED
        BY <3>6, <3>7 DEF Due
    <2>3. r \in alone /\ DeleteCourse(r) /\ Taken(r) =>
             (app[r] \notin endpoint' \/ Due(r, <<"endpoint", "delete">>))
      BY <2>1, <2>2 DEF Taken
    <2>4. QED
      BY <1>4, <2>1, <2>3
  <1>7. ASSUME OutsideEdit PROVE Taken(r)'
    <2>1. UNCHANGED <<cmd, app, status, todo, mid, waits, alone, dm, endpoint>>
      BY <1>7 DEF OutsideEdit, local, history
    <2>2. app[r] \in policy' => app[r] \in policy
      BY <1>1, <1>7 DEF OutsideEdit
    <2>3. QED
      BY <1>4, <2>1, <2>2 DEF Taken
  <1>8. CASE (\E b \in App : Generate(b) \/ NamespaceGone(b)) \/ UNCHANGED vars
    <2>1. UNCHANGED <<cmd, app, status, todo, mid, waits, alone, dm, policy, endpoint>>
      BY <1>8 DEF Generate, NamespaceGone, vars, world, local, history
    <2>2. QED
      BY <1>4, <2>1 DEF Taken
  <1>9. QED
    BY <1>2, <1>3, <1>5, <1>6, <1>7, <1>8 DEF Next

-----------------------------------------------------------------------------
LEMMA PlatformInit == Init => IndInv
  <1> SUFFICES ASSUME Init PROVE IndInv
    OBVIOUS
  <1>1. Apart
    BY ApartInit
  <1>2. Orderly
    <2>1. Len(<< >>) = 0
      BY EmptySeq
    <2>2. /\ \A r \in Run : todo[r] = << >> /\ waits[r] = "running"
          /\ mid = {}
          /\ \A a \in App, d \in Deployment : dm[a][d] = [op |-> "none", sent |-> 0, live |-> 0]
      BY DEF Init
    <2>3. ApplyPlan(<< >>) /\ \A what : DeletePlan(<< >>, what)
      BY <2>1 DEF ApplyPlan, DeletePlan
    <2>4. QED
      BY <2>2, <2>3 DEF Orderly
  <1>3. Agreeing /\ Applying /\ Deleting
    BY DEF Init, Agreeing, Applying, Deleting
  <1>4. QED
    BY <1>1, <1>2, <1>3 DEF IndInv

LEMMA PlatformStep == IndInv /\ [Next]_vars => IndInv'
  BY ApartStep, OrderlyStep, AgreeingStep, ApplyingStep, DeletingStep DEF IndInv, Apart

\* Applies of an application that began at rest, and did not fail, have still to do
\* what is not done, and nothing takes back what is; a delete of the platform that
\* is alone has still to take away what is there.
THEOREM Invariant == Spec => []IndInv
  BY PlatformInit, PlatformStep, PTL DEF Spec

\* Whatever shells apply the platform of one application, at once or one after the
\* other, and whatever else kfctl does to other applications: when the applies have
\* ended well, its platform is whole (Gcp.Apply: "Need to be thread-safe").
THEOREM AppliesAgreeCorrect == Spec => []AppliesAgree
  <1>1. IndInv => AppliesAgree
    <2> SUFFICES ASSUME IndInv, NEW a \in sound, \A r \in Running : app[r] # a
                 PROVE  PlatformMade(a)
      BY DEF AppliesAgree
    <2>1. Agree(a) /\ WorkType /\ a \in App
      BY AgreeParts, TypeParts DEF IndInv, Apart, WorkType
    <2>2. \A x : ~ Coming(a, x)
      BY DEF Coming
    <2>3. \A d \in Deployment : dm[a][d].live = gen[a]
      BY <2>1, <2>2 DEF Agree, Deployed
    <2>4. MembersOf(a) \subseteq policy /\ kube[a].ns = "active"
      BY <2>1, <2>2 DEF Agree, InCluster
    <2>5. kube[a].made = Object
      <3>1. \A o \in Object : o \in kube[a].made
        BY <2>1, <2>2 DEF Agree, InCluster
      <3>2. kube[a].made \subseteq Object
        BY <2>1 DEF WorkType, KubeType
      <3>3. QED
        BY <3>1, <3>2
    <2>6. QED
      BY <2>3, <2>4, <2>5 DEF PlatformMade
  <1>2. QED
    BY <1>1, Invariant, PTL

\* What a lonely `kfctl apply all` promises when it returns nil: the platform, every
\* component, in its own cluster, and the kubeconfig pointing to it.
THEOREM OkCorrect == Spec => []OkMeansApplied
  <1>1. IndInv /\ AppliesAgree => OkMeansApplied
    <2> SUFFICES ASSUME IndInv, AppliesAgree, NEW r \in alone,
                        status[r] = "ok", app[r] \in sound,
                        cmd[r].verb = "apply", cmd[r].what = "all"
                 PROVE  /\ PlatformMade(app[r]) /\ kube[app[r]].comps = Component
                        /\ context = app[r]
      BY DEF OkMeansApplied
    <2>1. AtType /\ r \in Run
      BY TypeParts DEF IndInv, Apart, AtType
    <2>2. r \notin Running /\ \A s \in Running : app[s] # app[r]
      BY DEF Running, IndInv, Apart, Homely
    <2>3. Brought(r)
      BY ApplyingParts DEF IndInv, ApplyCourse, OnCourse
    <2>4. \A x : ~ Due(r, x)
      <3>1. todo[r] = << >> /\ Len(<< >>) = 0
        BY <2>1, EmptySeq DEF AtType
      <3>2. QED
        BY <3>1 DEF Due
    <2>5. PlatformMade(app[r])
      BY <2>2 DEF AppliesAgree
    <2>6. QED
      BY <2>3, <2>4, <2>5 DEF Brought
  <1>2. QED
    BY <1>1, Invariant, AppliesAgreeCorrect, PTL

\* What a lonely `kfctl delete` of the platform promises when it returns nil: no
\* cluster, no binding of the application's service accounts, no endpoint and no
\* storage that was to go, even when commands that failed or were killed had left operations under way.
THEOREM DeletedCorrect == Spec => []DeletedMeansGone
  <1>1. IndInv => DeletedMeansGone
    <2> SUFFICES ASSUME IndInv, NEW r \in alone, status[r] = "ok",
                        cmd[r].verb = "delete", cmd[r].what # "k8s"
                 PROVE  /\ \A d \in Deployment \ {"storage"} : dm[app[r]][d].op = "none"
                        /\ cmd[r].storage => dm[app[r]]["storage"].op = "none"
                        /\ app[r] \notin policy
                        /\ app[r] \notin endpoint
      BY DEF DeletedMeansGone
    <2>1. AtType /\ r \in Run /\ "storage" \in Deployment
      BY TypeParts DEF IndInv, Apart, AtType, Deployment
    <2>2. Taken(r)
      BY DeletingParts DEF IndInv, DeleteCourse, OnCourse
    <2>3. \A x : ~ Due(r, x)
      <3>1. todo[r] = << >> /\ Len(<< >>) = 0
        BY <2>1, EmptySeq DEF AtType
      <3>2. QED
        BY <3>1 DEF Due
    <2>4. QED
      BY <2>1, <2>2, <2>3 DEF Taken, Removed
  <1>2. QED
    BY <1>1, Invariant, PTL

=============================================================================
