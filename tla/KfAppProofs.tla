---------------------------- MODULE KfAppProofs ----------------------------
(***************************************************************************)
(* The directory of a kfctl application, for any versions of the           *)
(* repository, however long its files are, and any number of commands and  *)
(* interruptions.                                                          *)
(***************************************************************************)
EXTENDS KfApp, SequenceTheorems, TLAPS

-----------------------------------------------------------------------------
(* What a command has to do *)

\* The three kinds of commands and their fields.
LEMMA CommandCases ==
    ASSUME NEW c \in Command
    PROVE  /\ c # None
           /\ \/ /\ c.kind = "init" /\ c.platform \in Platform /\ c.version \in Version
                 /\ c.reports \in BOOLEAN
              \/ /\ c.kind = "generate" /\ c.resources \in {"all", "k8s", "platform"}
                 /\ c.flags \in BOOLEAN
              \/ c.kind = "show"
BY NoneAssumption, SMTT(30) DEF Command

Stage == {"download", "project", "save", "load", "copies", "iam", "cluster", "storage", "params",
          "initKs", "registry", "packages", "components", "paramSet",
          "show", "render", "mkdir", "yaml"}

LEMMA InitStages ==
    ASSUME NEW c, c.kind = "init", NEW p \in Platform, NEW s, s = Stages(c, p)
    PROVE  /\ s \in Seq(Stage) /\ Len(s) = IF p = "gcp" THEN 5 ELSE 3
           /\ s[1] = "download"
           /\ p = "gcp" => s[2] = "save" /\ s[3] = "project" /\ s[4] = "load" /\ s[5] = "save"
           /\ p # "gcp" => s[2] = "load" /\ s[3] = "save"
<1>1. CASE p = "gcp"
  BY <1>1 DEF Stages, InitPlatform, Stage
<1>2. CASE p # "gcp"
  BY <1>2 DEF Stages, InitPlatform, Stage
<1> QED BY <1>1, <1>2

LEMMA ShowStages ==
    ASSUME NEW c, c.kind = "show", NEW p \in Platform, NEW s, s = Stages(c, p)
    PROVE  /\ s \in Seq(Stage) /\ Len(s) = IF p = "none" THEN 4 ELSE 1
           /\ p # "none" => s[1] = "show"
           /\ p = "none" => s[1] = "load" /\ s[2] = "render" /\ s[3] = "mkdir" /\ s[4] = "yaml"
<1>1. CASE p = "none"
  <2>1. s = <<"load", "render", "mkdir", "yaml">>
    BY <1>1 DEF Stages
  <2>2. /\ s \in Seq(Stage) /\ Len(s) = 4
        /\ s[1] = "load" /\ s[2] = "render" /\ s[3] = "mkdir" /\ s[4] = "yaml"
    BY <2>1 DEF Stage
  <2> QED BY <1>1, <2>2
<1>2. CASE p # "none"
  <2>1. s = <<"show">>
    BY <1>2 DEF Stages
  <2>2. s \in Seq(Stage) /\ Len(s) = 1 /\ s[1] = "show"
    BY <2>1 DEF Stage
  <2> QED BY <1>2, <2>2
<1> QED BY <1>1, <1>2

LEMMA K8sStages ==
    /\ GenerateK8s \in Seq(Stage) /\ Len(GenerateK8s) = 7
    /\ GenerateK8s[1] = "load" /\ GenerateK8s[2] = "initKs" /\ GenerateK8s[3] = "registry"
    /\ GenerateK8s[4] = "packages" /\ GenerateK8s[5] = "components"
    /\ GenerateK8s[6] = "paramSet" /\ GenerateK8s[7] = "save"
BY DEF GenerateK8s, Stage

LEMMA PlatformStages ==
    ASSUME NEW p \in Platform, NEW s, s = GeneratePlatform(p)
    PROVE  /\ s \in Seq(Stage)
           /\ (p = "gcp" => Len(s) = 6) /\ (p = "minikube" => Len(s) = 2)
           /\ p = "none" => Len(s) = 0
           /\ p = "gcp" => /\ s[1] = "copies" /\ s[2] = "iam" /\ s[3] = "cluster"
                           /\ s[4] = "storage" /\ s[5] = "params" /\ s[6] = "save"
           /\ p = "minikube" => s[1] = "params" /\ s[2] = "save"
<1>1. CASE p = "gcp"
  BY <1>1 DEF GeneratePlatform, Stage
<1>2. CASE p = "minikube"
  BY <1>2 DEF GeneratePlatform, Stage
<1>3. CASE p = "none"
  <2>1. s = <<>> /\ p # "gcp" /\ p # "minikube"
    BY <1>3 DEF GeneratePlatform
  <2>2. s \in Seq(Stage) /\ Len(s) = 0
    BY <2>1
  <2> QED BY <2>1, <2>2
<1> QED BY <1>1, <1>2, <1>3 DEF Platform

Halves(s, p, n, m) ==
    /\ s \in Seq(Stage) /\ Len(s) = n + m
    /\ \A i \in 1 .. n : s[i] = GeneratePlatform(p)[i]
    /\ \A i \in 1 .. m : s[n + i] = GenerateK8s[i]

\* The platform's stages come first, then the package manager's.
LEMMA GenerateStages ==
    ASSUME NEW c, c.kind = "generate", c.resources \in {"all", "k8s", "platform"},
           NEW p \in Platform, NEW s, s = Stages(c, p)
    PROVE  \E n \in Nat, m \in {0, 7} :
              /\ c.resources = "k8s" => n = 0
              /\ c.resources # "k8s" => n = Len(GeneratePlatform(p))
              /\ c.resources = "platform" => m = 0
              /\ c.resources # "platform" => m = 7
              /\ Halves(s, p, n, m)
<1> DEFINE a == IF c.resources = "k8s" THEN <<>> ELSE GeneratePlatform(p)
           b == IF c.resources = "platform" THEN <<>> ELSE GenerateK8s
<1>1. s = a \o b
  BY DEF Stages
<1> HIDE DEF a, b
<1>2. a \in Seq(Stage) /\ b \in Seq(Stage)
  BY PlatformStages, K8sStages DEF a, b
<1>3. Len(b) = IF c.resources = "platform" THEN 0 ELSE 7
  BY K8sStages DEF b
<1>4. Len(a) = IF c.resources = "k8s" THEN 0 ELSE Len(GeneratePlatform(p))
  BY DEF a
<1>5. s \in Seq(Stage) /\ Len(s) = Len(a) + Len(b)
        /\ Len(a) \in Nat /\ Len(b) \in Nat
        /\ \A i \in 1 .. Len(a) + Len(b) :
              s[i] = IF i <= Len(a) THEN a[i] ELSE b[i - Len(a)]
  BY <1>1, <1>2, ConcatProperties, LenProperties
<1>6. \A i \in 1 .. Len(a) : s[i] = a[i]
  BY <1>5
<1>7. ASSUME NEW i \in 1 .. Len(b) PROVE s[Len(a) + i] = b[i]
  <2>1. Len(a) + i \in 1 .. Len(a) + Len(b) /\ ~ (Len(a) + i <= Len(a))
        /\ (Len(a) + i) - Len(a) = i
    BY <1>5
  <2> QED BY <1>5, <2>1
<1>8. Len(GeneratePlatform(p)) \in Nat
  BY PlatformStages
<1>9. Len(b) \in {0, 7}
  BY <1>3
<1>10. \A i \in 1 .. Len(a) : s[i] = GeneratePlatform(p)[i]
  BY <1>4, <1>6 DEF a
<1>11. \A i \in 1 .. Len(b) : s[Len(a) + i] = GenerateK8s[i]
  BY <1>3, <1>7 DEF b
<1>12. Len(a) \in Nat /\ s \in Seq(Stage) /\ Len(s) = Len(a) + Len(b)
  BY <1>5
<1>13. Halves(s, p, Len(a), Len(b))
  BY <1>10, <1>11, <1>12 DEF Halves
<1> QED BY <1>3, <1>4, <1>9, <1>12, <1>13

-----------------------------------------------------------------------------
(* What is left of it *)

Has(t, x) == \E j \in 1 .. Len(t) : t[j] = x
After(i, t, s) == t = SubSeq(s, i + 1, Len(s))
Rest(t, s) == \E i \in 0 .. Len(s) : After(i, t, s)

LEMMA RestIs ==
    ASSUME NEW S, NEW s \in Seq(S), NEW i \in 0 .. Len(s), NEW t, After(i, t, s)
    PROVE  /\ t \in Seq(S) /\ Len(s) \in Nat /\ Len(t) = Len(s) - i
           /\ \A j \in 1 .. Len(t) : t[j] = s[i + j]
           /\ t = <<>> => i = Len(s)
           /\ i = Len(s) => t = <<>>
           /\ i < Len(s) => /\ Head(t) = s[i + 1] /\ After(i + 1, Tail(t), s)
                            /\ Len(Tail(t)) = Len(t) - 1
<1>1. Len(s) \in Nat
  OBVIOUS
<1>2. /\ t \in Seq(S) /\ Len(t) = Len(s) - i
      /\ \A j \in 1 .. Len(t) : t[j] = s[i + j]
  BY <1>1, SubSeqProperties DEF After
<1>3. (t = <<>> => i = Len(s)) /\ (i = Len(s) => t = <<>>)
  <2>1. \A u \in Seq(S) : u = <<>> <=> Len(u) = 0
    BY EmptySeq
  <2>2. t = <<>> <=> Len(t) = 0
    BY <1>2, <2>1, Zenon
  <2>3. Len(t) = 0 <=> i = Len(s)
    BY <1>1, <1>2
  <2> QED BY <2>2, <2>3
<1>4. ASSUME i < Len(s) PROVE Head(t) = s[i + 1] /\ Len(Tail(t)) = Len(t) - 1
  <2>1. t # <<>> /\ 1 \in 1 .. Len(t)
    BY <1>1, <1>2, <1>3, <1>4
  <2>2. Head(t) = t[1] /\ Len(Tail(t)) = Len(t) - 1
    BY <1>2, <2>1, HeadTailProperties
  <2> QED BY <1>2, <2>1, <2>2
<1>5. ASSUME i < Len(s) PROVE Tail(t) = SubSeq(s, i + 2, Len(s))
  <2> DEFINE u == SubSeq(s, i + 2, Len(s))
  <2>1. t # <<>>
    BY <1>3, <1>5
  <2>2. /\ Tail(t) \in Seq(S) /\ Len(Tail(t)) = Len(t) - 1
        /\ \A j \in 1 .. Len(Tail(t)) : Tail(t)[j] = t[j + 1]
    BY <1>2, <2>1, HeadTailProperties
  <2>3. /\ u \in Seq(S) /\ Len(u) = Len(s) - (i + 1)
        /\ \A j \in 1 .. Len(u) : u[j] = s[(i + 1) + j]
    <3>1. i + 1 \in 0 .. Len(s) /\ i + 2 = (i + 1) + 1
      BY <1>1, <1>5
    <3> QED BY <1>1, <3>1, SubSeqProperties
  <2> HIDE DEF u
  <2>4. Len(Tail(t)) = Len(u)
    BY <1>1, <1>2, <2>2, <2>3
  <2>5. ASSUME NEW j \in 1 .. Len(u) PROVE Tail(t)[j] = u[j]
    <3>1. j + 1 \in 1 .. Len(t) /\ i + (j + 1) = (i + 1) + j
      BY <1>1, <1>2, <2>3
    <3> QED BY <1>2, <2>2, <2>3, <2>4, <3>1
  <2>6. Tail(t) = u
    BY <2>2, <2>3, <2>4, <2>5, SeqEqual
  <2> QED BY <2>6 DEF u
<1>6. i < Len(s) => After(i + 1, Tail(t), s)
  <2>1. i < Len(s) => (i + 1) + 1 = i + 2
    BY <1>1
  <2> QED BY <1>5, <2>1 DEF After
<1> QED BY <1>1, <1>2, <1>3, <1>4, <1>6

LEMMA RestNext ==
    ASSUME NEW S, NEW s \in Seq(S), NEW i \in 0 .. Len(s), NEW t, After(i, t, s)
    PROVE  /\ i + 1 < Len(s) => Tail(t) # <<>> /\ Head(Tail(t)) = s[i + 2]
           /\ i + 1 = Len(s) => Tail(t) = <<>>
<1>1. Len(s) \in Nat /\ (i < Len(s) => After(i + 1, Tail(t), s))
  BY RestIs
<1>2. CASE i < Len(s)
  <2>1. i + 1 \in 0 .. Len(s) /\ (i + 1) + 1 = i + 2
    BY <1>1, <1>2
  <2> DEFINE j == i + 1
             u == Tail(t)
  <2>2. j \in 0 .. Len(s) /\ After(j, u, s)
    BY <1>1, <1>2, <2>1
  <2> HIDE DEF j, u
  <2>3. /\ u = <<>> => j = Len(s)
        /\ j = Len(s) => u = <<>>
        /\ j < Len(s) => Head(u) = s[j + 1]
    BY <2>2, RestIs
  <2>4. j < Len(s) => j # Len(s)
    BY <1>1, <2>2
  <2> QED BY <2>1, <2>3, <2>4 DEF j, u
<1> QED BY <1>1, <1>2

LEMMA RestAt ==
    ASSUME NEW S, NEW s \in Seq(S), NEW i \in 0 .. Len(s), NEW t, After(i, t, s), t # <<>>
    PROVE  /\ i < Len(s) /\ Len(s) \in Nat
           /\ Head(t) = s[i + 1]
           /\ i + 1 < Len(s) => Tail(t) # <<>> /\ Head(Tail(t)) = s[i + 2]
           /\ i + 1 = Len(s) => Tail(t) = <<>>
<1>1. Len(s) \in Nat /\ i # Len(s)
  BY RestIs
<1>2. i < Len(s)
  BY <1>1
<1>3. Head(t) = s[i + 1]
  BY <1>2, RestIs
<1>4. /\ i + 1 < Len(s) => Tail(t) # <<>> /\ Head(Tail(t)) = s[i + 2]
      /\ i + 1 = Len(s) => Tail(t) = <<>>
  BY RestNext
<1> QED BY <1>1, <1>2, <1>3, <1>4

\* What is behind is not due again, unless it is to be done twice.
LEMMA HasFrom ==
    ASSUME NEW S, NEW s \in Seq(S), NEW i \in 0 .. Len(s), NEW t, After(i, t, s),
           NEW k \in 1 .. Len(s)
    PROVE  /\ k > i => Has(t, s[k])
           /\ (k <= i /\ \A l \in 1 .. Len(s) : s[l] = s[k] => l = k) => ~ Has(t, s[k])
<1>1. /\ Len(s) \in Nat /\ Len(t) = Len(s) - i
      /\ \A j \in 1 .. Len(t) : t[j] = s[i + j]
  BY RestIs
<1>2. ASSUME k > i PROVE Has(t, s[k])
  <2>1. k - i \in 1 .. Len(t) /\ i + (k - i) = k
    BY <1>1, <1>2
  <2>2. t[k - i] = s[k]
    BY <1>1, <2>1
  <2> QED BY <2>1, <2>2 DEF Has
<1>3. ASSUME k <= i, \A l \in 1 .. Len(s) : s[l] = s[k] => l = k,
             NEW j \in 1 .. Len(t), t[j] = s[k]
      PROVE  FALSE
  <2>1. i + j \in 1 .. Len(s) /\ i + j # k
    BY <1>1, <1>3
  <2>2. s[i + j] = s[k]
    BY <1>1, <1>3
  <2> QED BY <1>3, <2>1, <2>2
<1> QED BY <1>2, <1>3 DEF Has

LEMMA K8sDiffer ==
    \A k \in 1 .. 6, l \in 1 .. 7 : GenerateK8s[l] = GenerateK8s[k] => l = k
<1> SUFFICES ASSUME NEW k \in 1 .. 6, NEW l \in 1 .. 7, GenerateK8s[l] = GenerateK8s[k]
             PROVE  l = k
  OBVIOUS
<1>1. k = 1 \/ k = 2 \/ k = 3 \/ k = 4 \/ k = 5 \/ k = 6
  OBVIOUS
<1>2. l = 1 \/ l = 2 \/ l = 3 \/ l = 4 \/ l = 5 \/ l = 6 \/ l = 7
  OBVIOUS
<1> QED BY <1>1, <1>2, K8sStages

LEMMA RestHead ==
    ASSUME NEW S, NEW s \in Seq(S), NEW t, Rest(t, s)
    PROVE  /\ t \in Seq(S) /\ Len(t) \in Nat /\ Len(t) <= Len(s) /\ Len(s) \in Nat
           /\ t = <<>> <=> Len(t) = 0
           /\ t # <<>> => /\ Head(t) = s[Len(s) - Len(t) + 1] /\ Rest(Tail(t), s)
                          /\ Len(Tail(t)) = Len(t) - 1
<1>1. PICK i \in 0 .. Len(s) : After(i, t, s)
  BY DEF Rest
<1>2. /\ t \in Seq(S) /\ Len(s) \in Nat /\ Len(t) = Len(s) - i
      /\ (t = <<>> => i = Len(s)) /\ (i = Len(s) => t = <<>>)
      /\ i < Len(s) => /\ Head(t) = s[i + 1] /\ After(i + 1, Tail(t), s)
                       /\ Len(Tail(t)) = Len(t) - 1
  BY <1>1, RestIs
<1>3. ASSUME i < Len(s) PROVE Rest(Tail(t), s)
  <2>1. i + 1 \in 0 .. Len(s) /\ i + 2 = (i + 1) + 1
    BY <1>2, <1>3
  <2> QED BY <1>2, <1>3, <2>1 DEF Rest
<1>4. t # <<>> => i < Len(s) /\ i + 1 = Len(s) - Len(t) + 1
  BY <1>2
<1> QED BY <1>2, <1>3, <1>4

LEMMA ShowLeft ==
    ASSUME NEW c, c.kind = "show", NEW p \in Platform, NEW s, s = Stages(c, p),
           NEW t, Rest(t, s), t # <<>>
    PROVE  /\ p # "none" => Head(t) = "show"
           /\ p = "none" => Head(t) \in {"load", "render", "mkdir", "yaml"}
<1>1. s \in Seq(Stage)
  BY ShowStages
<1>2. /\ Len(t) \in Nat /\ Len(t) <= Len(s) /\ Len(t) # 0
      /\ Head(t) = s[Len(s) - Len(t) + 1]
  BY <1>1, RestHead
<1>3. CASE p # "none"
  <2>1. Len(s) = 1 /\ s[1] = "show"
    BY <1>3, ShowStages
  <2>2. Len(s) - Len(t) + 1 = 1
    <3>1. Len(s) = 1
      BY <2>1
    <3> QED BY <1>2, <3>1
  <2> QED BY <1>2, <1>3, <2>1, <2>2
<1>4. CASE p = "none"
  <2>1. Len(s) = 4
    BY <1>4, ShowStages
  <2>2. Len(s) - Len(t) + 1 \in 1 .. 4
    BY <1>2, <2>1
  <2>3. s[1] = "load" /\ s[2] = "render" /\ s[3] = "mkdir" /\ s[4] = "yaml"
    BY <1>4, ShowStages
  <2>4. \A i \in 1 .. 4 : s[i] \in {"load", "render", "mkdir", "yaml"}
    BY <2>3
  <2> QED BY <1>2, <1>4, <2>2, <2>4
<1> QED BY <1>3, <1>4

LEMMA InitLeft ==
    ASSUME NEW c, c.kind = "init", NEW p \in Platform, NEW s, s = Stages(c, p),
           NEW t, Rest(t, s), t # <<>>
    PROVE  /\ Head(t) \in {"download", "save", "project", "load"}
           /\ Head(t) # "download" => ~ Has(t, "download")
           /\ Tail(t) = <<>> => Head(t) = "save"
           /\ Head(t) = "download" /\ p = "gcp" => Tail(t) # <<>> /\ Head(Tail(t)) = "save"
           /\ Head(t) \in {"project", "load"} => Tail(t) # <<>>
           /\ Head(t) = "project" => p = "gcp" /\ Head(Tail(t)) = "load"
           /\ Head(t) = "load" => Head(Tail(t)) = "save"
           /\ Head(t) = "save" /\ Tail(t) # <<>> => p = "gcp" /\ Head(Tail(t)) = "project"
<1>1. s \in Seq(Stage) /\ s[1] = "download"
  BY InitStages
<1>2. PICK i \in 0 .. Len(s) : After(i, t, s)
  BY DEF Rest
<1>3. /\ i # Len(s)
      /\ i < Len(s) => Head(t) = s[i + 1] /\ After(i + 1, Tail(t), s)
  BY <1>1, <1>2, RestIs
<1>4. ASSUME 1 \in 1 .. Len(s), \A l \in 1 .. Len(s) : s[l] = s[1] => l = 1, 1 <= i
      PROVE  ~ Has(t, "download")
  BY <1>1, <1>2, <1>4, HasFrom
<1>5. i + 1 < Len(s) => Tail(t) # <<>> /\ Head(Tail(t)) = s[i + 2]
  BY <1>1, <1>2, RestNext
<1>6. i + 1 = Len(s) => Tail(t) = <<>>
  BY <1>1, <1>2, RestNext
<1>7. CASE p = "gcp"
  <2>1. Len(s) = 5
    BY <1>7, InitStages
  <2>2. s[2] = "save" /\ s[3] = "project" /\ s[4] = "load" /\ s[5] = "save"
    BY <1>7, InitStages
  <2>3. \A l \in 1 .. 5 : l = 1 \/ l = 2 \/ l = 3 \/ l = 4 \/ l = 5
    OBVIOUS
  <2>4. \A l \in 1 .. Len(s) : s[l] = s[1] => l = 1
    BY <1>1, <2>1, <2>2, <2>3
  <2>5. i = 0 \/ i = 1 \/ i = 2 \/ i = 3 \/ i = 4
    BY <1>3, <2>1
  <2>6. CASE i = 0
    BY <1>1, <1>3, <1>5, <1>7, <2>1, <2>2, <2>6
  <2>7. CASE i = 1
    BY <1>1, <1>3, <1>4, <1>5, <1>7, <2>1, <2>2, <2>4, <2>7
  <2>8. CASE i = 2
    BY <1>1, <1>3, <1>4, <1>5, <1>7, <2>1, <2>2, <2>4, <2>8
  <2>9. CASE i = 3
    BY <1>1, <1>3, <1>4, <1>5, <1>7, <2>1, <2>2, <2>4, <2>9
  <2>10. CASE i = 4
    BY <1>1, <1>3, <1>4, <1>6, <1>7, <2>1, <2>2, <2>4, <2>10
  <2> QED BY <2>5, <2>6, <2>7, <2>8, <2>9, <2>10
<1>8. CASE p # "gcp"
  <2>1. Len(s) = 3
    BY <1>8, InitStages
  <2>2. s[2] = "load" /\ s[3] = "save"
    BY <1>8, InitStages
  <2>3. \A l \in 1 .. 3 : l = 1 \/ l = 2 \/ l = 3
    OBVIOUS
  <2>4. \A l \in 1 .. Len(s) : s[l] = s[1] => l = 1
    BY <1>1, <2>1, <2>2, <2>3
  <2>5. i = 0 \/ i = 1 \/ i = 2
    BY <1>3, <2>1
  <2>6. CASE i = 0
    BY <1>1, <1>3, <1>5, <1>8, <2>1, <2>2, <2>6
  <2>7. CASE i = 1
    BY <1>1, <1>3, <1>4, <1>5, <1>8, <2>1, <2>2, <2>4, <2>7
  <2>8. CASE i = 2
    BY <1>1, <1>3, <1>4, <1>6, <1>8, <2>1, <2>2, <2>4, <2>8
  <2> QED BY <2>5, <2>6, <2>7, <2>8
<1> QED BY <1>7, <1>8

Following(t, s, k, n) ==
    /\ Head(t) = s[k]
    /\ k = n => Head(Tail(t)) = "load"
    /\ k # n => Head(Tail(t)) # "load"

\* A sequence that ends with the stages of the package manager: what is left of
\* it begins with one of these, or has all of them to come.
LEMMA K8sLeft ==
    ASSUME NEW s \in Seq(Stage), NEW n \in Nat, Len(s) = n + 7,
           \A l \in 1 .. 7 : s[n + l] = GenerateK8s[l],
           \A k \in 1 .. n, l \in 1 .. 6 : s[k] # GenerateK8s[l],
           NEW t, Rest(t, s), t # <<>>
    PROVE  \/ \E j \in 1 .. 6 :
                /\ Head(t) = GenerateK8s[j] /\ Tail(t) # <<>> /\ ~ Has(Tail(t), GenerateK8s[j])
                /\ \A l \in 1 .. 6 : (l >= j => Has(t, GenerateK8s[l]))
                                     /\ (l < j => ~ Has(t, GenerateK8s[l]))
           \/ /\ Head(t) = "save" /\ Tail(t) = <<>>
              /\ \A l \in 1 .. 6 : ~ Has(t, GenerateK8s[l])
           \/ /\ \A l \in 1 .. 6 : Has(t, GenerateK8s[l])
              /\ Tail(t) # <<>>
              /\ \E k \in 1 .. n : Following(t, s, k, n)
<1>1. PICK i \in 0 .. Len(s) : After(i, t, s)
  BY DEF Rest
<1>2. /\ i < Len(s) /\ Len(s) \in Nat
      /\ Head(t) = s[i + 1]
      /\ i + 1 < Len(s) => Tail(t) # <<>> /\ Head(Tail(t)) = s[i + 2]
      /\ i + 1 = Len(s) => Tail(t) = <<>>
  BY <1>1, RestAt
<1>3. ASSUME NEW l \in 1 .. 6
      PROVE  /\ n + l > i => Has(t, GenerateK8s[l])
             /\ n + l <= i => ~ Has(t, GenerateK8s[l])
             /\ n + l = i + 1 => ~ Has(Tail(t), GenerateK8s[l])
  <2>1. n + l \in 1 .. Len(s) /\ s[n + l] = GenerateK8s[l]
    OBVIOUS
  <2>2. ASSUME NEW k \in 1 .. Len(s), s[k] = s[n + l] PROVE k = n + l
    <3>1. ~ (k \in 1 .. n)
      BY <2>1, <2>2
    <3>2. k - n \in 1 .. 7 /\ n + (k - n) = k
      BY <3>1
    <3>3. GenerateK8s[k - n] = GenerateK8s[l]
      BY <2>1, <2>2, <3>2
    <3> QED BY <3>2, <3>3, K8sDiffer
  <2>3. \A k \in 1 .. Len(s) : s[k] = s[n + l] => k = n + l
    BY <2>2
  <2>4. /\ n + l > i => Has(t, GenerateK8s[l])
        /\ n + l <= i => ~ Has(t, GenerateK8s[l])
    BY <1>1, <2>1, <2>3, HasFrom
  <2>5. ASSUME n + l = i + 1 PROVE ~ Has(Tail(t), GenerateK8s[l])
    <3> DEFINE e == i + 1
               u == Tail(t)
    <3>1. e \in 0 .. Len(s) /\ n + l <= e
      BY <1>2, <2>5
    <3>2. After(e, u, s)
      BY <1>1, <1>2, RestIs
    <3> HIDE DEF e, u
    <3>3. ~ Has(u, s[n + l])
      BY <2>1, <2>3, <3>1, <3>2, HasFrom
    <3> QED BY <2>1, <3>3 DEF u
  <2> QED BY <2>4, <2>5
<1>4. CASE i < n
  <2>1. i + 1 \in 1 .. n /\ (i + 1 = n => i + 2 = n + 1) /\ i + 1 < Len(s)
        /\ (i + 1 # n => i + 2 \in 1 .. n)
    BY <1>4
  <2>2. s[n + 1] = "load" /\ \A k \in 1 .. n : s[k] # "load"
    BY K8sStages
  <2>3. \A l \in 1 .. 6 : Has(t, GenerateK8s[l])
    BY <1>3, <1>4
  <2>4. Following(t, s, i + 1, n)
    BY <1>2, <2>1, <2>2 DEF Following
  <2> QED BY <1>2, <2>1, <2>3, <2>4
<1>5. CASE i = n + 6
  <2>1. i + 1 = n + 7 /\ i + 1 = Len(s)
    BY <1>5
  <2>2. s[n + 7] = "save"
    BY K8sStages
  <2>3. \A l \in 1 .. 6 : ~ Has(t, GenerateK8s[l])
    BY <1>3, <1>5
  <2> QED BY <1>2, <2>1, <2>2, <2>3
<1>6. CASE n <= i /\ i < n + 6
  <2> DEFINE j == i - n + 1
  <2>1. j \in 1 .. 6 /\ n + j = i + 1 /\ i + 1 < Len(s)
    BY <1>2, <1>6
  <2>2. Head(t) = GenerateK8s[j] /\ Tail(t) # <<>> /\ ~ Has(Tail(t), GenerateK8s[j])
    <3> HIDE DEF j
    <3>1. j \in 1 .. 7
      BY <2>1
    <3>2. s[n + j] = GenerateK8s[j]
      BY <3>1
    <3> QED BY <1>2, <1>3, <2>1, <3>2
  <2>3. ASSUME NEW l \in 1 .. 6
        PROVE  (l >= j => n + l > i) /\ (l < j => n + l <= i)
    BY <1>2
  <2>4. \A l \in 1 .. 6 : (l >= j => Has(t, GenerateK8s[l]))
                          /\ (l < j => ~ Has(t, GenerateK8s[l]))
    BY <1>3, <2>3
  <2> HIDE DEF j
  <2> QED BY <2>1, <2>2, <2>4
<1>7. i < n \/ i = n + 6 \/ (n <= i /\ i < n + 6)
  BY <1>2
<1> QED BY <1>4, <1>5, <1>6, <1>7

K8sPart == {"load", "initKs", "registry", "packages", "components", "paramSet"}
PlatformPart == {"copies", "iam", "cluster", "storage", "params"}

LEMMA K8sNth ==
    /\ {GenerateK8s[l] : l \in 1 .. 6} = K8sPart
    /\ \A x \in K8sPart : \E l \in 1 .. 6 : x = GenerateK8s[l]
<1>1. \A l \in 1 .. 6 : l = 1 \/ l = 2 \/ l = 3 \/ l = 4 \/ l = 5 \/ l = 6
  OBVIOUS
<1>2. 1 \in 1 .. 6 /\ 2 \in 1 .. 6 /\ 3 \in 1 .. 6 /\ 4 \in 1 .. 6 /\ 5 \in 1 .. 6 /\ 6 \in 1 .. 6
  OBVIOUS
<1>3. \A x \in K8sPart : \E l \in 1 .. 6 : x = GenerateK8s[l]
  BY <1>2, K8sStages DEF K8sPart
<1>4. \A l \in 1 .. 6 : GenerateK8s[l] \in K8sPart
  BY <1>1, K8sStages DEF K8sPart
<1> QED BY <1>3, <1>4

\* Where a generate of the Kubernetes resources is, and what it then has to come.
LEMMA K8sCourse ==
    ASSUME NEW c, c.kind = "generate", c.resources \in {"all", "k8s"}, NEW p \in Platform,
           NEW s, s = Stages(c, p), NEW t, Rest(t, s), t # <<>>
    PROVE  \/ /\ Head(t) = "load" /\ Tail(t) # <<>> /\ ~ Has(Tail(t), "load")
              /\ \A x \in K8sPart : Has(t, x)
           \/ /\ Head(t) = "initKs" /\ Tail(t) # <<>>
              /\ \A x \in K8sPart \ {"load"} : Has(t, x)
              /\ ~ Has(t, "load")
           \/ /\ Head(t) = "registry" /\ Tail(t) # <<>>
              /\ \A x \in {"registry", "packages", "components", "paramSet"} : Has(t, x)
              /\ \A x \in {"load", "initKs"} : ~ Has(t, x)
           \/ /\ Head(t) = "packages" /\ Tail(t) # <<>>
              /\ \A x \in {"packages", "components", "paramSet"} : Has(t, x)
              /\ \A x \in {"load", "initKs", "registry"} : ~ Has(t, x)
           \/ /\ Head(t) = "components" /\ Tail(t) # <<>>
              /\ \A x \in {"components", "paramSet"} : Has(t, x)
              /\ \A x \in {"load", "initKs", "registry", "packages"} : ~ Has(t, x)
           \/ /\ Head(t) = "paramSet" /\ Tail(t) # <<>>
              /\ Has(t, "paramSet")
              /\ \A x \in K8sPart \ {"paramSet"} : ~ Has(t, x)
           \/ /\ Head(t) = "save" /\ Tail(t) = <<>>
              /\ \A x \in K8sPart : ~ Has(t, x)
           \/ /\ c.resources = "all" /\ p # "none" /\ Tail(t) # <<>>
              /\ \A x \in K8sPart : Has(t, x)
              /\ Head(t) \in PlatformPart \union {"save"}
              /\ Head(t) = "save" <=> Head(Tail(t)) = "load"
<1> DEFINE g == GeneratePlatform(p)
           n == IF c.resources = "k8s" THEN 0 ELSE Len(g)
           K == GenerateK8s
<1>1. /\ n \in Nat /\ Len(s) = n + 7
      /\ s \in Seq(Stage)
      /\ \A i \in 1 .. n : s[i] = g[i]
      /\ \A i \in 1 .. 7 : s[n + i] = K[i]
  <2>1. c.resources # "platform" /\ c.resources \in {"all", "k8s", "platform"}
    OBVIOUS
  <2>2. PICK l \in Nat, m \in {0, 7} :
          /\ c.resources = "k8s" => l = 0
          /\ c.resources # "k8s" => l = Len(GeneratePlatform(p))
          /\ c.resources # "platform" => m = 7
          /\ Halves(s, p, l, m)
    BY <2>1, GenerateStages
  <2>3. l = n /\ m = 7
    BY <2>1, <2>2
  <2>4. K = GenerateK8s /\ g = GeneratePlatform(p)
    OBVIOUS
  <2> HIDE DEF n, g, K
  <2> QED BY <2>2, <2>3, <2>4 DEF Halves
<1>2. n = 0 \/ /\ n = Len(g) /\ c.resources = "all" /\ p # "none"
               /\ g[n] = "save" /\ \A k \in 1 .. n - 1 : g[k] \in PlatformPart
  <2>1. CASE c.resources = "k8s" \/ p = "none"
    BY <2>1, PlatformStages
  <2>2. CASE c.resources = "all" /\ p = "gcp"
    <3>1. Len(g) = 6 /\ n = Len(g)
      BY <2>2, PlatformStages
    <3>2. \A k \in 1 .. n - 1 : k = 1 \/ k = 2 \/ k = 3 \/ k = 4 \/ k = 5
      BY <3>1
    <3>3. /\ g[1] = "copies" /\ g[2] = "iam" /\ g[3] = "cluster"
          /\ g[4] = "storage" /\ g[5] = "params" /\ g[6] = "save"
      BY <2>2, PlatformStages
    <3> HIDE DEF g, n
    <3> QED BY <2>2, <3>1, <3>2, <3>3 DEF PlatformPart
  <2>3. CASE c.resources = "all" /\ p = "minikube"
    <3>1. Len(g) = 2 /\ n = Len(g)
      BY <2>3, PlatformStages
    <3>2. \A k \in 1 .. n - 1 : k = 1
      BY <3>1
    <3>3. g[1] = "params" /\ g[2] = "save"
      BY <2>3, PlatformStages
    <3> HIDE DEF g, n
    <3> QED BY <2>3, <3>1, <3>2, <3>3 DEF PlatformPart
  <2> QED BY <2>1, <2>2, <2>3 DEF Platform
<1> HIDE DEF g, n, K
<1>3. \A k \in 1 .. n, l \in 1 .. 6 : s[k] # K[l]
  <2> SUFFICES ASSUME NEW k \in 1 .. n, NEW l \in 1 .. 6 PROVE s[k] # K[l]
    OBVIOUS
  <2>1. s[k] \in PlatformPart \union {"save"}
    <3>1. n > 0 /\ s[k] = g[k]
      BY <1>1
    <3>2. k = n \/ k \in 1 .. n - 1
      BY <1>1
    <3> QED BY <1>1, <1>2, <3>1, <3>2
  <2>2. K[l] \in K8sPart
    BY K8sNth DEF K
  <2> QED BY <2>1, <2>2 DEF PlatformPart, K8sPart
<1>4. \/ \E j \in 1 .. 6 :
           /\ Head(t) = K[j] /\ Tail(t) # <<>> /\ ~ Has(Tail(t), K[j])
           /\ \A l \in 1 .. 6 : (l >= j => Has(t, K[l])) /\ (l < j => ~ Has(t, K[l]))
      \/ /\ Head(t) = "save" /\ Tail(t) = <<>>
         /\ \A l \in 1 .. 6 : ~ Has(t, K[l])
      \/ /\ \A l \in 1 .. 6 : Has(t, K[l])
         /\ Tail(t) # <<>>
         /\ \E k \in 1 .. n : Following(t, s, k, n)
  BY <1>1, <1>3, K8sLeft DEF K
<1>5. K[1] = "load" /\ K[2] = "initKs" /\ K[3] = "registry" /\ K[4] = "packages"
      /\ K[5] = "components" /\ K[6] = "paramSet"
  BY K8sStages DEF K
<1>6. CASE \E j \in 1 .. 6 :
             /\ Head(t) = K[j] /\ Tail(t) # <<>> /\ ~ Has(Tail(t), K[j])
             /\ \A l \in 1 .. 6 : (l >= j => Has(t, K[l])) /\ (l < j => ~ Has(t, K[l]))
  <2>1. PICK j \in 1 .. 6 :
             /\ Head(t) = K[j] /\ Tail(t) # <<>> /\ ~ Has(Tail(t), K[j])
             /\ \A l \in 1 .. 6 : (l >= j => Has(t, K[l])) /\ (l < j => ~ Has(t, K[l]))
    BY <1>6
  <2>2. /\ (1 >= j => Has(t, "load")) /\ (1 < j => ~ Has(t, "load"))
        /\ (2 >= j => Has(t, "initKs")) /\ (2 < j => ~ Has(t, "initKs"))
        /\ (3 >= j => Has(t, "registry")) /\ (3 < j => ~ Has(t, "registry"))
        /\ (4 >= j => Has(t, "packages")) /\ (4 < j => ~ Has(t, "packages"))
        /\ (5 >= j => Has(t, "components")) /\ (5 < j => ~ Has(t, "components"))
        /\ (6 >= j => Has(t, "paramSet")) /\ (6 < j => ~ Has(t, "paramSet"))
    BY <1>5, <2>1
  <2>3. j = 1 \/ j = 2 \/ j = 3 \/ j = 4 \/ j = 5 \/ j = 6
    OBVIOUS
  <2>4. CASE j = 1
    BY <1>5, <2>1, <2>2, <2>4 DEF K8sPart
  <2>5. CASE j = 2
    BY <1>5, <2>1, <2>2, <2>5 DEF K8sPart
  <2>6. CASE j = 3
    BY <1>5, <2>1, <2>2, <2>6 DEF K8sPart
  <2>7. CASE j = 4
    BY <1>5, <2>1, <2>2, <2>7 DEF K8sPart
  <2>8. CASE j = 5
    BY <1>5, <2>1, <2>2, <2>8 DEF K8sPart
  <2>9. CASE j = 6
    BY <1>5, <2>1, <2>2, <2>9 DEF K8sPart
  <2> QED BY <2>3, <2>4, <2>5, <2>6, <2>7, <2>8, <2>9
<1>7. CASE /\ Head(t) = "save" /\ Tail(t) = <<>>
           /\ \A l \in 1 .. 6 : ~ Has(t, K[l])
  <2>1. \A x \in K8sPart : ~ Has(t, x)
    BY <1>7, K8sNth DEF K
  <2> QED BY <1>7, <2>1
<1>8. CASE /\ \A l \in 1 .. 6 : Has(t, K[l])
           /\ Tail(t) # <<>>
           /\ \E k \in 1 .. n : Following(t, s, k, n)
  <2>1. \A x \in K8sPart : Has(t, x)
    BY <1>8, K8sNth DEF K
  <2>2. PICK k \in 1 .. n : Following(t, s, k, n)
    BY <1>8
  <2>3. n > 0 /\ s[k] = g[k] /\ (k = n \/ k \in 1 .. n - 1)
    BY <1>1
  <2>4. CASE k = n
    <3>1. Head(t) = "save" /\ Head(Tail(t)) = "load" /\ c.resources = "all" /\ p # "none"
      <4>1. n # 0 /\ s[n] = g[n]
        BY <2>3, <2>4
      <4>2. Head(t) = s[n] /\ Head(Tail(t)) = "load"
        BY <2>2, <2>4 DEF Following
      <4> QED BY <1>2, <4>1, <4>2
    <3> QED BY <1>8, <2>1, <3>1
  <2>5. CASE k \in 1 .. n - 1
    <3>1. Head(t) \in PlatformPart /\ c.resources = "all" /\ p # "none"
      BY <1>2, <2>2, <2>3, <2>5 DEF Following
    <3>2. Head(t) # "save"
      BY <3>1 DEF PlatformPart
    <3>3. Head(Tail(t)) # "load"
      <4>1. k # n
        BY <1>1, <2>5
      <4> QED BY <2>2, <4>1 DEF Following
    <3> QED BY <1>8, <2>1, <3>1, <3>2, <3>3
  <2> QED BY <2>3, <2>4, <2>5
<1> QED BY <1>4, <1>6, <1>7, <1>8

\* With the platform's part, what comes after it is nothing or the package manager's.
LEMMA PlatformFirst ==
    ASSUME NEW c, c.kind = "generate", c.resources \in {"all", "platform"},
           NEW p \in Platform, NEW s, s = Stages(c, p)
    PROVE  \E m \in {0, 7} : /\ c.resources = "platform" => m = 0
                             /\ Halves(s, p, Len(GeneratePlatform(p)), m)
<1>1. c.resources \in {"all", "k8s", "platform"} /\ c.resources # "k8s"
  OBVIOUS
<1>2. PICK n \in Nat, m \in {0, 7} :
        /\ c.resources # "k8s" => n = Len(GeneratePlatform(p))
        /\ c.resources = "platform" => m = 0
        /\ Halves(s, p, n, m)
  BY <1>1, GenerateStages
<1> QED BY <1>1, <1>2

\* And where a generate of the platform is.
LEMMA PlatformCourse ==
    ASSUME NEW c, c.kind = "generate", c.resources \in {"all", "platform"}, NEW p \in Platform,
           NEW s, s = Stages(c, p), NEW t, Rest(t, s), t # <<>>
    PROVE  /\ Head(t) \in PlatformPart \union K8sPart \union {"save"}
           /\ c.resources = "platform" => p # "none" /\ Head(t) \in PlatformPart \union {"save"}
           /\ Head(t) \in PlatformPart => Tail(t) # <<>>
           /\ p = "minikube" => Head(t) \notin PlatformPart \ {"params"}
<1> DEFINE g == GeneratePlatform(p)
           n == Len(g)
<1>1. n \in Nat /\ (p = "none" => n = 0)
  BY PlatformStages
<1>2. ASSUME n > 0
      PROVE  /\ g[n] = "save" /\ \A k \in 1 .. n - 1 : g[k] \in PlatformPart
             /\ p = "minikube" => \A k \in 1 .. n - 1 : g[k] = "params"
  <2>1. CASE p = "gcp"
    <3>0. n = 6
      BY <2>1, PlatformStages
    <3>1. \A k \in 1 .. n - 1 : k = 1 \/ k = 2 \/ k = 3 \/ k = 4 \/ k = 5
      BY <3>0
    <3>2. /\ g[1] = "copies" /\ g[2] = "iam" /\ g[3] = "cluster"
          /\ g[4] = "storage" /\ g[5] = "params" /\ g[6] = "save"
      BY <2>1, PlatformStages
    <3> HIDE DEF g, n
    <3> QED BY <2>1, <3>0, <3>1, <3>2 DEF PlatformPart
  <2>2. CASE p = "minikube"
    <3>0. n = 2
      BY <2>2, PlatformStages
    <3>1. \A k \in 1 .. n - 1 : k = 1
      BY <3>0
    <3>2. g[1] = "params" /\ g[2] = "save"
      BY <2>2, PlatformStages
    <3> HIDE DEF g, n
    <3> QED BY <2>2, <3>0, <3>1, <3>2 DEF PlatformPart
  <2>3. p # "none"
    BY <1>1, <1>2
  <2> QED BY <2>1, <2>2, <2>3 DEF Platform
<1>3. PICK m \in {0, 7} : /\ c.resources = "platform" => m = 0
                         /\ Halves(s, p, n, m)
  BY PlatformFirst
<1>4. /\ s \in Seq(Stage) /\ Len(s) = n + m
      /\ \A i \in 1 .. n : s[i] = g[i]
      /\ \A i \in 1 .. m : s[n + i] = GenerateK8s[i]
  BY <1>3 DEF Halves
<1> HIDE DEF g, n
<1>5. PICK i \in 0 .. Len(s) : After(i, t, s)
  BY DEF Rest
<1>6. /\ i < Len(s) /\ Len(s) \in Nat
      /\ Head(t) = s[i + 1]
      /\ i + 1 < Len(s) => Tail(t) # <<>>
  <2>1. s \in Seq(Stage)
    BY <1>4
  <2> QED BY <1>5, <2>1, RestAt
<1>7. CASE i + 1 > n
  <2> DEFINE k == i + 1 - n
  <2>1. k \in 1 .. m /\ n + k = i + 1 /\ m = 7
    BY <1>1, <1>4, <1>6, <1>7
  <2>2. s[n + k] = GenerateK8s[k] /\ (k = 7 \/ k \in 1 .. 6)
    BY <1>4, <2>1
  <2> HIDE DEF k
  <2>3. Head(t) = GenerateK8s[k]
    BY <1>6, <2>1, <2>2
  <2>4. Head(t) \in K8sPart \union {"save"}
    BY <2>2, <2>3, K8sNth, K8sStages
  <2>5. c.resources # "platform"
    BY <1>3, <2>1
  <2>6. Head(t) \notin PlatformPart
    BY <2>4 DEF K8sPart, PlatformPart
  <2> QED BY <2>4, <2>5, <2>6
<1>8. CASE i + 1 <= n
  <2>1. n > 0 /\ i + 1 \in 1 .. n /\ (i + 1 # n => i + 1 \in 1 .. n - 1 /\ i + 1 < Len(s))
    BY <1>1, <1>3, <1>4, <1>6, <1>8
  <2>2. Head(t) = g[i + 1] /\ p # "none"
    BY <1>1, <1>4, <1>6, <2>1
  <2>3. CASE i + 1 = n
    <3>1. Head(t) = "save"
      BY <1>2, <2>1, <2>2, <2>3
    <3> QED BY <2>2, <3>1 DEF PlatformPart
  <2>4. CASE i + 1 # n
    <3>1. Head(t) \in PlatformPart /\ (p = "minikube" => Head(t) = "params") /\ Tail(t) # <<>>
      BY <1>2, <1>6, <2>1, <2>2, <2>4
    <3> QED BY <2>2, <3>1
  <2> QED BY <2>3, <2>4
<1>9. i + 1 > n \/ i + 1 <= n
  BY <1>1, <1>6
<1> QED BY <1>7, <1>8, <1>9

-----------------------------------------------------------------------------
(* What the files hold *)

LEMMA ParamsAre ==
    ASSUME NEW f
    PROVE  f \in Params <=> \E C \in SUBSET Component : f \in [C -> Value]
BY DEF Params

LEMMA NoParams ==
    <<>> \in Params /\ DOMAIN <<>> = {}
<1>1. DOMAIN <<>> = {}
  OBVIOUS
<1>2. <<>> \in [{} -> Value]
  OBVIOUS
<1> QED BY <1>1, <1>2, ParamsAre

LEMMA OverIs ==
    ASSUME NEW f \in Params, NEW g \in Params
    PROVE  /\ Over(f, g) \in Params /\ DOMAIN Over(f, g) = DOMAIN f \union DOMAIN g
           /\ \A x \in DOMAIN f : Over(f, g)[x] = f[x]
           /\ \A x \in DOMAIN g \ DOMAIN f : Over(f, g)[x] = g[x]
           /\ DOMAIN g \subseteq DOMAIN f => Over(f, g) = f
<1>1. PICK C \in SUBSET Component, D \in SUBSET Component : f \in [C -> Value] /\ g \in [D -> Value]
  BY ParamsAre
<1>2. DOMAIN f = C /\ DOMAIN g = D
  BY <1>1
<1>3. Over(f, g) \in [C \union D -> Value]
  BY <1>1, <1>2 DEF Over
<1>4. C \union D \in SUBSET Component
  OBVIOUS
<1>5. Over(f, g) \in Params
  BY <1>3, <1>4, ParamsAre
<1>6. /\ DOMAIN Over(f, g) = DOMAIN f \union DOMAIN g
      /\ \A x \in DOMAIN f : Over(f, g)[x] = f[x]
      /\ \A x \in DOMAIN g \ DOMAIN f : Over(f, g)[x] = g[x]
  BY DEF Over
<1>7. ASSUME DOMAIN g \subseteq DOMAIN f PROVE Over(f, g) = f
  <2>1. DOMAIN f \union DOMAIN g = DOMAIN f
    BY <1>7
  <2>2. Over(f, g) = [x \in DOMAIN f |-> f[x]]
    BY <2>1 DEF Over
  <2> QED BY <1>1, <2>2
<1> QED BY <1>5, <1>6, <1>7

LEMMA OrIs ==
    ASSUME NEW x, NEW y
    PROVE  Or(x, x) = x /\ (x # None => Or(x, y) = x) /\ (x = None => Or(x, y) = y)
BY DEF Or

\* A directory's configuration and what is held without one differ, in the version too.
LEMMA KfDefFields ==
    ASSUME NEW d
    PROVE  /\ d \in KfDef =>
                 /\ d \notin Bare /\ d # None /\ d.version # None
                 /\ d.platform \in Platform /\ d.version \in Version
                 /\ d.comps \in SUBSET Component /\ d.ip \in Name \union {None}
                 /\ d.host \in Name \union {None} /\ d.params \in Params
           /\ d \in Bare =>
                 /\ d \notin KfDef
                 /\ d.platform = "none" /\ d.version = None /\ d.comps = {} /\ d.params = <<>>
                 /\ d.ip \in Name \union {None} /\ d.host \in Name \union {None}
BY NoneAssumption DEF KfDef, Bare

LEMMA BlankIsBare == Blank \in Bare
BY DEF Blank, Bare

-----------------------------------------------------------------------------
(* Where a command is *)

LEMMA HasTail ==
    ASSUME NEW S, NEW t \in Seq(S), t # <<>>, NEW x
    PROVE  /\ Has(Tail(t), x) => Has(t, x)
           /\ Has(t, x) => Head(t) = x \/ Has(Tail(t), x)
           /\ Head(t) = x => Has(t, x)
<1> DEFINE u == Tail(t)
<1>1. Len(t) \in Nat /\ Len(t) > 0 /\ Head(t) = t[1]
  <2>1. Len(t) \in Nat
    OBVIOUS
  <2>2. Len(t) # 0
    BY EmptySeq
  <2> QED BY <2>1, <2>2, HeadTailProperties
<1>2. /\ Len(u) = Len(t) - 1
      /\ \A j \in 1 .. Len(u) : u[j] = t[j + 1]
  BY HeadTailProperties
<1> HIDE DEF u
<1>3. ASSUME Has(u, x) PROVE Has(t, x)
  <2>1. PICK j \in 1 .. Len(u) : u[j] = x
    BY <1>3 DEF Has
  <2>2. j + 1 \in 1 .. Len(t) /\ t[j + 1] = x
    BY <1>1, <1>2, <2>1
  <2> QED BY <2>2 DEF Has
<1>4. ASSUME Has(t, x), Head(t) # x PROVE Has(u, x)
  <2>1. PICK j \in 1 .. Len(t) : t[j] = x
    BY <1>4 DEF Has
  <2>2. j # 1
    BY <1>1, <1>4, <2>1
  <2>3. j - 1 \in 1 .. Len(u) /\ (j - 1) + 1 = j
    BY <1>1, <1>2, <2>2
  <2>4. u[j - 1] = x
    BY <1>2, <2>1, <2>3
  <2> QED BY <2>3, <2>4 DEF Has
<1>5. Head(t) = x => Has(t, x)
  <2>1. 1 \in 1 .. Len(t)
    BY <1>1
  <2> QED BY <1>1, <2>1 DEF Has
<1> QED BY <1>3, <1>4, <1>5 DEF u

\* A command that runs is at a stage of its plan.
LEMMA Running ==
    ASSUME TypeOK, Orderly, todo # <<>>
    PROVE  /\ cmd \in Command /\ cmd # None /\ result = None
           /\ Begun \in Platform /\ Rest(todo, Plan) /\ Plan \in Seq(Stage)
           /\ todo \in Seq(Stage)
           /\ Due(Head(todo))
           /\ \A x : Due(x) => Head(todo) = x \/ Has(Tail(todo), x)
           /\ \A x : Has(Tail(todo), x) => Due(x)
<1>1. cmd \in Command /\ cmd # None /\ result = None
  BY DEF TypeOK
<1>2. Begun \in Platform
  <2>1. CASE cmd.kind = "init"
    BY <1>1, <2>1, CommandCases DEF Begun
  <2>2. CASE cmd.kind # "init"
    BY <2>2, KfDefFields DEF Begun, TypeOK, Platform
  <2> QED BY <2>1, <2>2
<1>3. Rest(todo, Plan)
  BY <1>1 DEF Orderly, Rest, After
<1>4. Plan \in Seq(Stage)
  <2> DEFINE p == Begun
             s == Plan
  <2>1. s = Stages(cmd, p)
    BY DEF Plan
  <2> HIDE DEF p, s
  <2>2. p \in Platform
    BY <1>2 DEF p
  <2>3. CASE cmd.kind = "init"
    BY <2>1, <2>2, <2>3, InitStages DEF s
  <2>4. CASE cmd.kind = "show"
    BY <2>1, <2>2, <2>4, ShowStages DEF s
  <2>5. CASE cmd.kind = "generate"
    <3>1. cmd.resources \in {"all", "k8s", "platform"}
      BY <1>1, <2>5, CommandCases
    <3>2. PICK n \in Nat, m \in {0, 7} : Halves(s, p, n, m)
      BY <2>1, <2>2, <2>5, <3>1, GenerateStages
    <3> QED BY <3>2 DEF Halves, s
  <2> QED BY <1>1, <2>3, <2>4, <2>5, CommandCases
<1>5. todo \in Seq(Stage)
  BY <1>3, <1>4, RestHead
<1>6. \A x : Due(x) <=> Has(todo, x)
  BY DEF Due, Has
<1>7. \A x : /\ Has(Tail(todo), x) => Has(todo, x)
             /\ Has(todo, x) => Head(todo) = x \/ Has(Tail(todo), x)
             /\ Head(todo) = x => Has(todo, x)
  BY <1>5, HasTail
<1> QED BY <1>1, <1>2, <1>3, <1>4, <1>5, <1>6, <1>7

LEMMA InitRuns ==
    ASSUME TypeOK, Orderly, todo # <<>>, cmd.kind = "init"
    PROVE  /\ Begun = cmd.platform
           /\ Head(todo) \in {"download", "save", "project", "load"}
           /\ Head(todo) # "download" => ~ Due("download")
           /\ Tail(todo) = <<>> => Head(todo) = "save"
           /\ Head(todo) = "download" /\ cmd.platform = "gcp" =>
                 Tail(todo) # <<>> /\ Head(Tail(todo)) = "save"
           /\ Head(todo) \in {"project", "load"} => Tail(todo) # <<>>
           /\ Head(todo) = "project" => cmd.platform = "gcp" /\ Head(Tail(todo)) = "load"
           /\ Head(todo) = "load" => Head(Tail(todo)) = "save"
           /\ Head(todo) = "save" /\ Tail(todo) # <<>> =>
                 cmd.platform = "gcp" /\ Head(Tail(todo)) = "project"
<1> DEFINE p == Begun
           s == Plan
           t == todo
<1>1. p = cmd.platform
  BY DEF Begun
<1>2. s = Stages(cmd, p) /\ (Due("download") <=> Has(t, "download"))
  BY DEF Plan, Due, Has
<1>3. p \in Platform /\ Rest(t, s) /\ t # <<>>
  BY Running
<1> HIDE DEF p, s, t
<1>4. /\ Head(t) \in {"download", "save", "project", "load"}
      /\ Head(t) # "download" => ~ Has(t, "download")
      /\ Tail(t) = <<>> => Head(t) = "save"
      /\ Head(t) = "download" /\ p = "gcp" => Tail(t) # <<>> /\ Head(Tail(t)) = "save"
      /\ Head(t) \in {"project", "load"} => Tail(t) # <<>>
      /\ Head(t) = "project" => p = "gcp" /\ Head(Tail(t)) = "load"
      /\ Head(t) = "load" => Head(Tail(t)) = "save"
      /\ Head(t) = "save" /\ Tail(t) # <<>> => p = "gcp" /\ Head(Tail(t)) = "project"
  BY <1>2, <1>3, InitLeft
<1> QED BY <1>1, <1>2, <1>4 DEF p, t

LEMMA ShowRuns ==
    ASSUME TypeOK, Orderly, todo # <<>>, cmd.kind = "show"
    PROVE  /\ Begun = IF was = None THEN "none" ELSE was.platform
           /\ Begun # "none" => Head(todo) = "show"
           /\ Begun = "none" => Head(todo) \in {"load", "render", "mkdir", "yaml"}
<1> DEFINE p == Begun
           s == Plan
           t == todo
<1>1. p = IF was = None THEN "none" ELSE was.platform
  BY DEF Begun
<1>2. s = Stages(cmd, p)
  BY DEF Plan
<1>3. p \in Platform /\ Rest(t, s) /\ t # <<>>
  BY Running
<1> HIDE DEF p, s, t
<1>4. /\ p # "none" => Head(t) = "show"
      /\ p = "none" => Head(t) \in {"load", "render", "mkdir", "yaml"}
  BY <1>2, <1>3, ShowLeft
<1> QED BY <1>1, <1>4 DEF p, t

LEMMA GenerateRuns ==
    ASSUME TypeOK, Orderly, todo # <<>>, cmd.kind = "generate"
    PROVE  /\ Begun = IF was = None THEN "none" ELSE was.platform
           /\ cmd.resources \in {"all", "k8s", "platform"} /\ cmd.flags \in BOOLEAN
           /\ Head(todo) \in PlatformPart \union K8sPart \union {"save"}
           /\ Head(todo) \in K8sPart => cmd.resources # "platform" /\ Tail(todo) # <<>>
           /\ Head(todo) \in PlatformPart =>
                 /\ cmd.resources # "k8s" /\ Begun # "none" /\ Tail(todo) # <<>>
                 /\ Begun = "minikube" => Head(todo) = "params"
           /\ cmd.resources = "platform" => Begun # "none"
           /\ Tail(todo) = <<>> => Head(todo) = "save"
<1> DEFINE p == Begun
           s == Plan
           t == todo
<1>1. p = IF was = None THEN "none" ELSE was.platform
  BY DEF Begun
<1>2. s = Stages(cmd, p)
  BY DEF Plan
<1>3. p \in Platform /\ Rest(t, s) /\ t # <<>> /\ cmd \in Command
  BY Running
<1> HIDE DEF p, s, t
<1>4. cmd.resources \in {"all", "k8s", "platform"} /\ cmd.flags \in BOOLEAN
  BY <1>3, CommandCases
<1>5. CASE cmd.resources = "k8s"
  <2>1. Head(t) \in K8sPart \union {"save"} /\ (Head(t) # "save" => Tail(t) # <<>>)
    BY <1>2, <1>3, <1>5, K8sCourse DEF K8sPart
  <2>2. Head(t) \notin PlatformPart
    BY <2>1 DEF K8sPart, PlatformPart
  <2>3. Head(t) \in K8sPart => Head(t) # "save"
    BY DEF K8sPart
  <2> QED BY <1>1, <1>4, <1>5, <2>1, <2>2, <2>3 DEF p, t
<1>6. CASE cmd.resources = "platform"
  <2>1. /\ Head(t) \in PlatformPart \union {"save"} /\ p # "none"
        /\ Head(t) \in PlatformPart => Tail(t) # <<>>
        /\ p = "minikube" => Head(t) \notin PlatformPart \ {"params"}
    BY <1>2, <1>3, <1>6, PlatformCourse
  <2>2. Head(t) \notin K8sPart
    BY <2>1 DEF K8sPart, PlatformPart
  <2> QED BY <1>1, <1>4, <1>6, <2>1, <2>2 DEF p, t
<1>7. CASE cmd.resources = "all"
  <2>1. /\ Head(t) \in PlatformPart \union K8sPart \union {"save"}
        /\ Head(t) \in PlatformPart => Tail(t) # <<>>
        /\ p = "minikube" => Head(t) \notin PlatformPart \ {"params"}
    BY <1>2, <1>3, <1>7, PlatformCourse
  <2>2. /\ Head(t) \in K8sPart => Tail(t) # <<>>
        /\ Head(t) \in PlatformPart => p # "none"
    <3>1. Head(t) \in K8sPart \union {"save"} \/ p # "none"
      BY <1>2, <1>3, <1>7, K8sCourse DEF K8sPart
    <3>2. Head(t) # "save" => Tail(t) # <<>>
      BY <1>2, <1>3, <1>7, K8sCourse
    <3> QED BY <3>1, <3>2 DEF K8sPart, PlatformPart
  <2> QED BY <1>1, <1>4, <1>7, <2>1, <2>2 DEF p, t
<1> QED BY <1>4, <1>5, <1>6, <1>7

LEMMA K8sRuns ==
    ASSUME TypeOK, Orderly, todo # <<>>, cmd.kind = "generate", cmd.resources # "platform"
    PROVE  \/ /\ Head(todo) = "load" /\ Tail(todo) # <<>> /\ ~ Has(Tail(todo), "load")
              /\ \A x \in K8sPart : Due(x)
           \/ /\ Head(todo) = "initKs" /\ Tail(todo) # <<>>
              /\ \A x \in K8sPart \ {"load"} : Due(x)
              /\ ~ Due("load")
           \/ /\ Head(todo) = "registry" /\ Tail(todo) # <<>>
              /\ \A x \in {"registry", "packages", "components", "paramSet"} : Due(x)
              /\ \A x \in {"load", "initKs"} : ~ Due(x)
           \/ /\ Head(todo) = "packages" /\ Tail(todo) # <<>>
              /\ \A x \in {"packages", "components", "paramSet"} : Due(x)
              /\ \A x \in {"load", "initKs", "registry"} : ~ Due(x)
           \/ /\ Head(todo) = "components" /\ Tail(todo) # <<>>
              /\ \A x \in {"components", "paramSet"} : Due(x)
              /\ \A x \in {"load", "initKs", "registry", "packages"} : ~ Due(x)
           \/ /\ Head(todo) = "paramSet" /\ Tail(todo) # <<>>
              /\ Due("paramSet")
              /\ \A x \in K8sPart \ {"paramSet"} : ~ Due(x)
           \/ /\ Head(todo) = "save" /\ Tail(todo) = <<>>
              /\ \A x \in K8sPart : ~ Due(x)
           \/ /\ cmd.resources = "all" /\ Begun # "none" /\ Tail(todo) # <<>>
              /\ \A x \in K8sPart : Due(x)
              /\ Head(todo) \in PlatformPart \union {"save"}
              /\ Head(todo) = "save" <=> Head(Tail(todo)) = "load"
<1> DEFINE p == Begun
           s == Plan
           t == todo
<1>1. s = Stages(cmd, p) /\ cmd.resources \in {"all", "k8s"}
  BY GenerateRuns DEF Plan
<1>2. p \in Platform /\ Rest(t, s) /\ t # <<>>
  BY Running
<1>3. \A x : Due(x) <=> Has(t, x)
  BY DEF Due, Has
<1> HIDE DEF p, s, t
<1>4. \/ /\ Head(t) = "load" /\ Tail(t) # <<>> /\ ~ Has(Tail(t), "load")
         /\ \A x \in K8sPart : Has(t, x)
      \/ /\ Head(t) = "initKs" /\ Tail(t) # <<>>
         /\ \A x \in K8sPart \ {"load"} : Has(t, x)
         /\ ~ Has(t, "load")
      \/ /\ Head(t) = "registry" /\ Tail(t) # <<>>
         /\ \A x \in {"registry", "packages", "components", "paramSet"} : Has(t, x)
         /\ \A x \in {"load", "initKs"} : ~ Has(t, x)
      \/ /\ Head(t) = "packages" /\ Tail(t) # <<>>
         /\ \A x \in {"packages", "components", "paramSet"} : Has(t, x)
         /\ \A x \in {"load", "initKs", "registry"} : ~ Has(t, x)
      \/ /\ Head(t) = "components" /\ Tail(t) # <<>>
         /\ \A x \in {"components", "paramSet"} : Has(t, x)
         /\ \A x \in {"load", "initKs", "registry", "packages"} : ~ Has(t, x)
      \/ /\ Head(t) = "paramSet" /\ Tail(t) # <<>>
         /\ Has(t, "paramSet")
         /\ \A x \in K8sPart \ {"paramSet"} : ~ Has(t, x)
      \/ /\ Head(t) = "save" /\ Tail(t) = <<>>
         /\ \A x \in K8sPart : ~ Has(t, x)
      \/ /\ cmd.resources = "all" /\ p # "none" /\ Tail(t) # <<>>
         /\ \A x \in K8sPart : Has(t, x)
         /\ Head(t) \in PlatformPart \union {"save"}
         /\ Head(t) = "save" <=> Head(Tail(t)) = "load"
  BY <1>1, <1>2, K8sCourse
<1> QED BY <1>3, <1>4 DEF p, t

-----------------------------------------------------------------------------
(* What every step keeps *)

\* The next stage, or the end.
LEMMA ProceedIs ==
    ASSUME TypeOK, Orderly, todo # <<>>, NEW d, Proceed(d)
    PROVE  /\ todo' = Tail(todo) /\ cmd' = cmd /\ was' = was /\ moves' = moves
           /\ todo' = <<>> => result' = "ok" /\ def' = Blank /\ tries' = 0
           /\ todo' # <<>> => result' = None /\ def' = d /\ tries' = tries
           /\ \A x : Due(x)' => Due(x)
           /\ \A x : Due(x) => Head(todo) = x \/ Due(x)'
           /\ Orderly' /\ FailsWithReason'
<1>0. /\ result = None /\ cmd # None /\ cmd \in Command /\ Rest(todo, Plan) /\ Plan \in Seq(Stage)
      /\ \A x : Due(x) => Head(todo) = x \/ Has(Tail(todo), x)
      /\ \A x : Has(Tail(todo), x) => Due(x)
  BY Running
<1>1. Len(todo) \in Nat /\ Len(Tail(todo)) = Len(todo) - 1 /\ Rest(Tail(todo), Plan)
  BY <1>0, RestHead
<1>2. Tail(todo) = <<>> <=> Len(todo) = 1
  <2> DEFINE u == Tail(todo)
             s == Plan
  <2>1. s \in Seq(Stage) /\ Rest(u, s)
    BY <1>0, <1>1
  <2> HIDE DEF u, s
  <2>2. u = <<>> <=> Len(u) = 0
    BY <2>1, RestHead
  <2> QED BY <1>1, <2>2 DEF u
<1>3. /\ todo' = Tail(todo) /\ cmd' = cmd /\ was' = was /\ moves' = moves
      /\ todo' = <<>> => result' = "ok" /\ def' = Blank /\ tries' = 0
      /\ todo' # <<>> => result' = None /\ def' = d /\ tries' = tries
  BY <1>0, <1>2 DEF Proceed, Return, bounds
<1>4. \A x : Due(x)' <=> Has(Tail(todo), x)
  BY <1>3 DEF Due, Has
<1>5. Plan' = Plan
  BY <1>3 DEF Plan, Begun
<1>6. Orderly'
  <2>1. \E i \in 0 .. Len(Plan) : Tail(todo) = SubSeq(Plan, i + 1, Len(Plan))
    BY <1>1 DEF Rest, After
  <2>2. \E i \in 0 .. Len(Plan') : todo' = SubSeq(Plan', i + 1, Len(Plan'))
    BY <1>3, <1>5, <2>1
  <2>3. todo' = <<>> => result' # None
    BY <1>3, NoneAssumption
  <2> QED BY <1>0, <1>3, <2>2, <2>3 DEF Orderly
<1>7. FailsWithReason'
  <2>1. result' # "failed"
    BY <1>3, NoneAssumption
  <2> QED BY <2>1 DEF FailsWithReason, Ended
<1> QED BY <1>0, <1>3, <1>4, <1>6, <1>7

LEMMA ProceedTypes ==
    ASSUME TypeOK, Orderly, todo # <<>>, NEW d \in KfDef \union Bare, Proceed(d),
           cache' \in Version \union {None}, app' \in KfDef \union {None}, config' \in Config,
           ks' \in KsApp \union {None}, yamls' \in {None, "empty", "default.yaml"}
    PROVE  TypeOK'
<1>1. /\ cmd' = cmd /\ was' = was /\ moves' = moves
      /\ todo' = <<>> => result' = "ok" /\ def' = Blank /\ tries' = 0
      /\ todo' # <<>> => result' = None /\ def' = d /\ tries' = tries
  BY ProceedIs
<1>2. cmd \in Command /\ cmd # None /\ was \in KfDef \union {None}
      /\ tries \in 0 .. MaxTries /\ moves \in 0 .. MaxMoves
  BY Running DEF TypeOK
<1>3. 0 \in 0 .. MaxTries
  BY KfAppAssumption
<1>4. def' \in KfDef \union Bare
  BY <1>1, BlankIsBare
<1>5. tries' \in 0 .. MaxTries /\ moves' \in 0 .. MaxMoves
  BY <1>1, <1>2, <1>3
<1>6. /\ result' \in {None, "ok", "failed", "interrupted"}
      /\ (todo' # <<>> => cmd' # None /\ result' = None)
  BY <1>1, <1>2
<1> QED BY <1>1, <1>2, <1>4, <1>5, <1>6 DEF TypeOK

LEMMA EndOfPlan ==
    ASSUME NEW s \in Seq(Stage)
    PROVE  \E i \in 0 .. Len(s) : <<>> = SubSeq(s, i + 1, Len(s))
<1>1. Len(s) \in Nat /\ Len(s) \in 0 .. Len(s)
  OBVIOUS
<1> DEFINE i == Len(s)
           t == SubSeq(s, i + 1, Len(s))
<1>2. i \in 0 .. Len(s) /\ After(i, t, s)
  BY <1>1 DEF After
<1> HIDE DEF i
<1>3. i = Len(s)
  BY DEF i
<1> HIDE DEF t
<1>4. t = <<>>
  BY <1>2, <1>3, RestIs
<1> QED BY <1>2, <1>4 DEF t

\* A command that ends in an error.
LEMMA ReturnFailed ==
    ASSUME IndInv, todo # <<>>, Return("failed"), ks' \in {ks, None},
           UNCHANGED <<cache, app, config, yamls>>, FailsWithReason'
    PROVE  IndInv'
<1>1. /\ todo' = <<>> /\ def' = Blank /\ result' = "failed" /\ tries' = 0
      /\ cmd' = cmd /\ was' = was /\ moves' = moves
  BY DEF Return
<1>2. TypeOK /\ Orderly /\ cmd # None
  BY Running DEF IndInv
<1>3. TypeOK'
  <2>1. 0 \in 0 .. MaxTries
    BY KfAppAssumption
  <2> QED BY <1>1, <1>2, <2>1, BlankIsBare DEF TypeOK
<1>4. Orderly'
  <2>1. Plan \in Seq(Stage) /\ Rest(todo, Plan)
    BY <1>2, Running
  <2>2. Plan' = Plan
    BY <1>1 DEF Plan, Begun
  <2>3. \E i \in 0 .. Len(Plan) : <<>> = SubSeq(Plan, i + 1, Len(Plan))
    BY <2>1, EndOfPlan
  <2>4. \E i \in 0 .. Len(Plan') : todo' = SubSeq(Plan', i + 1, Len(Plan'))
    BY <1>1, <2>2, <2>3
  <2> QED BY <1>1, <1>2, <2>4, NoneAssumption DEF Orderly
<1>5. app' # None => Proper(app')
  BY DEF IndInv
<1>6. GenerateKeeps'
  BY <1>1 DEF IndInv, GenerateKeeps
<1>7. Shown'
  BY <1>1 DEF IndInv, Shown
<1>8. ~ OnCourse("init")' /\ ~ OnCourse("generate")'
  BY <1>1 DEF OnCourse
<1>9. Asked' /\ Generating' /\ PlatformWritten' /\ ResourcesMade'
  BY <1>1, <1>8 DEF Asked, Generating, PlatformWritten, ResourcesMade
<1> QED BY <1>1, <1>3, <1>4, <1>5, <1>6, <1>7, <1>9 DEF IndInv

-----------------------------------------------------------------------------
(* The steps of init *)

LEMMA OtherKinds ==
    ASSUME cmd # None, cmd' = cmd
    PROVE  /\ cmd.kind = "init" => /\ Shown' /\ GenerateKeeps' /\ Generating'
                                   /\ PlatformWritten' /\ ResourcesMade'
           /\ cmd.kind = "generate" => Asked' /\ Shown'
           /\ cmd.kind = "show" => Asked' /\ Generating' /\ PlatformWritten' /\ ResourcesMade'
BY DEF Shown, GenerateKeeps, Generating, PlatformWritten, ResourcesMade, Asked, OnCourse

\* Which command it is that runs shows in the stage.
LEMMA KindOfStage ==
    ASSUME TypeOK, Orderly, todo # <<>>
    PROVE  /\ cmd.kind \in {"init", "generate", "show"}
           /\ Head(todo) \in {"download", "project"} => cmd.kind = "init"
           /\ Head(todo) \in PlatformPart \union (K8sPart \ {"load"}) => cmd.kind = "generate"
           /\ Head(todo) \in {"show", "render", "mkdir", "yaml"} => cmd.kind = "show"
           /\ Head(todo) = "save" => cmd.kind \in {"init", "generate"}
<1>1. cmd.kind = "init" => Head(todo) \in {"download", "save", "project", "load"}
  BY InitRuns
<1>2. cmd.kind = "show" => Head(todo) \in {"show", "load", "render", "mkdir", "yaml"}
  BY ShowRuns
<1>3. cmd.kind = "generate" => Head(todo) \in PlatformPart \union K8sPart \union {"save"}
  BY GenerateRuns
<1>4. cmd.kind \in {"init", "generate", "show"}
  BY Running, CommandCases
<1> QED BY <1>1, <1>2, <1>3, <1>4 DEF PlatformPart, K8sPart

\* What the template of the repository gives.
LEMMA TemplateIs ==
    ASSUME NEW c \in Command, c.kind = "init"
    PROVE  /\ Template(c) \in KfDef /\ Proper(Template(c))
           /\ Template(c).platform = c.platform
           /\ c.platform # "gcp" => /\ DOMAIN Template(c).params = {"ambassador"}
                                    /\ "spartakus" \notin Template(c).comps
<1> DEFINE comps == IF c.platform = "gcp"
                    THEN {"ambassador", "katib", "ingress"} \union
                         (IF c.reports THEN {"spartakus"} ELSE {})
                    ELSE {"ambassador", "katib"} \union
                         (IF c.version \in Jupyter THEN {"jupyter"} ELSE {})
           given == IF c.platform = "gcp" THEN {"ingress", "spartakus"} ELSE {"ambassador"}
           params == [k \in comps \intersect given |-> <<"template">>]
           d == Template(c)
<1>1. c.platform \in Platform /\ c.version \in Version
  BY CommandCases
<1>2. d = [platform |-> c.platform, version |-> c.version, comps |-> comps, ip |-> None,
           host |-> None, params |-> params]
  <2>1. d = [Blank EXCEPT !.platform = c.platform, !.version = c.version, !.comps = comps,
                          !.params = params]
    BY Zenon DEF Template
  <2> HIDE DEF comps, given, params, d
  <2> QED BY <2>1 DEF Blank
<1>3. comps \in SUBSET Component
  BY DEF Component
<1>4. params \in Params
  <2>1. <<"template">> \in Value
    BY DEF Value
  <2>2. params \in [comps \intersect given -> Value]
    BY <2>1
  <2> HIDE DEF comps, params
  <2> QED BY <1>3, <2>2, ParamsAre
<1>5. DOMAIN params = comps \intersect given
  OBVIOUS
<1>6. /\ "ambassador" \in comps
      /\ c.platform = "gcp" => "ingress" \in comps
      /\ c.platform # "gcp" => /\ comps \intersect given = {"ambassador"}
                               /\ "spartakus" \notin comps /\ "ingress" \notin comps
      /\ c.platform = "gcp" => comps \intersect InitRequired \subseteq comps \intersect given
  BY DEF InitRequired
<1> HIDE DEF comps, given, params, d
<1>7. d \in KfDef
  BY <1>1, <1>2, <1>3, <1>4 DEF KfDef
<1>8. Proper(d)
  BY <1>2, <1>5, <1>6 DEF Proper, InitRequired
<1> QED BY <1>2, <1>5, <1>6, <1>7, <1>8 DEF d

LEMMA DownloadStep ==
    ASSUME IndInv, Download
    PROVE  IndInv'
<1>1. TypeOK /\ Orderly /\ todo # <<>> /\ Head(todo) = "download" /\ Proceed(def)
      /\ cache' = cmd.version /\ UNCHANGED <<app, config, ks, yamls>>
  BY DEF IndInv, Download, At
<1>2. cmd \in Command /\ cmd # None /\ cmd.kind = "init"
  BY <1>1, Running, KindOfStage
<1>3. /\ todo' = Tail(todo) /\ cmd' = cmd /\ was' = was
      /\ todo' # <<>> => def' = def
      /\ \A x : Due(x)' => Due(x)
      /\ Orderly' /\ FailsWithReason'
  BY <1>1, ProceedIs
<1>4. TypeOK'
  <2>1. cmd.version \in Version
    BY <1>2, CommandCases
  <2> QED BY <1>1, <2>1, ProceedTypes DEF TypeOK
<1>5. /\ Tail(todo) # <<>>
      /\ cmd.platform = "gcp" => Head(Tail(todo)) = "save"
  BY <1>1, <1>2, InitRuns
<1>6. OnCourse("init")
  BY <1>1, <1>2 DEF OnCourse
<1>7. Asked'
  <2>1. cache' = cmd'.version
    BY <1>1, <1>3
  <2>2. /\ cmd.platform = "gcp" \/ was = None => def = Template(cmd)
        /\ def \in KfDef /\ (Due("load") => def = Template(cmd))
        /\ cmd.platform # "gcp" => app = was
    BY <1>1, <1>6 DEF IndInv, Asked, Held
  <2>3. todo' # <<>> /\ def' = def /\ app' = app
    BY <1>1, <1>3, <1>5
  <2>4. Held' = def
    BY <2>3 DEF Held
  <2>5. cmd.platform = "gcp" => Head(todo') \notin {"project", "load"}
    BY <1>3, <1>5
  <2> QED BY <1>3, <2>1, <2>2, <2>3, <2>4, <2>5 DEF Asked, Template
<1>8. app' # None => Proper(app')
  BY <1>1 DEF IndInv
<1>9. todo' # <<>> /\ def' \in KfDef => Proper(def')
  BY <1>1, <1>2, <1>3 DEF IndInv
<1> QED BY <1>2, <1>3, <1>4, <1>7, <1>8, <1>9, OtherKinds DEF IndInv, Proper

LEMMA LoadedIs ==
    ASSUME NEW a \in KfDef \union {None}, NEW flags \in BOOLEAN
    PROVE  /\ a = None => Loaded(a, flags) \in Bare
           /\ a # None =>
                 /\ Loaded(a, flags) \in KfDef
                 /\ Loaded(a, flags).platform = a.platform
                 /\ Loaded(a, flags).version = a.version
                 /\ Loaded(a, flags).comps = a.comps /\ Loaded(a, flags).params = a.params
                 /\ ~ flags /\ a.platform # "gcp" => Loaded(a, flags).host = a.host
                 /\ ~ flags /\ a.host # None => Loaded(a, flags).host = a.host
                 /\ a.platform = "gcp" =>
                       /\ Loaded(a, flags).ip = IF flags THEN "mine" ELSE "default"
                       /\ Loaded(a, flags).host =
                             IF flags THEN "mine" ELSE Or(a.host, "default")
<1>1. "mine" \in Name /\ "default" \in Name
  BY DEF Name
<1>2. CASE a = None
  <2> DEFINE ip == IF flags THEN "mine" ELSE None
             host == IF flags THEN "mine" ELSE None
  <2>1. Blank.platform = "none" /\ Blank.host = None /\ Blank.ip = None
    BY DEF Blank
  <2>2. Loaded(a, flags) = [Blank EXCEPT !.ip = ip, !.host = host]
    BY <1>2, <2>1 DEF Loaded
  <2> HIDE DEF ip, host
  <2>3. ip \in Name \union {None} /\ host \in Name \union {None}
    BY <1>1 DEF ip, host
  <2> QED BY <1>2, <2>2, <2>3 DEF Blank, Bare
<1>3. CASE a \in KfDef
  <2> DEFINE ip == IF flags THEN "mine" ELSE IF a.platform = "gcp" THEN "default" ELSE a.ip
             host == IF flags THEN "mine"
                     ELSE IF a.platform = "gcp" /\ a.host = None THEN "default" ELSE a.host
  <2>1. a # None
    BY <1>3, KfDefFields
  <2>2. Loaded(a, flags) = [a EXCEPT !.ip = ip, !.host = host]
    BY <2>1 DEF Loaded
  <2>3. ip \in Name \union {None} /\ host \in Name \union {None}
    BY <1>1, <1>3, KfDefFields
  <2>4. /\ ~ flags /\ a.platform # "gcp" => host = a.host
        /\ ~ flags /\ a.host # None => host = a.host
        /\ a.platform = "gcp" => /\ ip = IF flags THEN "mine" ELSE "default"
                                 /\ host = IF flags THEN "mine" ELSE Or(a.host, "default")
    BY DEF Or
  <2> HIDE DEF ip, host
  <2> QED BY <1>3, <2>1, <2>2, <2>3, <2>4 DEF KfDef
<1> QED BY <1>2, <1>3

LEMMA MergedIs ==
    ASSUME NEW f \in KfDef, NEW d, d.platform \in Platform, d.params \in Params,
           d.ip \in Name \union {None}, d.host \in Name \union {None}
    PROVE  /\ Merged(f, d) \in KfDef
           /\ Merged(f, d).version = f.version /\ Merged(f, d).comps = f.comps
           /\ Merged(f, d).platform = IF f.platform = "none" THEN d.platform ELSE f.platform
           /\ Merged(f, d).host = Or(f.host, d.host)
           /\ Merged(f, d).params = Over(f.params, d.params)
<1> DEFINE p == IF f.platform = "none" THEN d.platform ELSE f.platform
           ip == Or(f.ip, d.ip)
           host == Or(f.host, d.host)
           params == Over(f.params, d.params)
<1>1. f # None
  BY KfDefFields
<1>2. Merged(f, d) = [f EXCEPT !.platform = p, !.ip = ip, !.host = host, !.params = params]
  BY <1>1 DEF Merged
<1>3. p \in Platform /\ ip \in Name \union {None} /\ host \in Name \union {None}
      /\ params \in Params
  <2>1. f.params \in Params
    BY KfDefFields
  <2> QED BY <2>1, KfDefFields, OverIs DEF Or
<1> HIDE DEF p, ip, host, params
<1>4. Merged(f, d) \in KfDef
  BY <1>2, <1>3 DEF KfDef
<1> QED BY <1>2, <1>3, <1>4 DEF p, ip, host, params, KfDef

LEMMA MergedSame ==
    ASSUME NEW f \in KfDef
    PROVE  Merged(f, f) = f
<1>1. f # None /\ f.params \in Params
  BY KfDefFields
<1>2. Over(f.params, f.params) = f.params
  BY <1>1, OverIs
<1>3. /\ (IF f.platform = "none" THEN f.platform ELSE f.platform) = f.platform
      /\ Or(f.ip, f.ip) = f.ip /\ Or(f.host, f.host) = f.host
  BY DEF Or
<1>4. Merged(f, f) = [f EXCEPT !.platform = f.platform, !.ip = f.ip, !.host = f.host,
                               !.params = f.params]
  BY <1>1, <1>2, <1>3 DEF Merged
<1> QED BY <1>4 DEF KfDef

LEMMA ProjectStep ==
    ASSUME IndInv, InitProject
    PROVE  IndInv'
<1>1. TypeOK /\ Orderly /\ todo # <<>> /\ Head(todo) = "project" /\ Proceed(def)
      /\ UNCHANGED <<cache, app, config, ks, yamls>>
  BY DEF IndInv, InitProject, At, disk
<1>2. cmd \in Command /\ cmd # None /\ cmd.kind = "init"
  BY <1>1, Running, KindOfStage
<1>3. /\ todo' = Tail(todo) /\ cmd' = cmd /\ was' = was
      /\ todo' # <<>> => def' = def
      /\ \A x : Due(x)' => Due(x)
      /\ Orderly' /\ FailsWithReason'
  BY <1>1, ProceedIs
<1>4. TypeOK'
  BY <1>1, ProceedTypes DEF TypeOK
<1>5. Tail(todo) # <<>> /\ cmd.platform = "gcp" /\ ~ Due("download")
  BY <1>1, <1>2, InitRuns
<1>6. OnCourse("init")
  BY <1>1, <1>2 DEF OnCourse
<1>7. Asked'
  <2>1. /\ cache = cmd.version
        /\ def = Template(cmd)
        /\ def \in KfDef /\ app = def
    BY <1>1, <1>5, <1>6 DEF IndInv, Asked, Held
  <2>2. todo' # <<>> /\ def' = def /\ app' = app /\ cache' = cache
    BY <1>1, <1>3, <1>5
  <2>3. Held' = def
    BY <2>2 DEF Held
  <2> QED BY <1>3, <1>5, <2>1, <2>2, <2>3 DEF Asked, Template
<1>8. app' # None => Proper(app')
  BY <1>1 DEF IndInv
<1>9. todo' # <<>> /\ def' \in KfDef => Proper(def')
  BY <1>1, <1>2, <1>3 DEF IndInv
<1> QED BY <1>2, <1>3, <1>4, <1>7, <1>8, <1>9, OtherKinds DEF IndInv, Proper

-----------------------------------------------------------------------------
(* app.yaml is read again *)

\* init reads it once.
LEMMA InitLoadsOnce ==
    ASSUME TypeOK, Orderly, todo # <<>>, cmd.kind = "init", Head(todo) = "load",
           cmd.platform # "gcp"
    PROVE  ~ Has(Tail(todo), "load")
<1> DEFINE p == Begun
           s == Plan
           u == Tail(todo)
<1>1. s = Stages(cmd, p) /\ p = cmd.platform /\ p \in Platform /\ s \in Seq(Stage)
  BY Running DEF Plan, Begun
<1>2. Rest(u, s) /\ u # <<>> /\ Head(u) = "save"
  BY Running, RestHead, InitRuns
<1> HIDE DEF p, s, u
<1>3. Tail(u) = <<>>
  BY <1>1, <1>2, InitLeft
<1>4. u \in Seq(Stage)
  BY <1>1, <1>2, RestHead
<1>5. ~ Has(<<>>, "load")
  BY DEF Has
<1>6. ~ Has(u, "load")
  BY <1>2, <1>3, <1>4, <1>5, HasTail
<1> QED BY <1>6 DEF u

LEMMA InitLoad ==
    ASSUME IndInv, At("load"), cmd.kind = "init", Proceed(Merged(app, def)), UNCHANGED disk
    PROVE  IndInv'
<1> DEFINE m == Merged(app, def)
<1>1. TypeOK /\ Orderly /\ todo # <<>> /\ Head(todo) = "load" /\ Proceed(m)
      /\ UNCHANGED <<cache, app, config, ks, yamls>>
  BY DEF IndInv, At, disk
<1>2. cmd \in Command /\ cmd # None /\ OnCourse("init") /\ Due("load")
  BY <1>1, Running DEF OnCourse
<1>3. /\ cache = cmd.version
      /\ def \in KfDef /\ def = Template(cmd)
      /\ cmd.platform # "gcp" => app = was
      /\ cmd.platform = "gcp" => app = def
  <2>1. ~ Due("download")
    BY <1>1, InitRuns
  <2> QED BY <1>1, <1>2, <2>1 DEF IndInv, Asked
<1>4. /\ app \in KfDef \union {None} /\ (app # None => Proper(app))
  BY <1>1 DEF IndInv, TypeOK
<1>5. m \in KfDef /\ Proper(m) /\ (cmd.platform = "gcp" \/ was = None => m = Template(cmd))
  <2>1. CASE app = None
    <3>1. m = def
      BY <2>1 DEF Merged
    <3> QED BY <1>2, <1>3, <3>1, TemplateIs
  <2>2. CASE app # None /\ cmd.platform = "gcp"
    <3>1. m = def
      BY <1>3, <1>4, <2>2, MergedSame
    <3> QED BY <1>2, <1>3, <3>1, TemplateIs
  <2>3. CASE app # None /\ cmd.platform # "gcp"
    <3>1. app \in KfDef /\ Proper(app) /\ was # None
      BY <1>3, <1>4, <2>3
    <3>2. /\ def.platform = cmd.platform /\ DOMAIN def.params = {"ambassador"}
          /\ "spartakus" \notin def.comps
      BY <1>2, <1>3, <2>3, TemplateIs
    <3>3. /\ def.platform \in Platform /\ def.params \in Params
          /\ def.ip \in Name \union {None} /\ def.host \in Name \union {None}
      BY <1>3, KfDefFields
    <3>4. /\ m \in KfDef /\ m.comps = app.comps
          /\ m.platform = IF app.platform = "none" THEN def.platform ELSE app.platform
          /\ m.params = Over(app.params, def.params)
      BY <3>1, <3>3, MergedIs
    <3>5. DOMAIN m.params = DOMAIN app.params \union {"ambassador"}
      <4>1. app.params \in Params
        BY <3>1, KfDefFields
      <4>2. DOMAIN Over(app.params, def.params) = DOMAIN app.params \union DOMAIN def.params
        BY <3>3, <4>1, OverIs
      <4> HIDE DEF m
      <4> QED BY <3>2, <3>4, <4>2
    <3>6. m.platform = "gcp" => app.platform = "gcp"
      BY <2>3, <3>2, <3>4
    <3>7. m.platform # "minikube" => app.platform # "minikube"
      BY <3>4
    <3> HIDE DEF m
    <3>8. Proper(m)
      BY <3>1, <3>4, <3>5, <3>6, <3>7 DEF Proper
    <3> QED BY <2>3, <3>1, <3>4, <3>8
  <2> QED BY <2>1, <2>2, <2>3
<1> HIDE DEF m
<1>6. /\ todo' = Tail(todo) /\ cmd' = cmd /\ was' = was
      /\ todo' # <<>> => def' = m
      /\ \A x : Due(x)' => Due(x)
      /\ Orderly' /\ FailsWithReason'
  BY <1>1, ProceedIs
<1>7. Tail(todo) # <<>> /\ Head(Tail(todo)) = "save"
  BY <1>1, InitRuns
<1>8. TypeOK'
  BY <1>1, <1>5, ProceedTypes DEF TypeOK
<1>9. Asked'
  <2>1. todo' # <<>> /\ def' = m /\ app' = app /\ cache' = cache
    BY <1>1, <1>6, <1>7
  <2>2. Held' = m
    BY <2>1 DEF Held
  <2>3. Due("load")' => m = Template(cmd)
    <3>1. Due("load")' <=> Has(Tail(todo), "load")
      BY <1>6 DEF Due, Has
    <3> QED BY <1>1, <1>5, <3>1, InitLoadsOnce
  <2> QED BY <1>3, <1>5, <1>6, <1>7, <2>1, <2>2, <2>3 DEF Asked, Template
<1>10. app' # None => Proper(app')
  BY <1>1, <1>4
<1>11. todo' # <<>> => Proper(def')
  BY <1>5, <1>6
<1> QED BY <1>2, <1>6, <1>8, <1>9, <1>10, <1>11, OtherKinds DEF IndInv, Proper

\* What a generate of the Kubernetes resources reads is what it has, or what it began with.
LEMMA GenerateReads ==
    ASSUME IndInv, At("load"), cmd.kind = "generate", was # None
    PROVE  /\ Merged(app, def) \in KfDef /\ Kept(Merged(app, def)) /\ Proper(Merged(app, def))
           /\ Merged(app, def).params = app.params /\ Merged(app, def).comps = app.comps
           /\ cmd.resources = "k8s" /\ Merged(app, def).host # was.host => was.host = None
           /\ cmd.resources = "all" /\ Begun # "none" => Merged(app, def) = def /\ app = def
<1> DEFINE m == Merged(app, def)
<1>1. TypeOK /\ Orderly /\ todo # <<>> /\ Head(todo) = "load"
      /\ cmd \in Command /\ cmd # None
  BY Running DEF IndInv, At
<1>2. cmd.resources \in {"all", "k8s"} /\ cmd.flags \in BOOLEAN /\ Due("load")
  BY <1>1, GenerateRuns, Running DEF K8sPart
<1>3. /\ app # None /\ app.version = was.version
      /\ def \in KfDef /\ Kept(def)
      /\ cmd.resources = "k8s" \/ Begun = "none" => app = was /\ def = Loaded(was, cmd.flags)
      /\ cmd.resources = "all" /\ Begun # "none" => app = def
  BY <1>1, <1>2 DEF IndInv, Generating
<1>4. app \in KfDef /\ Proper(app) /\ Proper(def)
  BY <1>1, <1>3 DEF IndInv, TypeOK
<1>5. CASE cmd.resources = "all" /\ Begun # "none"
  <2>1. m = def /\ app = def
    BY <1>3, <1>4, <1>5, MergedSame
  <2> QED BY <1>3, <1>4, <2>1
<1>6. CASE cmd.resources = "k8s" \/ Begun = "none"
  <2> DEFINE l == Loaded(was, cmd.flags)
  <2>1. app = was /\ def = l /\ was \in KfDef
    BY <1>3, <1>4, <1>6
  <2>2. /\ l \in KfDef /\ l.platform = was.platform /\ l.params = was.params
        /\ ~ cmd.flags /\ was.platform # "gcp" => l.host = was.host
    BY <1>2, <2>1, LoadedIs
  <2>3. /\ def.platform \in Platform /\ def.params \in Params
        /\ def.ip \in Name \union {None} /\ def.host \in Name \union {None}
    BY <1>3, KfDefFields
  <2>4. /\ m \in KfDef /\ m.version = was.version /\ m.comps = was.comps
        /\ m.platform = (IF was.platform = "none" THEN def.platform ELSE was.platform)
        /\ m.host = Or(was.host, def.host) /\ m.params = Over(was.params, def.params)
    BY <2>1, <2>3, MergedIs
  <2> HIDE DEF l, m
  <2>5. m.platform = was.platform
    BY <2>1, <2>2, <2>4
  <2>6. m.params = was.params
    <3>1. was.params \in Params
      BY <2>1, KfDefFields
    <3>2. Over(was.params, was.params) = was.params
      BY <3>1, OverIs
    <3> QED BY <2>1, <2>2, <2>4, <3>2
  <2>7. m.host # was.host => was.host = None
    BY <2>4 DEF Or
  <2>8. Kept(m)
    BY <2>4, <2>5, <2>7 DEF Kept
  <2>9. Proper(m)
    BY <1>4, <2>1, <2>4, <2>5, <2>6 DEF Proper
  <2>10. ~ (cmd.resources = "all" /\ Begun # "none")
    BY <1>6
  <2> QED BY <2>1, <2>4, <2>6, <2>7, <2>8, <2>9, <2>10 DEF m
<1> QED BY <1>2, <1>5, <1>6

LEMMA GenerateLoad ==
    ASSUME IndInv, At("load"), cmd.kind = "generate", Proceed(Merged(app, def)), UNCHANGED disk
    PROVE  IndInv'
<1> DEFINE m == Merged(app, def)
<1>1. TypeOK /\ Orderly /\ todo # <<>> /\ Head(todo) = "load" /\ Proceed(m)
      /\ UNCHANGED <<cache, app, config, ks, yamls>>
  BY DEF IndInv, At, disk
<1>2. cmd \in Command /\ cmd # None /\ OnCourse("generate")
  BY <1>1, Running DEF OnCourse
<1>3. was = None => app = None /\ m = def /\ def \in Bare /\ def \notin KfDef /\ Due("registry")
  BY <1>1, <1>2, KfDefFields DEF IndInv, Generating, Merged
<1>4. was # None => /\ m \in KfDef /\ Kept(m) /\ Proper(m)
                    /\ m.params = app.params /\ m.comps = app.comps
                    /\ cmd.resources = "k8s" /\ m.host # was.host => was.host = None
                    /\ cmd.resources = "all" /\ Begun # "none" => m = def /\ app = def
  BY GenerateReads
<1> HIDE DEF m
<1>5. /\ todo' = Tail(todo) /\ cmd' = cmd /\ was' = was
      /\ todo' # <<>> => def' = m
      /\ \A x : Due(x)' => Due(x)
      /\ \A x : Due(x) => x = "load" \/ Due(x)'
      /\ Orderly' /\ FailsWithReason'
  BY <1>1, ProceedIs
<1>6. /\ Begun = (IF was = None THEN "none" ELSE was.platform)
      /\ cmd.resources # "platform" /\ cmd.resources \in {"all", "k8s", "platform"}
  BY <1>1, GenerateRuns DEF K8sPart
<1>7. Tail(todo) # <<>> /\ (\A x \in K8sPart : Due(x)) /\ ~ Has(Tail(todo), "load")
  BY <1>1, <1>6, K8sRuns DEF PlatformPart
<1>8. todo' # <<>> /\ def' = m /\ app' = app /\ config' = config /\ ~ Due("load")' /\ Begun' = Begun
  BY <1>1, <1>5, <1>7 DEF Due, Has, Begun
<1>9. TypeOK'
  <2>1. m \in KfDef \union Bare
    BY <1>3, <1>4
  <2> QED BY <1>1, <2>1, ProceedTypes DEF TypeOK
<1>10. Generating'
  <2>1. CASE was = None
    <3>1. Due("registry")'
      BY <1>3, <1>5, <2>1
    <3> QED BY <1>3, <1>5, <1>8, <2>1, <3>1 DEF Generating
  <2>2. CASE was # None
    <3>1. app # None /\ app.version = was.version
      BY <1>1, <1>2, <2>2 DEF IndInv, Generating
    <3>2. Kept(def)'
      <4>1. m.host # was.host => was.host = None \/ (cmd.flags /\ cmd.resources # "k8s")
        BY <1>4, <2>2 DEF Kept
      <4>2. /\ m.platform = was.platform /\ m.version = was.version
            /\ m.comps \in {was.comps} \union
                  (IF m.platform = "minikube" THEN {was.comps \ {"katib"}} ELSE {})
        BY <1>4, <2>2 DEF Kept
      <4> QED BY <1>5, <1>8, <4>1, <4>2 DEF Kept
    <3> QED BY <1>4, <1>5, <1>6, <1>8, <2>2, <3>1, <3>2 DEF Generating
  <2> QED BY <2>1, <2>2
<1>11. PlatformWritten'
  <2> SUFFICES ASSUME was # None, cmd.resources # "k8s" PROVE PlatformWritten'
    BY <1>5 DEF PlatformWritten
  <2>1. PlatformWritten
    BY DEF IndInv
  <2>2. CASE Begun # "none"
    <3>1. m = def
      BY <1>4, <1>6, <2>2
    <3>2. Held' = Held
      BY <1>1, <1>8, <3>1 DEF Held
    <3>3. /\ Due("params") => Due("params")'
          /\ Due("copies") => Due("copies")'
          /\ Due("iam") => Due("iam")'
          /\ Due("cluster") => Due("cluster")'
          /\ Due("storage") => Due("storage")'
      BY <1>5
    <3> QED BY <1>2, <1>5, <1>8, <2>1, <3>2, <3>3 DEF PlatformWritten
  <2>3. CASE Begun = "none"
    BY <1>5, <1>6, <2>3 DEF PlatformWritten
  <2> QED BY <2>2, <2>3
<1>12. ResourcesMade'
  <2>1. /\ Due("initKs")' /\ Due("registry")' /\ Due("packages")' /\ Due("components")'
        /\ Due("paramSet")'
    BY <1>5, <1>7 DEF K8sPart
  <2> QED BY <1>8, <2>1 DEF ResourcesMade
<1>13. app' # None => Proper(app')
  BY <1>1 DEF IndInv
<1>14. def' \in KfDef => Proper(def')
  BY <1>3, <1>4, <1>8
<1>15. GenerateKeeps'
  BY <1>1, <1>5 DEF IndInv, GenerateKeeps
<1> QED BY <1>2, <1>5, <1>9, <1>10, <1>11, <1>12, <1>13, <1>14, <1>15, OtherKinds DEF IndInv, Proper

\* What show does on its way concerns nobody else.
LEMMA ShowProceeds ==
    ASSUME IndInv, todo # <<>>, cmd.kind = "show", NEW d, Proceed(d), app' = app, TypeOK'
    PROVE  IndInv'
<1>1. TypeOK /\ Orderly /\ cmd # None
  BY Running DEF IndInv
<1>2. cmd' = cmd /\ was' = was /\ Orderly' /\ FailsWithReason'
  BY <1>1, ProceedIs
<1>3. Shown' /\ GenerateKeeps'
  BY <1>1, <1>2 DEF IndInv, Shown, GenerateKeeps
<1>4. app' # None => Proper(app')
  BY DEF IndInv
<1> QED BY <1>1, <1>2, <1>3, <1>4, OtherKinds DEF IndInv, Proper

LEMMA ShowLoad ==
    ASSUME IndInv, At("load"), cmd.kind = "show", Proceed(Merged(app, def)), UNCHANGED disk
    PROVE  IndInv'
<1> DEFINE m == Merged(app, def)
<1>1. TypeOK /\ Orderly /\ todo # <<>> /\ Proceed(m)
      /\ UNCHANGED <<cache, app, config, ks, yamls>>
  BY DEF IndInv, At, disk
<1>2. cmd # None
  BY <1>1, Running
<1>3. m \in KfDef \union Bare
  <2>1. CASE app = None
    <3>1. m = def
      BY <2>1 DEF Merged
    <3> QED BY <1>1, <3>1 DEF TypeOK
  <2>2. CASE app # None
    <3>1. app \in KfDef
      BY <1>1, <2>2 DEF TypeOK
    <3>2. def \in KfDef \union Bare
      BY <1>1 DEF TypeOK
    <3>3. /\ def.platform \in Platform /\ def.params \in Params
          /\ def.ip \in Name \union {None} /\ def.host \in Name \union {None}
      BY <3>2, KfDefFields, NoParams DEF Platform
    <3> QED BY <3>1, <3>3, MergedIs
  <2> QED BY <2>1, <2>2
<1> HIDE DEF m
<1>4. TypeOK'
  BY <1>1, <1>3, ProceedTypes DEF TypeOK
<1> QED BY <1>1, <1>2, <1>4, ShowProceeds

LEMMA LoadStep ==
    ASSUME IndInv, GetPackageManagers
    PROVE  IndInv'
<1>1. TypeOK /\ Orderly /\ todo # <<>> /\ At("load")
      /\ UNCHANGED disk /\ UNCHANGED <<cache, app, config, ks, yamls>>
  BY DEF IndInv, GetPackageManagers, At, disk
<1>2. CASE Unloadable
  <2>1. Return("failed")
    BY <1>2 DEF GetPackageManagers
  <2>2. Unloadable'
    BY <1>1, <1>2 DEF Unloadable
  <2>3. FailsWithReason'
    BY <2>2 DEF FailsWithReason
  <2> QED BY <1>1, <2>1, <2>3, ReturnFailed
<1>3. CASE ~ Unloadable
  <2>1. Proceed(Merged(app, def))
    BY <1>3 DEF GetPackageManagers
  <2> QED BY <1>1, <2>1, KindOfStage, InitLoad, GenerateLoad, ShowLoad
<1> QED BY <1>2, <1>3

-----------------------------------------------------------------------------
(* app.yaml is written *)

LEMMA InitSave ==
    ASSUME IndInv, Save, cmd.kind = "init"
    PROVE  IndInv'
<1>1. TypeOK /\ Orderly /\ todo # <<>> /\ Head(todo) = "save" /\ Proceed(def)
      /\ app' = def /\ UNCHANGED <<cache, config, ks, yamls>>
  BY DEF IndInv, Save, At
<1>2. cmd \in Command /\ cmd # None /\ OnCourse("init")
  BY <1>1, Running DEF OnCourse
<1>3. /\ cache = cmd.version
      /\ cmd.platform = "gcp" \/ was = None => def = Template(cmd)
      /\ def \in KfDef /\ (Due("load") => def = Template(cmd)) /\ Proper(def)
  <2>1. ~ Due("download")
    BY <1>1, InitRuns
  <2> QED BY <1>1, <1>2, <2>1 DEF IndInv, Asked, Held
<1>4. /\ todo' = Tail(todo) /\ cmd' = cmd /\ was' = was
      /\ todo' # <<>> => def' = def
      /\ \A x : Due(x)' => Due(x)
      /\ Orderly' /\ FailsWithReason'
  BY <1>1, ProceedIs
<1>5. TypeOK'
  BY <1>1, <1>3, ProceedTypes DEF TypeOK
<1>6. Tail(todo) # <<>> => cmd.platform = "gcp"
  BY <1>1, InitRuns
<1>7. Asked'
  <2>1. Held' = def
    BY <1>1, <1>4 DEF Held
  <2> QED BY <1>1, <1>3, <1>4, <1>6, <2>1 DEF Asked, Template
<1>8. Proper(app') /\ (todo' # <<>> => Proper(def'))
  BY <1>1, <1>3, <1>4
<1> QED BY <1>2, <1>4, <1>5, <1>7, <1>8, OtherKinds DEF IndInv, Proper

LEMMA GenerateSave ==
    ASSUME IndInv, Save, cmd.kind = "generate"
    PROVE  IndInv'
<1>1. TypeOK /\ Orderly /\ todo # <<>> /\ Head(todo) = "save" /\ Proceed(def)
      /\ app' = def /\ UNCHANGED <<cache, config, ks, yamls>>
  BY DEF IndInv, Save, At
<1>2. cmd \in Command /\ cmd # None /\ OnCourse("generate")
  BY <1>1, Running DEF OnCourse
<1>3. /\ Begun = (IF was = None THEN "none" ELSE was.platform)
      /\ cmd.resources \in {"all", "k8s", "platform"}
      /\ cmd.resources = "platform" => Begun # "none"
  BY <1>1, GenerateRuns
<1>4. cmd.resources # "platform" =>
         \/ Tail(todo) = <<>> /\ ~ Due("registry") /\ ~ Due("load")
         \/ Tail(todo) # <<>> /\ cmd.resources = "all" /\ Begun # "none"
  BY <1>1, K8sRuns DEF K8sPart
<1>5. was # None
  <2> SUFFICES ASSUME was = None PROVE FALSE
    OBVIOUS
  <2>1. Due("registry")
    BY <1>1, <1>2 DEF IndInv, Generating
  <2> QED BY <1>3, <1>4, <2>1
<1>6. def \in KfDef /\ Kept(def) /\ Proper(def)
  BY <1>1, <1>2, <1>5 DEF IndInv, Generating
<1>7. /\ todo' = Tail(todo) /\ cmd' = cmd /\ was' = was
      /\ todo' # <<>> => def' = def
      /\ \A x : Due(x)' => Due(x)
      /\ \A x : Due(x) => x = "save" \/ Due(x)'
      /\ Orderly' /\ FailsWithReason'
  BY <1>1, ProceedIs
<1>8. TypeOK'
  BY <1>1, <1>6, ProceedTypes DEF TypeOK
<1>9. Held' = def /\ Held = def /\ Begun' = Begun
  BY <1>1, <1>7 DEF Held, Begun
<1>10. /\ def.platform = was.platform /\ def.version = was.version
       /\ def.comps \in {was.comps} \union
             (IF def.platform = "minikube" THEN {was.comps \ {"katib"}} ELSE {})
       /\ def.host # was.host =>
             was.host = None \/ (cmd.flags /\ (cmd.resources # "k8s" \/ Due("load")))
  BY <1>6 DEF Kept
<1>11. GenerateKeeps'
  BY <1>1, <1>4, <1>7, <1>10 DEF GenerateKeeps
<1>12. Generating'
  <2> SUFFICES ASSUME todo' # <<>> PROVE Generating'
    BY DEF Generating
  <2>1. Kept(def)'
    <3>1. Due("load") => Due("load")'
      BY <1>7
    <3> QED BY <1>7, <1>10, <3>1 DEF Kept
  <2>2. ~ (cmd.resources = "k8s" \/ Begun = "none")
    BY <1>3, <1>4, <1>7
  <2>3. app' # None /\ app'.version = was.version /\ def' = app'
    BY <1>1, <1>6, <1>7, <1>10, KfDefFields
  <2> QED BY <1>1, <1>5, <1>6, <1>7, <1>9, <2>1, <2>2, <2>3 DEF Generating
<1>13. PlatformWritten'
  <2>1. /\ Due("params") => Due("params")'
        /\ Due("copies") => Due("copies")'
        /\ Due("iam") => Due("iam")'
        /\ Due("cluster") => Due("cluster")'
        /\ Due("storage") => Due("storage")'
    BY <1>7
  <2>2. Held' = Held
    BY <1>9
  <2>3. PlatformWritten
    BY DEF IndInv
  <2> QED BY <1>1, <1>2, <1>7, <2>1, <2>2, <2>3 DEF PlatformWritten
<1>14. ResourcesMade'
  <2>1. /\ Due("initKs") => Due("initKs")'
        /\ Due("registry") => Due("registry")'
        /\ Due("packages") => Due("packages")'
        /\ Due("components") => Due("components")'
        /\ Due("paramSet") => Due("paramSet")'
    BY <1>7
  <2>2. Held' = Held
    BY <1>9
  <2>3. ResourcesMade
    BY DEF IndInv
  <2>4. was' # None /\ app' # None
    BY <1>1, <1>5, <1>6, <1>7, KfDefFields
  <2> QED BY <1>1, <1>2, <1>7, <2>1, <2>2, <2>3, <2>4 DEF ResourcesMade
<1>15. Proper(app') /\ (todo' # <<>> => Proper(def'))
  BY <1>1, <1>6, <1>7
<1> QED BY <1>2, <1>7, <1>8, <1>11, <1>12, <1>13, <1>14, <1>15, OtherKinds DEF IndInv, Proper

LEMMA SaveStep ==
    ASSUME IndInv, Save
    PROVE  IndInv'
BY InitSave, GenerateSave, KindOfStage DEF IndInv, Save, At

-----------------------------------------------------------------------------
(* The platform's part of generate *)

\* A repository of another version is a reason to fail.
LEMMA NotInCache ==
    ASSUME IndInv, todo # <<>>, cmd.kind = "generate", ~ InCache
    PROVE  app = None \/ cache # app.version
<1>1. TypeOK /\ Orderly /\ cmd # None
  BY Running DEF IndInv
<1>2. CASE was = None
  BY <1>1, <1>2 DEF IndInv, Generating
<1>3. CASE was # None
  <2>1. app.version = was.version /\ def \in KfDef /\ def.version = was.version
    BY <1>1, <1>3 DEF IndInv, Generating, Kept
  <2>2. def.version # None
    BY <2>1, KfDefFields
  <2> QED BY <2>1, <2>2 DEF InCache
<1> QED BY <1>2, <1>3

\* Nothing but a reason of generate is asked of a generate that fails.
LEMMA GenerateFails ==
    ASSUME cmd' = cmd, cmd.kind = "generate",
           Unloadable' \/ app' = None \/ cache' # app'.version
             \/ (app'.platform = "minikube" /\ StrayParams')
    PROVE  FailsWithReason'
BY DEF FailsWithReason, Ended

LEMMA MissingStep ==
    ASSUME IndInv,
           NEW s \in {"copies", "iam", "cluster", "storage", "registry", "packages"}, Missing(s)
    PROVE  IndInv'
<1>1. /\ TypeOK /\ Orderly /\ todo # <<>> /\ Head(todo) = s /\ Return("failed")
      /\ ~ InCache /\ UNCHANGED <<cache, app, config, ks, yamls>>
  BY DEF IndInv, Missing, At, disk
<1>2. cmd.kind = "generate"
  BY <1>1, KindOfStage DEF PlatformPart, K8sPart
<1>3. cmd' = cmd
  BY <1>1 DEF Return
<1>4. app' = None \/ cache' # app'.version
  BY <1>1, <1>2, NotInCache
<1>5. FailsWithReason'
  BY <1>2, <1>3, <1>4, GenerateFails
<1> QED BY <1>1, <1>5, ReturnFailed

LEMMA PlatformRuns ==
    ASSUME IndInv, todo # <<>>, Head(todo) \in PlatformPart
    PROVE  /\ TypeOK /\ Orderly /\ cmd \in Command /\ cmd # None /\ cmd.kind = "generate"
           /\ OnCourse("generate") /\ Tail(todo) # <<>>
           /\ cmd.resources \in {"all", "k8s", "platform"} /\ cmd.resources # "k8s"
           /\ Begun # "none" /\ was # None /\ Begun = was.platform
           /\ def \in KfDef /\ Kept(def) /\ Proper(def) /\ def.platform = was.platform
           /\ Begun \in {"gcp", "minikube"} /\ (Begun = "minikube" => Head(todo) = "params")
<1>1. TypeOK /\ Orderly
  BY DEF IndInv
<1>2. cmd \in Command /\ cmd # None /\ cmd.kind = "generate" /\ Begun \in Platform
  BY <1>1, Running, KindOfStage
<1>3. /\ Begun = (IF was = None THEN "none" ELSE was.platform)
      /\ cmd.resources \in {"all", "k8s", "platform"} /\ cmd.resources # "k8s"
      /\ Begun # "none" /\ Tail(todo) # <<>>
      /\ Begun = "minikube" => Head(todo) = "params"
  BY <1>1, <1>2, GenerateRuns
<1>4. was # None /\ Begun = was.platform
  BY <1>3
<1>5. def \in KfDef /\ Kept(def)
  BY <1>2, <1>4 DEF IndInv, Generating
<1>6. Proper(def) /\ def.platform = was.platform
  BY <1>2, <1>5 DEF IndInv, Kept
<1>7. Begun \in {"gcp", "minikube"}
  BY <1>2, <1>3 DEF Platform
<1> QED BY <1>1, <1>2, <1>3, <1>4, <1>5, <1>6, <1>7 DEF OnCourse

\* A stage of the platform's is nothing to the package manager's.
LEMMA PlatformStep ==
    ASSUME IndInv, todo # <<>>, Head(todo) \in PlatformPart,
           NEW d \in KfDef, Kept(d), Proper(d), Proceed(d),
           config' \in Config, UNCHANGED <<cache, app, ks, yamls>>, PlatformWritten'
    PROVE  IndInv'
<1>1. /\ TypeOK /\ Orderly /\ cmd \in Command /\ cmd # None /\ cmd.kind = "generate"
      /\ Tail(todo) # <<>> /\ cmd.resources # "k8s" /\ Begun # "none" /\ was # None
  BY PlatformRuns
<1>2. /\ todo' = Tail(todo) /\ cmd' = cmd /\ was' = was
      /\ todo' # <<>> => def' = d
      /\ \A x : Due(x) => Head(todo) = x \/ Due(x)'
      /\ Orderly' /\ FailsWithReason'
  BY <1>1, ProceedIs
<1>3. TypeOK'
  BY <1>1, ProceedTypes DEF TypeOK
<1>4. todo' # <<>> /\ def' = d /\ Begun' = Begun
  BY <1>1, <1>2 DEF Begun
<1>5. cmd.resources # "platform" => /\ \A x \in K8sPart : Due(x)
                                    /\ Head(Tail(todo)) # "load"
  BY <1>1, K8sRuns DEF PlatformPart
<1>6. cmd.resources # "platform" => \A x \in K8sPart : Due(x)'
  <2>1. Head(todo) \notin K8sPart
    BY DEF PlatformPart, K8sPart
  <2> QED BY <1>2, <1>5, <2>1
<1>7. Generating'
  <2>1. app # None /\ app.version = was.version
    BY <1>1 DEF IndInv, Generating
  <2>2. Kept(def)'
    <3>1. /\ d.platform = was.platform /\ d.version = was.version
          /\ d.comps \in {was.comps} \union
                (IF d.platform = "minikube" THEN {was.comps \ {"katib"}} ELSE {})
          /\ d.host # was.host =>
                was.host = None \/ (cmd.flags /\ (cmd.resources # "k8s" \/ Due("load")))
      BY DEF Kept
    <3> QED BY <1>1, <1>2, <1>4, <3>1 DEF Kept
  <2>3. cmd.resources # "platform" => Due("load")' /\ Head(todo') # "load"
    BY <1>2, <1>5, <1>6 DEF K8sPart
  <2> QED BY <1>1, <1>2, <1>4, <2>1, <2>2, <2>3 DEF Generating
<1>8. ResourcesMade'
  <2> SUFFICES ASSUME cmd.resources # "platform" PROVE ResourcesMade'
    BY <1>2 DEF ResourcesMade
  <2>1. /\ Due("initKs")' /\ Due("registry")' /\ Due("packages")' /\ Due("components")'
        /\ Due("paramSet")'
    BY <1>6 DEF K8sPart
  <2> QED BY <1>4, <2>1 DEF ResourcesMade
<1>9. app' # None => Proper(app')
  BY <1>1 DEF IndInv
<1>10. GenerateKeeps'
  BY <1>1, <1>2 DEF IndInv, GenerateKeeps
<1> QED BY <1>1, <1>2, <1>3, <1>4, <1>7, <1>8, <1>9, <1>10, OtherKinds DEF IndInv, Proper

LEMMA CopiedIs ==
    ASSUME NEW old \in [head : Version, tail : Version \union {None}] \union {None},
           NEW v \in Version
    PROVE  /\ Copied(old, v) \in [head : Version, tail : Version \union {None}]
           /\ Copied(old, v).head = v
           /\ Copied(old, v).tail # None => Length[Copied(old, v).tail] > Length[v]
<1> DEFINE last == IF old = None THEN v ELSE Or(old.tail, old.head)
           tail == IF Length[last] > Length[v] THEN last ELSE None
<1>1. Copied(old, v) = [head |-> v, tail |-> tail]
  BY DEF Copied
<1>2. last \in Version
  BY DEF Or
<1>3. tail \in Version \union {None} /\ (tail # None => Length[tail] > Length[v])
  BY <1>2
<1> HIDE DEF tail
<1> QED BY <1>1, <1>3

\* What the platform's part has brought so far, on gcp.
Written(x, d, c) ==
    /\ x = "copies" => /\ c.copies.head = was.version
                       /\ c.copies.tail # None => Length[c.copies.tail] > Length[was.version]
    /\ x = "iam" => c.iam = was.version
    /\ x = "cluster" => c.cluster = [version |-> was.version, ip |-> d.ip]
    /\ x = "storage" => c.storage = was.version
    /\ x = "params" => d.params["ingress"] = <<d.ip, d.host>>

Names(d) ==
    /\ d.ip = IF cmd.flags THEN "mine" ELSE "default"
    /\ d.host = IF cmd.flags THEN "mine" ELSE Or(was.host, "default")

LEMMA WrittenSoFar ==
    ASSUME IndInv, todo # <<>>, Head(todo) \in PlatformPart, was.platform = "gcp"
    PROVE  /\ Names(def) /\ \A x \in PlatformPart : Due(x) \/ Written(x, def, config)
           /\ def.ip \in Name /\ def.host \in Name
<1>1. OnCourse("generate") /\ was # None /\ cmd.resources # "k8s" /\ Held = def
  BY PlatformRuns DEF Held
<1>2. PlatformWritten
  BY DEF IndInv
<1>3. /\ def.ip = IF cmd.flags THEN "mine" ELSE "default"
      /\ def.host = IF cmd.flags THEN "mine" ELSE Or(was.host, "default")
      /\ Due("params") \/ def.params["ingress"] = <<def.ip, def.host>>
      /\ \/ Due("copies")
         \/ /\ config.copies.head = was.version
            /\ config.copies.tail # None => Length[config.copies.tail] > Length[was.version]
      /\ Due("iam") \/ config.iam = was.version
      /\ Due("cluster") \/ config.cluster = [version |-> was.version, ip |-> def.ip]
      /\ Due("storage") \/ config.storage = was.version
  BY <1>1, <1>2 DEF PlatformWritten
<1>4. \A x \in PlatformPart : Due(x) \/ Written(x, def, config)
  <2> SUFFICES ASSUME NEW x \in PlatformPart, ~ Due(x) PROVE Written(x, def, config)
    OBVIOUS
  <2> QED BY <1>3 DEF Written
<1>5. was \in KfDef
  BY <1>1 DEF IndInv, TypeOK
<1>6. def.ip \in Name /\ def.host \in Name
  BY <1>3, <1>5, KfDefFields DEF Or, Name
<1> QED BY <1>3, <1>4, <1>6 DEF Names

\* A step writes what its stage is for and leaves the rest of it as it was.
LEMMA WritesMore ==
    ASSUME IndInv, todo # <<>>, Head(todo) \in PlatformPart, was.platform = "gcp",
           NEW d, Proceed(d), Names(d),
           \A x \in PlatformPart :
              x = Head(todo) \/ Written(x, def, config) => Written(x, d, config')
    PROVE  PlatformWritten'
<1>1. /\ TypeOK /\ Orderly /\ Tail(todo) # <<>> /\ was # None /\ cmd.resources # "k8s"
  BY PlatformRuns
<1>2. /\ todo' = Tail(todo) /\ cmd' = cmd /\ was' = was
      /\ todo' # <<>> => def' = d
      /\ \A x : Due(x) => Head(todo) = x \/ Due(x)'
  BY <1>1, ProceedIs
<1>3. Held' = d
  BY <1>1, <1>2 DEF Held
<1>4. \A x \in PlatformPart : Due(x)' \/ Written(x, d, config')
  BY <1>2, WrittenSoFar
<1>5. /\ Due("copies")' \/ Written("copies", d, config')
      /\ Due("iam")' \/ Written("iam", d, config')
      /\ Due("cluster")' \/ Written("cluster", d, config')
      /\ Due("storage")' \/ Written("storage", d, config')
      /\ Due("params")' \/ Written("params", d, config')
  BY <1>4 DEF PlatformPart
<1>6. /\ Due("params")' \/ d.params["ingress"] = <<d.ip, d.host>>
      /\ \/ Due("copies")'
         \/ /\ config'.copies.head = was.version
            /\ config'.copies.tail # None =>
                  Length[config'.copies.tail] > Length[was.version]
      /\ Due("iam")' \/ config'.iam = was.version
      /\ Due("cluster")' \/ config'.cluster = [version |-> was.version, ip |-> d.ip]
      /\ Due("storage")' \/ config'.storage = was.version
  BY <1>5 DEF Written
<1> QED BY <1>2, <1>3, <1>6 DEF PlatformWritten, Names

LEMMA WriteConfigStep ==
    ASSUME IndInv, NEW s \in {"copies", "iam", "cluster", "storage"}, NEW text,
           WriteConfig(s, text), [config EXCEPT ![s] = text] \in Config,
           Written(s, def, [config EXCEPT ![s] = text])
    PROVE  IndInv'
<1> DEFINE c == [config EXCEPT ![s] = text]
<1>1. /\ todo # <<>> /\ Head(todo) = s /\ Proceed(def) /\ config' = c
      /\ UNCHANGED <<cache, app, ks, yamls>>
  BY DEF WriteConfig, At
<1>2. Head(todo) \in PlatformPart /\ s # "params"
  BY <1>1 DEF PlatformPart
<1>3. /\ def \in KfDef /\ Kept(def) /\ Proper(def)
      /\ Begun = was.platform /\ Begun \in {"gcp", "minikube"}
      /\ Begun = "minikube" => Head(todo) = "params"
  BY <1>1, <1>2, PlatformRuns
<1>4. was.platform = "gcp"
  BY <1>1, <1>2, <1>3
<1>5. config \in Config
  BY DEF IndInv, TypeOK
<1>6. ASSUME NEW x \in PlatformPart, x # s, Written(x, def, config) PROVE Written(x, def, c)
  <2>1. /\ s # "copies" => c.copies = config.copies
        /\ s # "iam" => c.iam = config.iam
        /\ s # "cluster" => c.cluster = config.cluster
        /\ s # "storage" => c.storage = config.storage
    BY <1>5 DEF Config
  <2> HIDE DEF c
  <2> QED BY <1>6, <2>1 DEF Written
<1> HIDE DEF c
<1>7. Written(s, def, c) /\ c \in Config
  BY DEF c
<1>8. \A x \in PlatformPart : x = Head(todo) \/ Written(x, def, config) => Written(x, def, config')
  BY <1>1, <1>6, <1>7
<1>9. PlatformWritten'
  BY <1>1, <1>2, <1>4, <1>8, WrittenSoFar, WritesMore
<1> QED BY <1>1, <1>2, <1>3, <1>7, <1>9, PlatformStep

LEMMA WriteStep ==
    ASSUME IndInv, CopyFiles \/ WriteIamBindings \/ WriteClusterConfig \/ WriteStorageConfig
    PROVE  IndInv'
<1>1. config \in Config /\ todo # <<>> /\ Head(todo) \in {"copies", "iam", "cluster", "storage"}
  BY DEF IndInv, TypeOK, CopyFiles, WriteIamBindings, WriteClusterConfig, WriteStorageConfig,
         WriteConfig, At
<1>2. Head(todo) \in PlatformPart
  BY <1>1 DEF PlatformPart
<1>3. /\ def \in KfDef /\ def.version = was.version
      /\ Begun = was.platform /\ Begun \in {"gcp", "minikube"}
      /\ Begun = "minikube" => Head(todo) = "params"
  BY <1>1, <1>2, PlatformRuns DEF Kept
<1>4. was.platform = "gcp" /\ def.version \in Version
  BY <1>1, <1>3, KfDefFields
<1>5. def.ip \in Name
  BY <1>1, <1>2, <1>4, WrittenSoFar
<1>6. CASE CopyFiles
  <2> DEFINE text == Copied(config.copies, def.version)
             c == [config EXCEPT !["copies"] = text]
  <2>1. WriteConfig("copies", text)
    BY <1>6 DEF CopyFiles
  <2>2. config.copies \in [head : Version, tail : Version \union {None}] \union {None}
    BY <1>1 DEF Config
  <2>3. /\ text \in [head : Version, tail : Version \union {None}]
        /\ text.head = def.version
        /\ text.tail # None => Length[text.tail] > Length[def.version]
    BY <1>4, <2>2, CopiedIs
  <2> HIDE DEF text
  <2>4. c \in Config /\ c.copies = text
    BY <1>1, <2>3 DEF Config
  <2> HIDE DEF c
  <2>5. Written("copies", def, c)
    BY <1>3, <2>3, <2>4 DEF Written
  <2> QED BY <2>1, <2>4, <2>5, WriteConfigStep DEF c
<1>7. CASE WriteIamBindings
  <2> DEFINE c == [config EXCEPT !["iam"] = def.version]
  <2>1. WriteConfig("iam", def.version)
    BY <1>7 DEF WriteIamBindings
  <2>2. c \in Config /\ c.iam = def.version
    BY <1>1, <1>4 DEF Config
  <2> HIDE DEF c
  <2>3. Written("iam", def, c)
    BY <1>3, <2>2 DEF Written
  <2> QED BY <2>1, <2>2, <2>3, WriteConfigStep DEF c
<1>8. CASE WriteClusterConfig
  <2> DEFINE text == [version |-> def.version, ip |-> def.ip]
             c == [config EXCEPT !["cluster"] = text]
  <2>1. WriteConfig("cluster", text)
    BY <1>8 DEF WriteClusterConfig
  <2>2. text \in [version : Version, ip : Name]
    BY <1>4, <1>5
  <2>3. text = [version |-> was.version, ip |-> def.ip]
    BY <1>3
  <2> HIDE DEF text
  <2>4. c \in Config /\ c.cluster = text
    BY <1>1, <2>2 DEF Config
  <2> HIDE DEF c
  <2>5. Written("cluster", def, c)
    BY <2>3, <2>4 DEF Written
  <2> QED BY <2>1, <2>4, <2>5, WriteConfigStep DEF c
<1>9. CASE WriteStorageConfig
  <2> DEFINE c == [config EXCEPT !["storage"] = def.version]
  <2>1. WriteConfig("storage", def.version)
    BY <1>9 DEF WriteStorageConfig
  <2>2. c \in Config /\ c.storage = def.version
    BY <1>1, <1>4 DEF Config
  <2> HIDE DEF c
  <2>3. Written("storage", def, c)
    BY <1>3, <2>2 DEF Written
  <2> QED BY <2>1, <2>2, <2>3, WriteConfigStep DEF c
<1> QED BY <1>6, <1>7, <1>8, <1>9

LEMMA GcpParamsIs ==
    ASSUME NEW d \in KfDef, Proper(d), d.platform = "gcp", d.ip \in Name, d.host \in Name
    PROVE  /\ GcpParams(d) \in KfDef /\ Proper(GcpParams(d))
           /\ GcpParams(d).platform = d.platform /\ GcpParams(d).version = d.version
           /\ GcpParams(d).comps = d.comps
           /\ GcpParams(d).ip = d.ip /\ GcpParams(d).host = d.host
           /\ GcpParams(d).params["ingress"] = <<d.ip, d.host>>
<1> DEFINE S == {"ingress"} \union (d.comps \intersect {"spartakus"})
           f == [k \in S |-> IF k = "ingress" THEN <<d.ip, d.host>> ELSE <<"generated">>]
           params == Over(f, d.params)
<1>1. GcpParams(d) = [d EXCEPT !.params = params]
  BY DEF GcpParams
<1>2. f \in Params /\ DOMAIN f = S /\ f["ingress"] = <<d.ip, d.host>>
  <2>1. <<d.ip, d.host>> \in Value /\ <<"generated">> \in Value
    BY DEF Value
  <2>2. S \in SUBSET Component
    BY DEF Component
  <2>3. f \in [S -> Value]
    BY <2>1
  <2>4. "ingress" \in S
    OBVIOUS
  <2> QED BY <2>2, <2>3, <2>4, ParamsAre
<1>3. S \subseteq d.comps /\ "ingress" \in S
  BY DEF Proper
<1> HIDE DEF S, f
<1>4. d.params \in Params
  BY KfDefFields
<1>5. /\ params \in Params /\ DOMAIN params = S \union DOMAIN d.params
      /\ params["ingress"] = <<d.ip, d.host>>
  BY <1>2, <1>3, <1>4, OverIs
<1> HIDE DEF params
<1>6. GcpParams(d) \in KfDef
  BY <1>1, <1>5 DEF KfDef
<1>7. /\ GcpParams(d).platform = d.platform /\ GcpParams(d).version = d.version
      /\ GcpParams(d).comps = d.comps /\ GcpParams(d).params = params
      /\ GcpParams(d).ip = d.ip /\ GcpParams(d).host = d.host
  BY <1>1 DEF KfDef
<1>8. Proper(GcpParams(d))
  BY <1>3, <1>5, <1>7 DEF Proper
<1> QED BY <1>5, <1>6, <1>7, <1>8

LEMMA MinikubeParamsIs ==
    ASSUME NEW d \in KfDef, Proper(d), d.platform = "minikube"
    PROVE  /\ MinikubeParams(d) \in KfDef /\ Proper(MinikubeParams(d))
           /\ MinikubeParams(d).platform = d.platform /\ MinikubeParams(d).version = d.version
           /\ MinikubeParams(d).comps = d.comps \ {"katib"}
           /\ MinikubeParams(d).host = d.host
           /\ MinikubeParams(d).params["ambassador"] = <<"generated">>
<1> DEFINE S == {"ambassador", "jupyter"}
           f == [k \in S |-> <<"generated">>]
           params == Over(f, d.params)
           comps == d.comps \ {"katib"}
<1>1. MinikubeParams(d) = [d EXCEPT !.comps = comps, !.params = params]
  BY DEF MinikubeParams
<1>2. f \in Params /\ DOMAIN f = S /\ f["ambassador"] = <<"generated">>
  <2>1. <<"generated">> \in Value
    BY DEF Value
  <2>2. S \in SUBSET Component
    BY DEF Component
  <2>3. f \in [S -> Value]
    BY <2>1
  <2> QED BY <2>2, <2>3, ParamsAre
<1>3. "ambassador" \in S
  OBVIOUS
<1> HIDE DEF S, f
<1>4. d.params \in Params /\ d.comps \in SUBSET Component
  BY KfDefFields
<1>5. /\ params \in Params /\ DOMAIN params = S \union DOMAIN d.params
      /\ params["ambassador"] = <<"generated">>
  BY <1>2, <1>3, <1>4, OverIs
<1>6. comps \in SUBSET Component
  BY <1>4
<1>7. /\ "ambassador" \in comps
      /\ comps \intersect InitRequired \subseteq d.comps \intersect InitRequired
  BY DEF Proper
<1> HIDE DEF params, comps
<1>8. MinikubeParams(d) \in KfDef
  BY <1>1, <1>5, <1>6 DEF KfDef
<1>9. /\ MinikubeParams(d).platform = d.platform /\ MinikubeParams(d).version = d.version
      /\ MinikubeParams(d).comps = comps /\ MinikubeParams(d).params = params
      /\ MinikubeParams(d).host = d.host
  BY <1>1 DEF KfDef
<1>10. Proper(MinikubeParams(d))
  BY <1>5, <1>7, <1>9 DEF Proper
<1> QED BY <1>5, <1>8, <1>9, <1>10 DEF comps

LEMMA SetParamsStep ==
    ASSUME IndInv, SetParams
    PROVE  IndInv'
<1>1. /\ todo # <<>> /\ Head(todo) = "params" /\ config' = config
      /\ UNCHANGED <<cache, app, ks, yamls>>
      /\ Proceed(IF def.platform = "gcp" THEN GcpParams(def) ELSE MinikubeParams(def))
  BY DEF SetParams, At, disk
<1>2. Head(todo) \in PlatformPart
  BY <1>1 DEF PlatformPart
<1>3. /\ TypeOK /\ Orderly /\ Tail(todo) # <<>>
      /\ def \in KfDef /\ Kept(def) /\ Proper(def) /\ def.platform = was.platform
      /\ Begun = was.platform /\ Begun \in {"gcp", "minikube"}
      /\ was # None /\ cmd.resources # "k8s"
  BY <1>1, <1>2, PlatformRuns
<1>4. config' \in Config
  BY <1>1, <1>3 DEF TypeOK
<1>5. /\ def.platform = was.platform /\ def.version = was.version
      /\ def.comps \in {was.comps} \union
            (IF def.platform = "minikube" THEN {was.comps \ {"katib"}} ELSE {})
      /\ def.host # was.host =>
            was.host = None \/ (cmd.flags /\ (cmd.resources # "k8s" \/ Due("load")))
  BY <1>3 DEF Kept
<1>6. CASE was.platform = "gcp"
  <2> DEFINE d == GcpParams(def)
  <2>1. Proceed(d)
    BY <1>1, <1>3, <1>6
  <2>2. Names(def) /\ def.ip \in Name /\ def.host \in Name
    BY <1>1, <1>2, <1>6, WrittenSoFar
  <2>3. /\ d \in KfDef /\ Proper(d) /\ d.platform = def.platform /\ d.version = def.version
        /\ d.comps = def.comps /\ d.ip = def.ip /\ d.host = def.host
        /\ d.params["ingress"] = <<def.ip, def.host>>
    BY <1>3, <1>6, <2>2, GcpParamsIs
  <2> HIDE DEF d
  <2>4. Kept(d)
    BY <1>5, <2>3 DEF Kept
  <2>5. Names(d)
    BY <2>2, <2>3 DEF Names
  <2>6. \A x \in PlatformPart :
           x = Head(todo) \/ Written(x, def, config) => Written(x, d, config')
    BY <1>1, <2>3 DEF Written
  <2>7. PlatformWritten'
    BY <1>1, <1>2, <1>6, <2>1, <2>5, <2>6, WritesMore
  <2> QED BY <1>1, <1>2, <1>4, <2>1, <2>3, <2>4, <2>7, PlatformStep
<1>7. CASE was.platform = "minikube"
  <2> DEFINE d == MinikubeParams(def)
  <2>1. Proceed(d)
    BY <1>1, <1>3, <1>7
  <2>2. /\ d \in KfDef /\ Proper(d) /\ d.platform = def.platform /\ d.version = def.version
        /\ d.comps = def.comps \ {"katib"} /\ d.host = def.host
        /\ d.params["ambassador"] = <<"generated">>
    BY <1>3, <1>7, MinikubeParamsIs
  <2> HIDE DEF d
  <2>3. d.comps = was.comps \ {"katib"}
    BY <1>5, <2>2
  <2>4. Kept(d)
    BY <1>5, <1>7, <2>2, <2>3 DEF Kept
  <2>5. /\ todo' = Tail(todo) /\ cmd' = cmd /\ was' = was
        /\ todo' # <<>> => def' = d
    BY <1>1, <1>3, <2>1, ProceedIs
  <2>6. Held' = d
    BY <1>3, <2>5 DEF Held
  <2>7. PlatformWritten'
    BY <1>7, <2>2, <2>5, <2>6 DEF PlatformWritten
  <2> QED BY <1>1, <1>2, <1>4, <2>1, <2>2, <2>4, <2>7, PlatformStep
<1> QED BY <1>3, <1>6, <1>7
-----------------------------------------------------------------------------
(* The package manager's part of generate *)

\* The stages between the reading of app.yaml and its last writing.
Making == {"initKs", "registry", "packages", "components", "paramSet"}

LEMMA K8sMakes ==
    ASSUME IndInv, todo # <<>>, Head(todo) \in Making
    PROVE  /\ TypeOK /\ Orderly /\ cmd \in Command /\ cmd # None /\ cmd.kind = "generate"
           /\ OnCourse("generate") /\ Tail(todo) # <<>> /\ cmd.resources # "platform"
           /\ ~ Due("load")
           /\ Head(todo) # "initKs" => ~ Due("initKs")
           /\ Head(todo) = "initKs" => Due("registry") /\ Due("packages")
           /\ Head(todo) \in {"initKs", "registry", "packages"} => Due("components")
           /\ Head(todo) = "paramSet" => ~ Due("components")
           /\ Due("paramSet")
           /\ def \in KfDef \union Bare
           /\ was = None => app = None /\ def \in Bare
           /\ was # None => /\ def \in KfDef /\ app # None /\ Kept(def) /\ Proper(def)
                            /\ app.version = def.version
                            /\ def.params = app.params /\ def.comps = app.comps
<1>1. TypeOK /\ Orderly
  BY DEF IndInv
<1>2. cmd \in Command /\ cmd # None /\ cmd.kind = "generate"
  BY <1>1, Running, KindOfStage DEF Making, K8sPart
<1>3. cmd.resources # "platform" /\ Tail(todo) # <<>>
  BY <1>1, <1>2, GenerateRuns DEF Making, K8sPart
<1>4. /\ ~ Due("load")
      /\ Head(todo) # "initKs" => ~ Due("initKs")
      /\ Head(todo) = "initKs" => Due("registry") /\ Due("packages")
      /\ Head(todo) \in {"initKs", "registry", "packages"} => Due("components")
      /\ Head(todo) = "paramSet" => ~ Due("components")
      /\ Due("paramSet")
  BY <1>1, <1>2, <1>3, K8sRuns DEF Making, K8sPart, PlatformPart
<1>5. def \in KfDef \union Bare
  BY <1>1 DEF TypeOK
<1>6. was = None => app = None /\ def \in Bare
  BY <1>2 DEF IndInv, Generating
<1>7. was # None => /\ def \in KfDef /\ app # None /\ Kept(def) /\ app.version = def.version
                    /\ def.params = app.params /\ def.comps = app.comps
  BY <1>2, <1>3, <1>4 DEF IndInv, Generating, Kept
<1>8. was # None => Proper(def)
  BY <1>2, <1>7 DEF IndInv
<1> QED BY <1>1, <1>2, <1>3, <1>4, <1>5, <1>6, <1>7, <1>8 DEF OnCourse

\* What the package manager makes is nothing to the platform.
LEMMA MakeStep ==
    ASSUME IndInv, todo # <<>>, Head(todo) \in Making, was = None => Head(todo) # "registry",
           Proceed(def), UNCHANGED <<cache, app, config, yamls>>,
           ks' \in KsApp \union {None}, ResourcesMade'
    PROVE  IndInv'
<1>1. /\ TypeOK /\ Orderly /\ cmd \in Command /\ cmd # None /\ cmd.kind = "generate"
      /\ OnCourse("generate") /\ Tail(todo) # <<>> /\ cmd.resources # "platform"
      /\ ~ Due("load") /\ def \in KfDef \union Bare
      /\ was # None => /\ def \in KfDef /\ app # None /\ Kept(def) /\ Proper(def)
                       /\ app.version = was.version
                       /\ def.params = app.params /\ def.comps = app.comps
  BY K8sMakes DEF Kept
<1>2. /\ todo' = Tail(todo) /\ cmd' = cmd /\ was' = was
      /\ todo' # <<>> => def' = def
      /\ \A x : Due(x)' => Due(x)
      /\ \A x : Due(x) => Head(todo) = x \/ Due(x)'
      /\ Orderly' /\ FailsWithReason'
  BY <1>1, ProceedIs
<1>3. TypeOK'
  BY <1>1, ProceedTypes DEF TypeOK
<1>4. todo' # <<>> /\ def' = def /\ Held' = Held
  BY <1>1, <1>2 DEF Held
<1>5. Head(todo') # "load" /\ ~ Due("load")'
  <2>1. Tail(todo) \in Seq(Stage)
    BY <1>1, Running, HeadTailProperties
  <2>2. Head(Tail(todo)) = "load" => Has(Tail(todo), "load")
    BY <1>1, <2>1, HasTail
  <2>3. Has(Tail(todo), "load") => Due("load")
    BY <1>1, Running
  <2> QED BY <1>1, <1>2, <2>2, <2>3
<1>6. Generating'
  <2>1. CASE was = None
    <3>1. app = None /\ def \in Bare /\ Due("registry")
      BY <1>1, <2>1 DEF IndInv, Generating
    <3>2. Due("registry")'
      BY <1>2, <2>1, <3>1
    <3> QED BY <1>2, <1>4, <2>1, <3>1, <3>2 DEF Generating
  <2>2. CASE was # None
    <3>1. Kept(def)'
      BY <1>1, <1>2, <1>4, <2>2 DEF Kept
    <3> QED BY <1>1, <1>2, <1>4, <1>5, <2>2, <3>1 DEF Generating
  <2> QED BY <2>1, <2>2
<1>7. PlatformWritten'
  <2>1. /\ Due("params") => Due("params")'
        /\ Due("copies") => Due("copies")'
        /\ Due("iam") => Due("iam")'
        /\ Due("cluster") => Due("cluster")'
        /\ Due("storage") => Due("storage")'
    BY <1>2 DEF Making
  <2>2. PlatformWritten
    BY DEF IndInv
  <2>3. /\ OnCourse("generate") /\ config' = config /\ Held' = Held
        /\ cmd' = cmd /\ was' = was
    BY <1>1, <1>2, <1>4
  <2> QED BY <2>1, <2>2, <2>3 DEF PlatformWritten
<1>8. app' # None => Proper(app')
  BY DEF IndInv
<1>9. def' \in KfDef => Proper(def')
  BY <1>1, <1>4 DEF IndInv
<1>10. GenerateKeeps'
  BY <1>2 DEF IndInv, GenerateKeeps
<1> QED BY <1>1, <1>2, <1>3, <1>6, <1>7, <1>8, <1>9, <1>10, OtherKinds DEF IndInv, Proper

\* Nor is what it does before it goes on.
LEMMA MakeMore ==
    ASSUME IndInv, todo # <<>>, Head(todo) \in Making,
           UNCHANGED <<cmd, todo, def, was, result>>, UNCHANGED <<cache, app, config, yamls>>,
           ks' \in KsApp \union {None}, tries' \in 0 .. MaxTries, moves' \in 0 .. MaxMoves,
           ResourcesMade'
    PROVE  IndInv'
<1>1. cmd # None /\ cmd.kind = "generate" /\ result = None
  BY K8sMakes, Running DEF IndInv
<1>2. TypeOK'
  BY DEF IndInv, TypeOK
<1>3. Orderly'
  <2>1. Plan' = Plan
    BY DEF Plan, Begun
  <2>2. Orderly
    BY DEF IndInv
  <2> QED BY <2>1, <2>2 DEF Orderly
<1>4. FailsWithReason'
  <2>1. result' # "failed"
    BY <1>1, NoneAssumption
  <2> QED BY <2>1 DEF FailsWithReason, Ended
<1>5. Generating'
  BY DEF IndInv, Generating, Kept, Due, Begun
<1>6. PlatformWritten'
  BY DEF IndInv, PlatformWritten, OnCourse, Held, Due
<1>7. GenerateKeeps'
  BY DEF IndInv, GenerateKeeps
<1>8. (app' # None => Proper(app')) /\ (def' \in KfDef => Proper(def'))
  BY <1>1 DEF IndInv
<1> QED BY <1>1, <1>2, <1>3, <1>4, <1>5, <1>6, <1>7, <1>8, OtherKinds DEF IndInv, Proper

LEMMA EmptyIs ==
    ASSUME NEW b \in BOOLEAN
    PROVE  Empty(b) \in KsApp /\ Empty(b).loads = b /\ DOMAIN Empty(b).params = {}
BY NoParams DEF Empty, KsApp

LEMMA KsAppIs ==
    ASSUME NEW k \in KsApp
    PROVE  /\ k # None /\ k.loads \in BOOLEAN /\ k.registry \in Version \union {None}
           /\ k.packages \in Version \union {None} /\ k.params \in Params
BY NoneAssumption DEF KsApp

\* What has been made so far.
LEMMA MadeSoFar ==
    ASSUME IndInv, todo # <<>>, Head(todo) \in Making
    PROVE  /\ Due("initKs") \/ (/\ ks \in KsApp /\ ks # None /\ ks.loads
                                /\ DOMAIN ks.params \subseteq def.comps)
           /\ Due("registry") \/ (ks.registry = def.version /\ cache = def.version)
           /\ Due("packages") \/ ks.packages = def.version
           /\ Due("components") \/ DOMAIN ks.params = def.comps
<1>1. OnCourse("generate") /\ cmd.resources # "platform" /\ Held = def
  BY K8sMakes DEF Held
<1>2. ks \in KsApp \union {None}
  BY DEF IndInv, TypeOK
<1> QED BY <1>1, <1>2 DEF IndInv, ResourcesMade

\* What will have been made when the stage is over.
LEMMA MadeNext ==
    ASSUME IndInv, todo # <<>>, Head(todo) \in Making, Proceed(def),
           Due("initKs") => Head(todo) = "initKs",
           ks' # None /\ ks'.loads /\ DOMAIN ks'.params \subseteq def.comps,
           \/ Due("registry") /\ Head(todo) # "registry"
           \/ (ks'.registry = def.version /\ cache' = def.version),
           (Due("packages") /\ Head(todo) # "packages") \/ ks'.packages = def.version,
           (Due("components") /\ Head(todo) # "components") \/ DOMAIN ks'.params = def.comps,
           Head(todo) # "paramSet"
              \/ \A c \in DOMAIN def.params :
                    c \in DOMAIN ks'.params /\ ks'.params[c] = def.params[c]
    PROVE  ResourcesMade'
<1>1. TypeOK /\ Orderly /\ Tail(todo) # <<>> /\ Due("paramSet")
  BY K8sMakes
<1>2. /\ todo' = Tail(todo) /\ cmd' = cmd
      /\ todo' # <<>> => def' = def
      /\ \A x : Due(x) => Head(todo) = x \/ Due(x)'
  BY <1>1, ProceedIs
<1>3. Held' = def
  BY <1>1, <1>2 DEF Held
<1>4. /\ Due("registry")' \/ (ks'.registry = def.version /\ cache' = def.version)
      /\ Due("packages")' \/ ks'.packages = def.version
      /\ Due("components")' \/ DOMAIN ks'.params = def.comps
      /\ Due("paramSet")' \/ \A c \in DOMAIN def.params :
                                c \in DOMAIN ks'.params /\ ks'.params[c] = def.params[c]
  BY <1>1, <1>2
<1> QED BY <1>1, <1>2, <1>3, <1>4 DEF ResourcesMade

LEMMA InitKsStep ==
    ASSUME IndInv, InitKs
    PROVE  IndInv'
<1>1. todo # <<>> /\ Head(todo) = "initKs"
  BY DEF InitKs, At
<1>2. Head(todo) \in Making /\ cmd.kind = "generate"
  BY <1>1, K8sMakes DEF Making
<1>3. CASE def.platform = "gcp" /\ ~ InCache
  <2>1. ks' = None /\ Return("failed") /\ UNCHANGED <<cache, app, config, yamls>>
    BY <1>3 DEF InitKs, SetKs
  <2>2. app' = None \/ cache' # app'.version
    BY <1>1, <1>2, <1>3, <2>1, NotInCache
  <2>3. cmd' = cmd
    BY <2>1 DEF Return
  <2>4. FailsWithReason'
    BY <1>2, <2>2, <2>3, GenerateFails
  <2> QED BY <1>1, <2>1, <2>4, ReturnFailed
<1>4. CASE ~ (def.platform = "gcp" /\ ~ InCache)
  <2>1. ks' = Empty(TRUE) /\ Proceed(def) /\ UNCHANGED <<cache, app, config, yamls>>
    BY <1>4 DEF InitKs, SetKs
  <2>2. ks' \in KsApp /\ ks' # None /\ ks'.loads /\ DOMAIN ks'.params \subseteq def.comps
    BY <2>1, EmptyIs, KsAppIs
  <2>3. Due("registry") /\ Due("packages") /\ Due("components")
    BY <1>1, <1>2, K8sMakes
  <2>4. ResourcesMade'
    BY <1>1, <1>2, <2>1, <2>2, <2>3, MadeNext
  <2> QED BY <1>1, <1>2, <2>1, <2>2, <2>4, MakeStep
<1> QED BY <1>3, <1>4

LEMMA RegistryStep ==
    ASSUME IndInv, RegistryAdd
    PROVE  IndInv'
<1>1. /\ todo # <<>> /\ Head(todo) = "registry" /\ InCache /\ Proceed(def)
      /\ ks' = [ks EXCEPT !.registry = def.version] /\ UNCHANGED <<cache, app, config, yamls>>
  BY DEF RegistryAdd, At, SetKs
<1>2. Head(todo) \in Making /\ ~ Due("initKs") /\ Due("components")
      /\ def \in KfDef \union Bare /\ (was = None => def \in Bare)
  BY <1>1, K8sMakes DEF Making
<1>3. was # None /\ def.version \in Version /\ cache = def.version
  BY <1>1, <1>2, KfDefFields DEF InCache
<1>4. /\ ks \in KsApp /\ ks.loads /\ DOMAIN ks.params \subseteq def.comps
      /\ Due("packages") \/ ks.packages = def.version
  BY <1>1, <1>2, MadeSoFar
<1>5. /\ ks' \in KsApp /\ ks'.loads = ks.loads /\ ks'.registry = def.version
      /\ ks'.packages = ks.packages /\ ks'.params = ks.params
  BY <1>1, <1>3, <1>4 DEF KsApp
<1>6. ResourcesMade'
  BY <1>1, <1>2, <1>3, <1>4, <1>5, KsAppIs, MadeNext
<1> QED BY <1>1, <1>2, <1>3, <1>5, <1>6, MakeStep

LEMMA PackagesStep ==
    ASSUME IndInv, PkgInstall
    PROVE  IndInv'
<1>1. /\ todo # <<>> /\ Head(todo) = "packages" /\ InCache /\ Proceed(def)
      /\ ks' = [ks EXCEPT !.packages = def.version] /\ UNCHANGED <<cache, app, config, yamls>>
  BY DEF PkgInstall, At, SetKs
<1>2. Head(todo) \in Making /\ ~ Due("initKs") /\ Due("components")
      /\ def \in KfDef \union Bare
  BY <1>1, K8sMakes DEF Making
<1>3. def.version \in Version
  BY <1>1, <1>2, KfDefFields DEF InCache
<1>4. /\ ks \in KsApp /\ ks.loads /\ DOMAIN ks.params \subseteq def.comps
      /\ Due("registry") \/ (ks.registry = def.version /\ cache = def.version)
  BY <1>1, <1>2, MadeSoFar
<1>5. /\ ks' \in KsApp /\ ks'.loads = ks.loads /\ ks'.packages = def.version
      /\ ks'.registry = ks.registry /\ ks'.params = ks.params
  BY <1>1, <1>3, <1>4 DEF KsApp
<1>6. ResourcesMade'
  BY <1>1, <1>2, <1>4, <1>5, KsAppIs, MadeNext
<1> QED BY <1>1, <1>2, <1>5, <1>6, MakeStep

\* A step within the last two stages leaves what the earlier ones made.
LEMMA MadeStill ==
    ASSUME IndInv, todo # <<>>, Head(todo) \in {"components", "paramSet"}, Stay, cache' = cache,
           ks' # None /\ ks'.loads /\ DOMAIN ks'.params \subseteq def.comps,
           ks'.registry = ks.registry /\ ks'.packages = ks.packages,
           Head(todo) = "paramSet" => DOMAIN ks'.params = DOMAIN ks.params
    PROVE  ResourcesMade'
<1>1. Head(todo) \in Making
  BY DEF Making
<1>2. Due("paramSet") /\ ~ Due("initKs")
  BY <1>1, K8sMakes
<1>3. Due("components") \/ Head(todo) = "paramSet"
  <2>1. Due(Head(todo))
    BY Running DEF IndInv
  <2> QED BY <2>1
<1>4. /\ Due("registry") \/ (ks.registry = def.version /\ cache = def.version)
      /\ Due("packages") \/ ks.packages = def.version
      /\ Due("components") \/ DOMAIN ks.params = def.comps
  BY <1>1, MadeSoFar
<1>5. todo' = todo /\ Held' = def
  BY DEF Stay, Held
<1>6. \A x : Due(x)' <=> Due(x)
  BY <1>5 DEF Due
<1>7. /\ Due("paramSet")'
      /\ Due("registry")' \/ (ks'.registry = def.version /\ cache' = def.version)
      /\ Due("packages")' \/ ks'.packages = def.version
      /\ Due("components")' \/ DOMAIN ks'.params = def.comps
  BY <1>2, <1>3, <1>4, <1>6
<1> QED BY <1>5, <1>7 DEF ResourcesMade

LEMMA ComponentsStep ==
    ASSUME IndInv, ComponentAdd
    PROVE  IndInv'
<1> DEFINE missing == def.comps \ DOMAIN ks.params
           c == CHOOSE c \in missing : TRUE
           added == [k \in {c} |-> IF c \in InitRequired THEN def.params[c] ELSE <<"prototype">>]
           params == Over(ks.params, added)
<1>1. todo # <<>> /\ Head(todo) = "components" /\ cmd.kind = "generate"
  BY K8sMakes DEF ComponentAdd, At, Making
<1>2. \/ missing # {} /\ ks' = [ks EXCEPT !.params = params] /\ Stay
            /\ UNCHANGED <<cache, app, config, yamls>>
      \/ missing = {} /\ Proceed(def) /\ UNCHANGED disk
  BY DEF ComponentAdd, SetKs
<1> HIDE DEF params, added, c, missing
<1>3. Head(todo) \in Making
  BY <1>1 DEF Making
<1>4. /\ ks \in KsApp /\ ks # None /\ ks.loads /\ DOMAIN ks.params \subseteq def.comps
      /\ Due("registry") \/ (ks.registry = def.version /\ cache = def.version)
      /\ Due("packages") \/ ks.packages = def.version
  BY <1>1, <1>3, K8sMakes, MadeSoFar
<1>5. /\ def \in KfDef \union Bare /\ (was = None => def \in Bare)
      /\ was # None => def \in KfDef /\ Proper(def)
      /\ ~ Due("initKs")
  BY <1>1, <1>3, K8sMakes
<1>6. CASE missing # {} /\ ks' = [ks EXCEPT !.params = params] /\ Stay
             /\ UNCHANGED <<cache, app, config, yamls>>
  <2>1. c \in missing /\ c \in def.comps
    BY <1>6 DEF missing, c
  <2>2. def \in KfDef /\ Proper(def)
    BY <1>5, <2>1, KfDefFields
  <2>3. c \in Component /\ def.params \in Params
    BY <2>1, <2>2, KfDefFields
  <2>4. added \in Params /\ DOMAIN added = {c}
    <3> DEFINE v == IF c \in InitRequired THEN def.params[c] ELSE <<"prototype">>
    <3>1. v \in Value
      <4>1. CASE c \in InitRequired
        <5>1. c \in DOMAIN def.params
          BY <2>1, <2>2, <4>1 DEF Proper
        <5>2. PICK C \in SUBSET Component : def.params \in [C -> Value]
          BY <2>3, ParamsAre
        <5>3. def.params[c] \in Value
          BY <5>1, <5>2
        <5> QED BY <4>1, <5>3
      <4>2. CASE c \notin InitRequired
        <5>1. <<"prototype">> \in Value
          BY DEF Value
        <5> QED BY <4>2, <5>1
      <4> QED BY <4>1, <4>2
    <3>2. added = [k \in {c} |-> v]
      BY DEF added
    <3> HIDE DEF v
    <3>3. added \in [{c} -> Value] /\ {c} \in SUBSET Component
      BY <2>3, <3>1, <3>2
    <3> QED BY <3>3, ParamsAre
  <2>5. params \in Params /\ DOMAIN params = DOMAIN ks.params \union {c}
    <3> DEFINE p == ks.params
    <3>1. p \in Params
      BY <1>4, KsAppIs
    <3> HIDE DEF p
    <3>2. added \in Params
      BY <2>4
    <3>3. Over(p, added) \in Params /\ DOMAIN Over(p, added) = DOMAIN p \union DOMAIN added
      BY <3>1, <3>2, OverIs
    <3>4. Over(p, added) \in Params /\ DOMAIN Over(p, added) = DOMAIN p \union {c}
      BY <2>4, <3>3
    <3> QED BY <3>4 DEF params, p
  <2>6. /\ ks' \in KsApp /\ ks'.loads = ks.loads /\ ks'.registry = ks.registry
        /\ ks'.packages = ks.packages /\ ks'.params = params
    BY <1>4, <1>6, <2>5 DEF KsApp
  <2>7. ResourcesMade'
    BY <1>1, <1>4, <1>6, <2>1, <2>5, <2>6, KsAppIs, MadeStill
  <2>8. tries' \in 0 .. MaxTries /\ moves' \in 0 .. MaxMoves
    BY <1>6 DEF Stay, bounds, IndInv, TypeOK
  <2>9. UNCHANGED <<cmd, todo, def, was, result>>
    BY <1>6 DEF Stay
  <2> QED BY <1>1, <1>3, <1>6, <2>6, <2>7, <2>8, <2>9, MakeMore
<1>7. CASE missing = {} /\ Proceed(def) /\ UNCHANGED disk
  <2>1. UNCHANGED <<cache, app, config, yamls>> /\ ks' = ks
    BY <1>7 DEF disk
  <2>2. DOMAIN ks'.params = def.comps
    BY <1>4, <1>7, <2>1 DEF missing
  <2>3. ResourcesMade'
    BY <1>1, <1>3, <1>4, <1>5, <1>7, <2>1, <2>2, MadeNext
  <2> QED BY <1>1, <1>3, <1>4, <1>7, <2>1, <2>3, MakeStep
<1> QED BY <1>2, <1>6, <1>7

LEMMA ParamSetStep ==
    ASSUME IndInv, ParamSet
    PROVE  IndInv'
<1> DEFINE unset == {c \in DOMAIN def.params :
                        c \in DOMAIN ks.params => ks.params[c] # def.params[c]}
<1>1. todo # <<>> /\ Head(todo) = "paramSet"
  BY DEF ParamSet, At
<1>2. Head(todo) \in Making
  BY <1>1 DEF Making
<1>3. /\ cmd.kind = "generate" /\ cmd # None /\ TypeOK
      /\ def \in KfDef \union Bare /\ (was = None => def \in Bare)
      /\ was # None => /\ def \in KfDef /\ Proper(def) /\ app # None
                       /\ def.params = app.params /\ def.comps = app.comps
      /\ ~ Due("initKs") /\ ~ Due("components")
  BY <1>1, <1>2, K8sMakes
<1>4. /\ ks \in KsApp /\ ks # None /\ ks.loads /\ DOMAIN ks.params = def.comps
      /\ Due("registry") \/ (ks.registry = def.version /\ cache = def.version)
      /\ Due("packages") \/ ks.packages = def.version
  BY <1>1, <1>2, <1>3, MadeSoFar
<1>5. def.params \in Params /\ ks.params \in Params
  BY <1>3, <1>4, KfDefFields, NoParams, KsAppIs
<1>6. ASSUME NEW c \in unset, c \in DOMAIN ks.params,
             SetKs([ks EXCEPT !.params[c] = def.params[c]]), Stay
      PROVE  IndInv'
  <2> DEFINE params == [ks.params EXCEPT ![c] = def.params[c]]
  <2>1. ks' = [ks EXCEPT !.params = params] /\ UNCHANGED <<cache, app, config, yamls>>
    BY <1>6 DEF SetKs
  <2>2. PICK C \in SUBSET Component : def.params \in [C -> Value]
    BY <1>5, ParamsAre
  <2>3. PICK D \in SUBSET Component : ks.params \in [D -> Value]
    BY <1>5, ParamsAre
  <2>4. def.params[c] \in Value
    BY <1>6, <2>2
  <2>5. params \in [D -> Value] /\ DOMAIN params = DOMAIN ks.params
    BY <2>3, <2>4
  <2>6. params \in Params
    BY <2>5, ParamsAre
  <2> HIDE DEF params, unset
  <2>7. /\ ks' \in KsApp /\ ks'.loads = ks.loads /\ ks'.registry = ks.registry
        /\ ks'.packages = ks.packages /\ ks'.params = params
    BY <1>4, <2>1, <2>6 DEF KsApp
  <2>8. ResourcesMade'
    BY <1>1, <1>4, <1>6, <2>1, <2>5, <2>7, KsAppIs, MadeStill
  <2>9. tries' \in 0 .. MaxTries /\ moves' \in 0 .. MaxMoves
    BY <1>3, <1>6 DEF Stay, bounds, TypeOK
  <2>10. UNCHANGED <<cmd, todo, def, was, result>>
    BY <1>6 DEF Stay
  <2> QED BY <1>1, <1>2, <2>1, <2>7, <2>8, <2>9, <2>10, MakeMore
<1>7. ASSUME NEW c \in unset, c \notin DOMAIN ks.params, Return("failed"), UNCHANGED disk
      PROVE  IndInv'
  <2>1. UNCHANGED <<cache, app, config, yamls>> /\ ks' = ks /\ cmd' = cmd
    BY <1>7 DEF disk, Return
  <2>2. c \in DOMAIN def.params /\ c \notin def.comps
    BY <1>4, <1>7
  <2>3. was # None
    BY <1>3, <2>2, KfDefFields, NoParams
  <2>4. def.platform = "minikube"
    BY <1>3, <2>2, <2>3 DEF Proper
  <2>5. app.platform = def.platform
    <3>1. Kept(def) /\ GenerateKeeps
      BY <1>1, <1>2, <2>3, K8sMakes DEF IndInv
    <3> QED BY <1>3, <2>3, <3>1 DEF GenerateKeeps, Kept
  <2>6. StrayParams
    BY <1>3, <2>2, <2>3 DEF StrayParams
  <2>7. app'.platform = "minikube" /\ StrayParams'
    BY <2>1, <2>4, <2>5, <2>6 DEF StrayParams
  <2>8. FailsWithReason'
    BY <1>3, <2>1, <2>7, GenerateFails
  <2> QED BY <1>1, <1>7, <2>1, <2>8, ReturnFailed
<1>8. ASSUME unset = {}, Proceed(def), UNCHANGED disk
      PROVE  IndInv'
  <2>1. UNCHANGED <<cache, app, config, yamls>> /\ ks' = ks
    BY <1>8 DEF disk
  <2>2. \A c \in DOMAIN def.params : c \in DOMAIN ks.params /\ ks.params[c] = def.params[c]
    BY <1>8
  <2> HIDE DEF unset
  <2>3. ResourcesMade'
    BY <1>1, <1>2, <1>3, <1>4, <1>8, <2>1, <2>2, MadeNext
  <2> QED BY <1>1, <1>2, <1>4, <1>8, <2>1, <2>3, MakeStep
<1>9. \/ \E c \in unset : IF c \in DOMAIN ks.params
                          THEN SetKs([ks EXCEPT !.params[c] = def.params[c]]) /\ Stay
                          ELSE Return("failed") /\ UNCHANGED disk
      \/ unset = {} /\ Proceed(def) /\ UNCHANGED disk
  BY DEF ParamSet
<1> QED BY <1>6, <1>7, <1>8, <1>9

-----------------------------------------------------------------------------
(* The steps of show *)

\* A show that fails has found one of its reasons.
LEMMA ShowFails ==
    ASSUME IndInv, todo # <<>>, cmd.kind = "show", Return("failed"), UNCHANGED disk,
           Unloadable \/ ks = None \/ yamls # None \/ (app # None /\ app.platform # "none")
    PROVE  IndInv'
<1>1. UNCHANGED <<cache, app, config, yamls>> /\ ks' = ks /\ cmd' = cmd
  BY DEF disk, Return
<1>2. FailsWithReason'
  BY <1>1 DEF FailsWithReason, Ended, Unloadable
<1> QED BY <1>1, <1>2, ReturnFailed

LEMMA ShowStep ==
    ASSUME IndInv, ShowPlatform \/ Render \/ MakeYamls \/ WriteYaml
    PROVE  IndInv'
<1>1. /\ TypeOK /\ Orderly /\ todo # <<>>
      /\ Head(todo) \in {"show", "render", "mkdir", "yaml"}
  BY DEF IndInv, ShowPlatform, Render, MakeYamls, WriteYaml, At
<1>2. cmd.kind = "show" /\ cmd # None
  BY <1>1, KindOfStage, Running
<1>3. ASSUME Proceed(def), UNCHANGED <<cache, app, config, ks>>,
             yamls' \in {None, "empty", "default.yaml"}
      PROVE  IndInv'
  <2>1. def \in KfDef \union Bare
    BY <1>1 DEF TypeOK
  <2>2. TypeOK'
    BY <1>1, <1>3, <2>1, ProceedTypes DEF TypeOK
  <2> QED BY <1>1, <1>2, <1>3, <2>2, ShowProceeds
<1>4. yamls \in {None, "empty", "default.yaml"}
  BY <1>1 DEF TypeOK
<1>5. CASE ShowPlatform
  <2>1. Head(todo) = "show" /\ Return("failed") /\ UNCHANGED disk
    BY <1>5 DEF ShowPlatform, At
  <2>2. Begun # "none"
    BY <1>1, <1>2, <2>1, ShowRuns
  <2>3. was # None /\ was.platform # "none"
    BY <1>2, <2>2 DEF Begun
  <2>4. app = was
    BY <1>2 DEF IndInv, Shown
  <2> QED BY <1>1, <1>2, <2>1, <2>3, <2>4, ShowFails
<1>6. CASE Render
  <2>1. UNCHANGED disk /\ (IF ks = None THEN Return("failed") ELSE Proceed(def))
    BY <1>6 DEF Render
  <2>2. UNCHANGED <<cache, app, config, ks>> /\ yamls' = yamls
    BY <2>1 DEF disk
  <2>3. CASE ks = None
    BY <1>1, <1>2, <2>1, <2>3, ShowFails
  <2>4. CASE ks # None
    BY <1>3, <1>4, <2>1, <2>2, <2>4
  <2> QED BY <2>3, <2>4
<1>7. CASE MakeYamls
  <2>1. CASE yamls # None
    BY <1>1, <1>2, <1>7, <2>1, ShowFails DEF MakeYamls
  <2>2. CASE yamls = None
    BY <1>3, <1>7, <2>2 DEF MakeYamls
  <2> QED BY <2>1, <2>2
<1>8. CASE WriteYaml
  BY <1>3, <1>8 DEF WriteYaml
<1> QED BY <1>5, <1>6, <1>7, <1>8

-----------------------------------------------------------------------------
(* Interruptions *)

\* What an interrupted stage leaves: files that are what they were, or empty, and
\* an application that ksonnet may not be able to load.
LEMMA LeftoverIs ==
    ASSUME TypeOK, Leftover
    PROVE  /\ cache' \in {cache, None} /\ app' \in {app, None} /\ yamls' = yamls
           /\ Head(todo) # "save" => app' = app
           /\ config' \in Config /\ ks' \in KsApp \union {None}
           /\ Head(todo) = "initKs" => UNCHANGED <<cache, app, config, yamls>>
<1>1. config \in Config /\ ks \in KsApp \union {None}
  BY DEF TypeOK
<1>2. /\ [config EXCEPT !["iam"] = None] \in Config
      /\ [config EXCEPT !["cluster"] = None] \in Config
      /\ [config EXCEPT !["storage"] = None] \in Config
  BY <1>1 DEF Config
<1>3. Empty(TRUE) \in KsApp /\ Empty(FALSE) \in KsApp
  BY EmptyIs
<1>4. CASE Head(todo) = "download"
  BY <1>1, <1>4 DEF Leftover
<1>5. CASE Head(todo) = "save"
  BY <1>1, <1>5 DEF Leftover
<1>6. CASE Head(todo) \in {"iam", "cluster", "storage"}
  <2>1. /\ config' \in {config, [config EXCEPT ![Head(todo)] = None]}
        /\ UNCHANGED <<cache, app, ks, yamls>>
    BY <1>6 DEF Leftover
  <2>2. config' \in Config
    BY <1>1, <1>2, <1>6, <2>1
  <2> QED BY <1>1, <1>6, <2>1, <2>2
<1>7. CASE Head(todo) = "initKs"
  <2>1. /\ UNCHANGED <<cache, app, config, yamls>>
        /\ ks' \in {ks, None, Empty(TRUE), Empty(FALSE)}
    BY <1>7 DEF Leftover, SetKs
  <2> QED BY <1>1, <1>3, <2>1
<1>8. CASE Head(todo) \notin {"download", "save", "iam", "cluster", "storage", "initKs"}
  BY <1>1, <1>8 DEF Leftover, disk
<1> QED BY <1>4, <1>5, <1>6, <1>7, <1>8

LEMMA InterruptStep ==
    ASSUME IndInv, Interrupt
    PROVE  IndInv'
<1>1. /\ todo # <<>> /\ Leftover /\ moves < MaxMoves
      /\ todo' = <<>> /\ def' = Blank /\ result' = "interrupted" /\ tries' = 0
      /\ moves' = moves + 1 /\ cmd' = cmd /\ was' = was
  BY DEF Interrupt, Trouble
<1>2. TypeOK /\ Orderly /\ cmd # None
  BY <1>1, Running DEF IndInv
<1>3. /\ cache' \in {cache, None} /\ app' \in {app, None} /\ yamls' = yamls
      /\ Head(todo) # "save" => app' = app
      /\ config' \in Config /\ ks' \in KsApp \union {None}
  BY <1>1, <1>2, LeftoverIs
<1>4. TypeOK'
  <2>1. 0 \in 0 .. MaxTries
    BY KfAppAssumption
  <2>2. moves' \in 0 .. MaxMoves
    BY <1>1, <1>2, KfAppAssumption DEF TypeOK
  <2> QED BY <1>1, <1>2, <1>3, <2>1, <2>2, BlankIsBare DEF TypeOK
<1>5. Orderly'
  <2>1. Plan \in Seq(Stage)
    BY <1>1, <1>2, Running
  <2>2. Plan' = Plan
    BY <1>1 DEF Plan, Begun
  <2>3. \E i \in 0 .. Len(Plan') : todo' = SubSeq(Plan', i + 1, Len(Plan'))
    BY <1>1, <2>1, <2>2, EndOfPlan
  <2> QED BY <1>1, <1>2, <2>3, NoneAssumption DEF Orderly
<1>6. app' # None => Proper(app')
  BY <1>3 DEF IndInv
<1>7. GenerateKeeps'
  BY <1>1, <1>3 DEF IndInv, GenerateKeeps
<1>8. Shown'
  <2>1. cmd.kind = "show" => Head(todo) # "save"
    BY <1>1, <1>2, KindOfStage
  <2> QED BY <1>1, <1>3, <2>1 DEF IndInv, Shown
<1>9. ~ OnCourse("init")' /\ ~ OnCourse("generate")'
  BY <1>1 DEF OnCourse
<1>10. Asked' /\ Generating' /\ PlatformWritten' /\ ResourcesMade'
  BY <1>1, <1>9 DEF Asked, Generating, PlatformWritten, ResourcesMade
<1>11. FailsWithReason'
  BY <1>1 DEF FailsWithReason, Ended
<1> QED BY <1>1, <1>4, <1>5, <1>6, <1>7, <1>8, <1>10, <1>11 DEF IndInv

LEMMA TryAgainStep ==
    ASSUME IndInv, TryAgain
    PROVE  IndInv'
<1>1. /\ todo # <<>> /\ Head(todo) = "initKs" /\ Leftover
      /\ moves < MaxMoves /\ tries < MaxTries /\ tries' = tries + 1 /\ moves' = moves + 1
      /\ UNCHANGED <<cmd, todo, def, was, result>>
  BY DEF TryAgain, At, Trouble
<1>2. Head(todo) \in Making /\ TypeOK
  BY <1>1 DEF Making, IndInv
<1>3. ks' \in KsApp \union {None} /\ UNCHANGED <<cache, app, config, yamls>>
  BY <1>1, <1>2, LeftoverIs
<1>4. tries' \in 0 .. MaxTries /\ moves' \in 0 .. MaxMoves
  BY <1>1, <1>2, KfAppAssumption DEF TypeOK
<1>5. /\ Due("initKs") /\ Due("registry") /\ Due("packages") /\ Due("components")
      /\ Due("paramSet")
  <2>1. Due(Head(todo))
    BY <1>1, Running DEF IndInv
  <2> QED BY <1>1, <1>2, <2>1, K8sMakes
<1>6. ResourcesMade'
  <2>1. \A x : Due(x)' <=> Due(x)
    BY <1>1 DEF Due
  <2> QED BY <1>1, <1>5, <2>1 DEF ResourcesMade
<1> QED BY <1>1, <1>2, <1>3, <1>4, <1>6, MakeMore

-----------------------------------------------------------------------------
(* Commands begin *)

\* A command that begins has the whole of its plan to come.
LEMMA WholePlan ==
    ASSUME NEW s \in Seq(Stage)
    PROVE  /\ \E i \in 0 .. Len(s) : s = SubSeq(s, i + 1, Len(s))
           /\ After(0, s, s) /\ 0 \in 0 .. Len(s)
<1> DEFINE t == SubSeq(s, 1, Len(s))
<1>1. Len(s) \in Nat /\ 0 \in 0 .. Len(s)
  OBVIOUS
<1>2. t = s
  <2>1. t \in Seq(Stage) /\ Len(t) = Len(s) /\ \A j \in 1 .. Len(t) : t[j] = s[j]
    <3>1. After(0, t, s)
      BY DEF After
    <3> HIDE DEF t
    <3>2. /\ t \in Seq(Stage) /\ Len(t) = Len(s) - 0
          /\ \A j \in 1 .. Len(t) : t[j] = s[0 + j]
      BY <1>1, <3>1, RestIs
    <3> QED BY <1>1, <3>2
  <2> HIDE DEF t
  <2> QED BY <2>1, SeqEqual
<1>3. s = SubSeq(s, 0 + 1, Len(s))
  BY <1>2
<1> QED BY <1>1, <1>3 DEF After

LEMMA AllHas ==
    ASSUME NEW s \in Seq(Stage), NEW k \in 1 .. Len(s)
    PROVE  Has(s, s[k]) /\ s # <<>> /\ Head(s) = s[1]
<1>1. Len(s) \in Nat /\ Len(s) > 0
  OBVIOUS
<1>2. s # <<>>
  BY <1>1, EmptySeq
<1> QED BY <1>2, HeadTailProperties DEF Has

LEMMA AllOfGenerate ==
    ASSUME NEW c, c.kind = "generate", c.resources \in {"all", "k8s", "platform"},
           NEW p \in Platform, NEW s, s = Stages(c, p)
    PROVE  /\ s \in Seq(Stage)
           /\ c.resources # "platform" => s # <<>> /\ \A x \in K8sPart : Has(s, x)
           /\ c.resources # "k8s" =>
                 /\ p = "gcp" => s # <<>> /\ \A x \in PlatformPart : Has(s, x)
                 /\ p = "minikube" => s # <<>> /\ Has(s, "params")
           /\ c.resources = "all" /\ p # "none" => Head(s) # "load"
<1>1. PICK n \in Nat, m \in {0, 7} :
        /\ c.resources # "k8s" => n = Len(GeneratePlatform(p))
        /\ c.resources # "platform" => m = 7
        /\ Halves(s, p, n, m)
  BY GenerateStages
<1>2. /\ s \in Seq(Stage) /\ Len(s) = n + m
      /\ \A i \in 1 .. n : s[i] = GeneratePlatform(p)[i]
      /\ \A i \in 1 .. m : s[n + i] = GenerateK8s[i]
  BY <1>1 DEF Halves
<1>3. c.resources # "platform" => s # <<>> /\ \A x \in K8sPart : Has(s, x)
  <2> SUFFICES ASSUME c.resources # "platform" PROVE s # <<>> /\ \A x \in K8sPart : Has(s, x)
    OBVIOUS
  <2>1. ASSUME NEW i \in 1 .. 7 PROVE Has(s, GenerateK8s[i]) /\ s # <<>>
    <3>1. m = 7
      BY <1>1
    <3>2. Len(s) = n + 7 /\ s[n + i] = GenerateK8s[i]
      BY <1>2, <3>1
    <3>3. n + i \in 1 .. n + 7
      OBVIOUS
    <3> QED BY <1>2, <3>2, <3>3, AllHas
  <2>2. Has(s, "load") /\ Has(s, "initKs") /\ Has(s, "registry") /\ Has(s, "packages")
        /\ Has(s, "components") /\ Has(s, "paramSet")
    BY <2>1, K8sStages
  <2>3. s # <<>>
    BY <2>1
  <2> QED BY <2>2, <2>3 DEF K8sPart
<1>4. ASSUME c.resources # "k8s", NEW k \in 1 .. n
      PROVE  Has(s, GeneratePlatform(p)[k]) /\ s # <<>> /\ Head(s) = GeneratePlatform(p)[1]
  <2>1. k \in 1 .. Len(s) /\ 1 \in 1 .. n
    BY <1>2
  <2> QED BY <1>2, <1>4, <2>1, AllHas
<1>5. CASE p = "gcp" /\ c.resources # "k8s"
  <2>1. n = 6
    BY <1>1, <1>5, PlatformStages
  <2>2. Has(s, "copies") /\ Has(s, "iam") /\ Has(s, "cluster") /\ Has(s, "storage")
        /\ Has(s, "params") /\ s # <<>> /\ Head(s) = "copies"
    BY <1>4, <1>5, <2>1, PlatformStages
  <2> QED BY <1>2, <1>3, <1>5, <2>2 DEF PlatformPart
<1>6. CASE p = "minikube" /\ c.resources # "k8s"
  <2>1. n = 2
    BY <1>1, <1>6, PlatformStages
  <2>2. Has(s, "params") /\ s # <<>> /\ Head(s) = "params"
    BY <1>4, <1>6, <2>1, PlatformStages
  <2> QED BY <1>2, <1>3, <1>6, <2>2
<1>7. CASE p = "none" \/ c.resources = "k8s"
  BY <1>2, <1>3, <1>7
<1> QED BY <1>5, <1>6, <1>7 DEF Platform

LEMMA BeginInit ==
    ASSUME NEW c \in Command, c.kind = "init",
           cmd' = c, def' = Template(c), was' = app, app' = app,
           todo' = Stages(c, c.platform)
    PROVE  /\ def' \in KfDef /\ Proper(def') /\ todo' # <<>> /\ Asked'
<1>1. def' \in KfDef /\ Proper(def')
  BY TemplateIs
<1>2. c.platform \in Platform
  BY CommandCases
<1> DEFINE s == todo'
<1>3. s \in Seq(Stage) /\ Len(s) \in {3, 5} /\ s[1] = "download"
  BY <1>2, InitStages
<1> HIDE DEF s
<1>4. 1 \in 1 .. Len(s)
  BY <1>3
<1>5. Has(s, "download") /\ s # <<>> /\ Head(s) = "download"
  BY <1>3, <1>4, AllHas
<1>6. todo' # <<>> /\ Head(todo') = "download" /\ Due("download")'
  BY <1>5 DEF s, Has, Due
<1>7. Asked'
  BY <1>1, <1>6 DEF Asked, Held
<1> QED BY <1>1, <1>6, <1>7

LEMMA BeginGenerate ==
    ASSUME IndInv, NEW c \in Command, c.kind = "generate",
           cmd' = c, def' = Loaded(app, c.flags), was' = app, app' = app,
           todo' = Stages(c, def'.platform)
    PROVE  /\ def' \in KfDef \union Bare /\ (def' \in KfDef => Proper(def'))
           /\ Generating' /\ PlatformWritten' /\ ResourcesMade'
<1> DEFINE p == def'.platform
           s == todo'
           d == Loaded(app, c.flags)
<1>1. app \in KfDef \union {None} /\ (app # None => app \in KfDef /\ Proper(app))
  BY DEF IndInv, TypeOK
<1>2. c.resources \in {"all", "k8s", "platform"} /\ c.flags \in BOOLEAN
  BY CommandCases
<1>3. /\ app = None => d \in Bare
      /\ app # None =>
            /\ d \in KfDef
            /\ d.platform = app.platform
            /\ d.version = app.version
            /\ d.comps = app.comps /\ d.params = app.params
            /\ ~ c.flags /\ app.platform # "gcp" => d.host = app.host
            /\ ~ c.flags /\ app.host # None => d.host = app.host
            /\ app.platform = "gcp" =>
                  /\ d.ip = IF c.flags THEN "mine" ELSE "default"
                  /\ d.host = IF c.flags THEN "mine" ELSE Or(app.host, "default")
  BY <1>1, <1>2, LoadedIs
<1>4. /\ def' = d /\ def' \in KfDef \union Bare
      /\ app = None => def' \in Bare
      /\ app # None => def' \in KfDef
  BY <1>1, <1>3
<1> HIDE DEF d
<1>5. def' \in KfDef => app # None /\ Proper(def')
  BY <1>1, <1>3, <1>4, KfDefFields DEF Proper
<1>6. /\ p \in Platform /\ s = Stages(c, p)
      /\ app = None => p = "none"
      /\ app # None => p = app.platform
  BY <1>3, <1>4, KfDefFields DEF Platform
<1> HIDE DEF p, s
<1>7. /\ s \in Seq(Stage)
      /\ c.resources # "platform" => s # <<>> /\ \A x \in K8sPart : Has(s, x)
      /\ c.resources # "k8s" =>
            /\ p = "gcp" => s # <<>> /\ \A x \in PlatformPart : Has(s, x)
            /\ p = "minikube" => s # <<>> /\ Has(s, "params")
      /\ c.resources = "all" /\ p # "none" => Head(s) # "load"
  BY <1>2, <1>6, AllOfGenerate
<1>8. \A x : Due(x)' <=> Has(s, x)
  BY DEF Due, Has, s
<1>9. c.resources # "platform" =>
         /\ todo' # <<>>
         /\ Due("load")' /\ Due("initKs")' /\ Due("registry")' /\ Due("packages")'
         /\ Due("components")' /\ Due("paramSet")'
  BY <1>7, <1>8 DEF K8sPart, s
<1>10. ResourcesMade'
  BY <1>9 DEF ResourcesMade
<1>11. c.resources # "k8s" =>
          /\ p = "gcp" => /\ todo' # <<>> /\ Due("copies")' /\ Due("iam")' /\ Due("cluster")'
                          /\ Due("storage")' /\ Due("params")'
          /\ p = "minikube" => Due("params")'
  BY <1>7, <1>8 DEF PlatformPart, s
<1>12. PlatformWritten'
  <2> SUFFICES ASSUME OnCourse("generate")', app # None, c.resources # "k8s"
               PROVE  PlatformWritten'
    BY DEF PlatformWritten
  <2>1. CASE app.platform = "gcp"
    <3>1. Held' = d
      BY <1>4, <1>6, <1>11, <2>1 DEF Held
    <3>2. /\ Held'.ip = IF c.flags THEN "mine" ELSE "default"
          /\ Held'.host = IF c.flags THEN "mine" ELSE Or(app.host, "default")
      BY <1>3, <2>1, <3>1
    <3>3. "gcp" # "minikube"
      OBVIOUS
    <3> QED BY <1>6, <1>11, <2>1, <3>2, <3>3 DEF PlatformWritten
  <2>2. CASE app.platform = "minikube"
    BY <1>6, <1>11, <2>2 DEF PlatformWritten
  <2>3. CASE app.platform \notin {"gcp", "minikube"}
    BY <2>3 DEF PlatformWritten
  <2> QED BY <2>1, <2>2, <2>3
<1>13. Generating'
  <2> SUFFICES ASSUME todo' # <<>> PROVE Generating'
    BY DEF Generating
  <2>1. CASE app = None
    <3>1. c.resources # "platform"
      <4>1. p = "none"
        BY <1>6, <2>1
      <4>2. c.resources = "platform" => Stages(c, p) = <<>>
        BY <4>1 DEF Stages, GeneratePlatform
      <4> QED BY <1>6, <4>2 DEF s
    <3> QED BY <1>4, <1>9, <2>1, <3>1 DEF Generating
  <2>2. CASE app # None
    <3>1. Kept(def)'
      <4>1. /\ def'.platform = was'.platform /\ def'.version = was'.version
            /\ def'.comps = was'.comps
        BY <1>3, <1>4, <2>2
      <4>2. def'.host # was'.host => was'.host = None \/ c.flags
        BY <1>2, <1>3, <1>4, <2>2
      <4>3. c.resources # "k8s" \/ Due("load")'
        BY <1>9
      <4> QED BY <4>1, <4>2, <4>3 DEF Kept
    <3>2. c.resources = "all" /\ Head(todo') = "load" => Begun' = "none"
      <4>1. Begun' = p
        BY <1>6, <2>2 DEF Begun
      <4> QED BY <1>7, <4>1 DEF s
    <3>3. c.resources # "platform" => Due("load")'
      BY <1>9
    <3>4. def' = Loaded(was', cmd'.flags) /\ app' = was' /\ was' # None /\ def' \in KfDef
      BY <1>4, <2>2
    <3> QED BY <3>1, <3>2, <3>3, <3>4 DEF Generating
  <2> QED BY <2>1, <2>2
<1> QED BY <1>4, <1>5, <1>10, <1>12, <1>13

LEMMA BeginStep ==
    ASSUME IndInv, NEW c \in Command, Begin(c)
    PROVE  IndInv'
<1> DEFINE d == IF c.kind = "init" THEN Template(c)
                ELSE Loaded(app, c.kind = "generate" /\ c.flags)
<1>1. /\ moves < MaxMoves /\ moves' = moves + 1
      /\ cmd' = c /\ def' = d /\ was' = app /\ tries' = 0
      /\ todo' = Stages(c, d.platform)
      /\ result' = IF todo' = <<>> THEN "ok" ELSE None
      /\ UNCHANGED disk
  BY DEF Begin
<1>2. TypeOK /\ app \in KfDef \union {None} /\ (app # None => Proper(app))
  BY DEF IndInv, TypeOK
<1>3. /\ cache' = cache /\ app' = app /\ config' = config /\ ks' = ks /\ yamls' = yamls
  BY <1>1 DEF disk
<1>4. c # None /\ c.kind \in {"init", "generate", "show"}
  BY CommandCases
<1>5. /\ c.kind = "init" => d = Template(c)
      /\ c.kind = "generate" => d = Loaded(app, c.flags)
      /\ c.kind = "show" => d = Loaded(app, FALSE)
  <2>1. c.kind = "generate" => c.flags \in BOOLEAN
    BY CommandCases
  <2> QED BY <2>1
<1>6. /\ d \in KfDef \union Bare
      /\ Begun' = d.platform /\ d.platform \in Platform
  <2>1. CASE c.kind = "init"
    <3>1. d \in KfDef /\ d.platform = c.platform
      BY <1>5, <2>1, TemplateIs
    <3>2. d.platform \in Platform
      BY <3>1, KfDefFields
    <3> QED BY <1>1, <2>1, <3>1, <3>2 DEF Begun
  <2>2. CASE c.kind # "init"
    <3>1. PICK flags \in BOOLEAN : d = Loaded(app, flags)
      <4>1. c.kind = "generate" => c.flags \in BOOLEAN
        BY CommandCases
      <4> QED BY <1>4, <1>5, <2>2, <4>1
    <3>2. /\ app = None => d \in Bare
          /\ app # None => d \in KfDef /\ d.platform = app.platform
      BY <1>2, <3>1, LoadedIs
    <3>3. d.platform = IF app = None THEN "none" ELSE app.platform
      BY <3>2, KfDefFields
    <3>4. d.platform \in Platform
      BY <3>2, KfDefFields DEF Platform
    <3>5. d \in KfDef \union Bare
      BY <3>2
    <3> QED BY <1>1, <2>2, <3>3, <3>4, <3>5 DEF Begun
  <2> QED BY <2>1, <2>2
<1>7. todo' = Plan'
  BY <1>1, <1>6 DEF Plan
<1>8. Plan' \in Seq(Stage)
  <2> DEFINE p == d.platform
             s == Stages(c, p)
  <2>1. Plan' = s /\ p \in Platform
    BY <1>1, <1>6, <1>7
  <2> HIDE DEF p
  <2>2. c.kind = "init" => s \in Seq(Stage)
    BY <2>1, InitStages
  <2>3. c.kind = "show" => s \in Seq(Stage)
    BY <2>1, ShowStages
  <2>4. c.kind = "generate" => s \in Seq(Stage)
    BY <2>1, CommandCases, AllOfGenerate
  <2> QED BY <1>4, <2>1, <2>2, <2>3, <2>4
<1>9. Orderly'
  <2>1. \E i \in 0 .. Len(Plan') : todo' = SubSeq(Plan', i + 1, Len(Plan'))
    BY <1>7, <1>8, WholePlan
  <2>2. todo' = <<>> => result' # None
    BY <1>1, NoneAssumption
  <2>3. cmd' # None
    BY <1>1, <1>4
  <2> QED BY <2>1, <2>2, <2>3 DEF Orderly
<1>10. TypeOK'
  <2>1. 0 \in 0 .. MaxTries /\ moves' \in 0 .. MaxMoves
    BY <1>1, <1>2, KfAppAssumption DEF TypeOK
  <2>2. result' \in {None, "ok"} /\ (todo' # <<>> => cmd' # None /\ result' = None)
    BY <1>1, <1>4
  <2>3. def' \in KfDef \union Bare /\ was' \in KfDef \union {None}
    BY <1>1, <1>2, <1>6
  <2> QED BY <1>1, <1>2, <1>3, <2>1, <2>2, <2>3 DEF TypeOK
<1>11. FailsWithReason'
  <2>1. result' # "failed"
    BY <1>1, NoneAssumption
  <2> QED BY <2>1 DEF FailsWithReason, Ended
<1>12. GenerateKeeps'
  BY <1>1, <1>3 DEF GenerateKeeps
<1>13. Shown'
  BY <1>1, <1>3 DEF Shown
<1>14. app' # None => Proper(app')
  BY <1>2, <1>3
<1>15. CASE c.kind = "init"
  <2>1. def' = Template(c) /\ Template(c).platform = c.platform
    BY <1>1, <1>5, <1>15, TemplateIs
  <2>2. todo' = Stages(c, c.platform)
    BY <1>1, <2>1
  <2>3. Proper(def') /\ Asked'
    BY <1>1, <1>3, <1>15, <2>1, <2>2, BeginInit
  <2>4. Generating' /\ PlatformWritten' /\ ResourcesMade'
    BY <1>1, <1>15 DEF Generating, PlatformWritten, ResourcesMade, OnCourse
  <2> QED BY <1>1, <1>9, <1>10, <1>11, <1>12, <1>13, <1>14, <2>3, <2>4 DEF IndInv, Proper
<1>16. CASE c.kind = "generate"
  <2>1. def' = Loaded(app, c.flags) /\ todo' = Stages(c, def'.platform)
    BY <1>1, <1>5, <1>16
  <2>2. /\ def' \in KfDef => Proper(def')
        /\ Generating' /\ PlatformWritten' /\ ResourcesMade'
    BY <1>1, <1>3, <1>16, <2>1, BeginGenerate
  <2>3. Asked'
    BY <1>1, <1>16 DEF Asked, OnCourse
  <2> QED BY <1>9, <1>10, <1>11, <1>12, <1>13, <1>14, <2>2, <2>3 DEF IndInv, Proper
<1>17. CASE c.kind = "show"
  <2>1. Asked' /\ Generating' /\ PlatformWritten' /\ ResourcesMade'
    BY <1>1, <1>17 DEF Asked, Generating, PlatformWritten, ResourcesMade, OnCourse
  <2> QED BY <1>1, <1>9, <1>10, <1>11, <1>12, <1>13, <1>14, <1>17, <2>1 DEF IndInv, Proper
<1> QED BY <1>4, <1>15, <1>16, <1>17

-----------------------------------------------------------------------------
(* The theorems *)

LEMMA InitState ==
    ASSUME Init
    PROVE  IndInv
<1>1. TypeOK
  <2>1. 0 \in 0 .. MaxTries /\ 0 \in 0 .. MaxMoves
    BY KfAppAssumption
  <2>2. config \in Config
    BY DEF Init, Config
  <2> QED BY <2>1, <2>2, BlankIsBare DEF Init, TypeOK
<1>2. Orderly /\ app = None /\ cmd = None /\ todo = <<>>
  BY DEF Init, Orderly
<1>3. FailsWithReason /\ GenerateKeeps /\ Asked /\ Shown /\ Generating
        /\ PlatformWritten /\ ResourcesMade
  BY <1>2 DEF FailsWithReason, Ended, GenerateKeeps, Asked, Shown, Generating,
              PlatformWritten, ResourcesMade, OnCourse
<1> QED BY <1>1, <1>2, <1>3 DEF IndInv

LEMMA Stutter ==
    ASSUME IndInv, UNCHANGED vars
    PROVE  IndInv'
<1>1. /\ UNCHANGED <<cache, app, config, ks, yamls, cmd, todo, def, was, result>>
      /\ tries' = tries /\ moves' = moves
  BY DEF vars, disk, bounds
<1>2. TypeOK' /\ Orderly'
  BY <1>1 DEF IndInv, TypeOK, Orderly, Plan, Begun
<1>3. FailsWithReason' /\ GenerateKeeps' /\ Shown'
  BY <1>1 DEF IndInv, FailsWithReason, Ended, Unloadable, StrayParams, GenerateKeeps, Shown
<1>4. Asked'
  BY <1>1 DEF IndInv, Asked, OnCourse, Held, Due
<1>5. Generating'
  BY <1>1 DEF IndInv, Generating, Kept, Due, Begun
<1>6. PlatformWritten' /\ ResourcesMade'
  BY <1>1 DEF IndInv, PlatformWritten, ResourcesMade, OnCourse, Held, Due
<1> QED BY <1>1, <1>2, <1>3, <1>4, <1>5, <1>6 DEF IndInv, Proper

LEMMA NextStep ==
    ASSUME IndInv, Next
    PROVE  IndInv'
<1>1. CASE \E c \in Command : Begin(c)
  BY <1>1, BeginStep
<1>2. CASE Download \/ InitProject \/ Save \/ GetPackageManagers
  BY <1>2, DownloadStep, ProjectStep, SaveStep, LoadStep
<1>3. CASE \E s \in {"copies", "iam", "cluster", "storage", "registry", "packages"} : Missing(s)
  BY <1>3, MissingStep
<1>4. CASE CopyFiles \/ WriteIamBindings \/ WriteClusterConfig \/ WriteStorageConfig
  BY <1>4, WriteStep
<1>5. CASE SetParams
  BY <1>5, SetParamsStep
<1>6. CASE InitKs \/ RegistryAdd \/ PkgInstall \/ ComponentAdd \/ ParamSet
  BY <1>6, InitKsStep, RegistryStep, PackagesStep, ComponentsStep, ParamSetStep
<1>7. CASE ShowPlatform \/ Render \/ MakeYamls \/ WriteYaml
  BY <1>7, ShowStep
<1>8. CASE Interrupt \/ TryAgain
  BY <1>8, InterruptStep, TryAgainStep
<1> QED BY <1>1, <1>2, <1>3, <1>4, <1>5, <1>6, <1>7, <1>8 DEF Next

(***************************************************************************)
(* What the types are, at which stage of its plan a command is, and what   *)
(* each stage that is over has left in the files and in the command's copy *)
(* of app.yaml: the commands of kfctl, in any order and each killed at any *)
(* of its stages, keep all of it.                                          *)
(***************************************************************************)
THEOREM Invariant == Spec => []IndInv
<1>1. Init => IndInv
  BY InitState
<1>2. IndInv /\ [Next]_vars => IndInv'
  BY NextStep, Stutter
<1> QED BY <1>1, <1>2, PTL DEF Spec

\* A command that returned nil has nothing due.
LEMMA NothingDue ==
    ASSUME NEW kind, Orderly, Ended(kind, "ok"), todo # <<>> => result = None
    PROVE  todo = <<>> /\ OnCourse(kind) /\ Held = app /\ \A x : ~ Due(x)
<1>1. todo = <<>>
  BY NoneAssumption DEF Ended
<1>2. \A x : ~ Due(x)
  <2>1. Len(<<>>) = 0
    OBVIOUS
  <2> QED BY <1>1, <2>1 DEF Due
<1> QED BY <1>1, <1>2 DEF Ended, OnCourse, Held

\* What a generate of everything that returned nil has written.
LEMMA ConfiguredNow ==
    ASSUME IndInv
    PROVE  OkMeansConfigured
<1> SUFFICES ASSUME Ended("generate", "ok"), cmd.resources = "all"
             PROVE  OkMeansConfigured
  BY DEF OkMeansConfigured
<1>1. TypeOK /\ Orderly /\ (todo # <<>> => result = None) /\ cmd # None
  BY DEF IndInv, TypeOK, Ended
<1>2. todo = <<>> /\ OnCourse("generate") /\ Held = app /\ \A x : ~ Due(x)
  BY <1>1, NothingDue
<1>3. /\ ks # None /\ ks.loads /\ ks.registry = app.version /\ cache = app.version
      /\ ks.packages = app.version /\ DOMAIN ks.params = app.comps
      /\ \A c \in DOMAIN app.params : c \in DOMAIN ks.params /\ ks.params[c] = app.params[c]
  BY <1>2 DEF IndInv, ResourcesMade
<1>4. app # None /\ was # None /\ app \in KfDef
  BY <1>1, <1>2 DEF IndInv, ResourcesMade, TypeOK
<1>5. {ks.registry, ks.packages} = {app.version}
  BY <1>3
<1>6. ASSUME was.platform = "gcp"
      PROVE  /\ app.ip = IF cmd.flags THEN "mine" ELSE "default"
             /\ app.host = IF cmd.flags THEN "mine" ELSE Or(was.host, "default")
             /\ app.params["ingress"] = <<app.ip, app.host>>
             /\ config.copies.head = was.version
             /\ config.copies.tail # None =>
                   Length[config.copies.tail] > Length[was.version]
             /\ config.iam = was.version
             /\ config.cluster = [version |-> was.version, ip |-> app.ip]
             /\ config.storage = was.version
  BY <1>2, <1>4, <1>6 DEF IndInv, PlatformWritten
<1>7. was.platform = "minikube" =>
         "katib" \notin app.comps /\ app.params["ambassador"] = <<"generated">>
  BY <1>2, <1>4 DEF IndInv, PlatformWritten
<1>8. app.platform = was.platform /\ app.version = was.version
  BY <1>1, <1>4 DEF IndInv, GenerateKeeps, Ended
<1>9. app.platform = "gcp" =>
         /\ app.ip = IF cmd.flags THEN "mine" ELSE "default"
         /\ app.host = IF cmd.flags THEN "mine" ELSE Or(was.host, "default")
         /\ app.params["ingress"] = <<app.ip, app.host>>
         /\ {config.copies.head, config.iam, config.cluster.version, config.storage} =
               {app.version}
         /\ config.cluster.ip = app.ip
         /\ config.copies.tail # None =>
               Length[config.copies.tail] > Length[app.version]
  <2> SUFFICES ASSUME app.platform = "gcp"
               PROVE  /\ app.ip = IF cmd.flags THEN "mine" ELSE "default"
                      /\ app.host = IF cmd.flags THEN "mine" ELSE Or(was.host, "default")
                      /\ app.params["ingress"] = <<app.ip, app.host>>
                      /\ {config.copies.head, config.iam, config.cluster.version,
                          config.storage} = {app.version}
                      /\ config.cluster.ip = app.ip
                      /\ config.copies.tail # None =>
                            Length[config.copies.tail] > Length[app.version]
    OBVIOUS
  <2>1. config.cluster.version = app.version /\ config.cluster.ip = app.ip
    BY <1>6, <1>8
  <2> QED BY <1>6, <1>8, <2>1
<1> QED BY <1>3, <1>4, <1>5, <1>7, <1>8, <1>9 DEF OkMeansConfigured

\* And what an init that returned nil has.
LEMMA AskedNow ==
    ASSUME IndInv
    PROVE  InitMeansAsked
<1> SUFFICES ASSUME Ended("init", "ok") PROVE InitMeansAsked
  BY DEF InitMeansAsked
<1>1. Orderly /\ (todo # <<>> => result = None)
  BY DEF IndInv, TypeOK
<1>2. OnCourse("init") /\ Held = app /\ ~ Due("download")
  BY <1>1, NothingDue
<1> QED BY <1>2 DEF IndInv, Asked, InitMeansAsked

(***************************************************************************)
(* The types, whatever commands were run and killed.                       *)
(***************************************************************************)
THEOREM TypeCorrect == Spec => []TypeOK
<1>1. IndInv => TypeOK
  BY DEF IndInv
<1> QED BY <1>1, Invariant, PTL

(***************************************************************************)
(* A generate of everything that returned nil leaves app.yaml, the         *)
(* ksonnet application and the deployment manager's files that agree,      *)
(* though it reads and writes app.yaml several times on its way, and       *)
(* whatever killed and failed commands left of all three.                  *)
(***************************************************************************)
THEOREM ConfiguredCorrect == Spec => []OkMeansConfigured
<1>1. IndInv => OkMeansConfigured
  BY ConfiguredNow
<1> QED BY <1>1, Invariant, PTL

(***************************************************************************)
(* An init that returned nil leaves the version it was asked for in the    *)
(* cache, and in app.yaml what it was asked for: on gcp always, on the     *)
(* other platforms where there was no app.yaml.                            *)
(***************************************************************************)
THEOREM AskedCorrect == Spec => []InitMeansAsked
<1>1. IndInv => InitMeansAsked
  BY AskedNow
<1> QED BY <1>1, Invariant, PTL

(***************************************************************************)
(* A command that nothing interrupted fails for a reason that was in the   *)
(* directory when it ended: its own stages are none.                       *)
(***************************************************************************)
THEOREM FailsCorrect == Spec => []FailsWithReason
<1>1. IndInv => FailsWithReason
  BY DEF IndInv
<1> QED BY <1>1, Invariant, PTL

(***************************************************************************)
(* Midway through generate and show, too, and after they are killed, an    *)
(* app.yaml that there is has the platform, the version and the components *)
(* that init gave it, and keeps its host name.                             *)
(***************************************************************************)
THEOREM KeepsCorrect == Spec => []GenerateKeeps
<1>1. IndInv => GenerateKeeps
  BY DEF IndInv
<1> QED BY <1>1, Invariant, PTL
=============================================================================
