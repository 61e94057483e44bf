--------------------------- MODULE DeployProofs ---------------------------
(***************************************************************************)
(* Theorems about Deploy, for any requests with any jobs, and any numbers  *)
(* of polls, deletions and restarts.                                       *)
(***************************************************************************)
EXTENDS Deploy, TLAPS

USE DEF history, bounds, world, given

\* Where each stage leads.
LEMMA Thens ==
    ASSUME NEW r \in Request
    PROVE  /\ Then(r, "insertStorage") = "insertCluster"
           /\ Then(r, "insertCluster") = "pollCluster"
           /\ Then(r, "pollCluster") \in {"pollStorage", "iam"}
           /\ Then(r, "pollStorage") = "iam"
           /\ Then(r, "iam") = "connect"
           /\ Then(r, "connect") = "ns"
           /\ Then(r, "ns") = "oauth"
           /\ Then(r, "oauth") = IF job[r].login THEN "login" ELSE "adminKey"
           /\ Then(r, "login") = "adminKey"
           /\ Then(r, "adminKey") = "adminSecret"
           /\ Then(r, "adminSecret") = "userKey"
           /\ Then(r, "userKey") = "userSecret"
           /\ Then(r, "userSecret") = "bind"
           /\ Then(r, "bind") = "istio"
           /\ Then(r, "istio") = "find"
           /\ Then(r, "find") = "app"
  BY DEF Then, Follow

LEMMA ThenType ==
    ASSUME NEW r \in Request, NEW s \in Stage, s # "app"
    PROVE  Then(r, s) \in Stage
  BY Thens DEF Stage

\* A next stage, or an end, keeps the request's fields typed.
LEMMA ProceedType ==
    ASSUME TypeOK, NEW r \in Request, pc[r] \in Stage, pc[r] # "app", Proceed(r)
    PROVE  /\ pc' \in [Request -> Stage \union {"idle", "done", "lost"}]
           /\ polls' \in [Request -> 0 .. (MaxPolls - 1)]
           /\ count' \in [Request -> [Code -> Nat]]
  <1>1. Then(r, pc[r]) \in Stage
    BY ThenType
  <1>2. 0 \in 0 .. (MaxPolls - 1)
    BY DeployAssumption
  <1>3. QED
    BY <1>1, <1>2 DEF Proceed, Goto, TypeOK

LEMMA EndType ==
    ASSUME TypeOK, NEW r \in Request, NEW c \in Code, End(r, c)
    PROVE  /\ pc' \in [Request -> Stage \union {"idle", "done", "lost"}]
           /\ polls' \in [Request -> 0 .. (MaxPolls - 1)]
           /\ count' \in [Request -> [Code -> Nat]]
  <1>1. 0 \in 0 .. (MaxPolls - 1)
    BY DeployAssumption
  <1>2. QED
    BY <1>1 DEF End, Goto, TypeOK

LEMMA InitType == Init => TypeOK
  <1> SUFFICES ASSUME Init PROVE TypeOK
    OBVIOUS
  <1>1. 0 \in 0 .. (MaxPolls - 1)
    BY DeployAssumption
  <1>2. 0 \in 0 .. MaxDeletes /\ 0 \in 0 .. MaxRestarts
    BY DeployAssumption
  <1>3. QED
    BY <1>1, <1>2 DEF Init, TypeOK

\* A poll keeps the types.
LEMMA PollType ==
    ASSUME TypeOK, NEW r \in Request, Poll(r)
    PROVE  TypeOK'
  <1>1. pc[r] \in Stage /\ pc[r] # "app"
    BY DEF Poll, Stage
  <1>2. CASE PollAgain(r)
    <2>1. polls[r] + 1 \in 0 .. (MaxPolls - 1)
      <3>1. polls[r] \in 0 .. (MaxPolls - 1)
        BY DEF TypeOK
      <3>2. polls[r] + 1 # MaxPolls
        BY <1>2 DEF PollAgain, LastPoll
      <3>3. QED
        BY <3>1, <3>2, DeployAssumption
    <2>2. QED
      BY <1>2, <2>1 DEF TypeOK, PollAgain, Poll
  <1>3. ASSUME NEW c \in Code, End(r, c), UNCHANGED history PROVE TypeOK'
    BY <1>3, EndType DEF TypeOK, Poll
  <1>4. CASE PollFails(r)
    BY <1>2, <1>3, <1>4 DEF PollFails, Code
  <1>5. CASE PollAnswered(r)
    <2> DEFINE k == KindAt(pc[r])
    <2>1. k \in Kind
      BY DEF KindAt, Kind
    <2>2. CASE /\ LastPoll(r)
               /\ Goto(r, Then(r, pc[r]))
               /\ count' = [count EXCEPT ![r]["INTERNAL"] = @ + 1]
               /\ overrun' = [overrun EXCEPT ![r] = @ + 1]
               /\ UNCHANGED sawDone
      <3>1. Then(r, pc[r]) \in Stage
        BY <1>1, ThenType
      <3>2. 0 \in 0 .. (MaxPolls - 1)
        BY DeployAssumption
      <3>3. count' \in [Request -> [Code -> Nat]] /\ overrun' \in [Request -> Nat]
        BY <2>2 DEF TypeOK, Code
      <3>4. QED
        BY <2>2, <3>1, <3>2, <3>3 DEF TypeOK, Goto, Poll
    <2>3. CASE /\ Proceed(r)
               /\ sawDone' = [sawDone EXCEPT ![r] = @ \union {k}]
               /\ UNCHANGED overrun
      <3>1. sawDone' \in [Request -> SUBSET Kind]
        BY <2>1, <2>3 DEF TypeOK
      <3>2. QED
        BY <1>1, <2>3, <3>1, ProceedType DEF TypeOK, Poll
    <2>4. QED
      BY <1>2, <1>3, <1>5, <2>2, <2>3 DEF PollAnswered, Code
  <1>6. QED
    BY <1>4, <1>5 DEF Poll

LEMMA TypeStep == TypeOK /\ [Next]_vars => TypeOK'
  <1> SUFFICES ASSUME TypeOK, [Next]_vars PROVE TypeOK'
    OBVIOUS
  <1>1. ASSUME NEW r \in Request, Start(r) PROVE TypeOK'
    <2>1. CASE End(r, "INVALID_ARGUMENT")
      BY <1>1, <2>1, EndType DEF Start, TypeOK, Code
    <2>2. CASE /\ Goto(r, IF job[r].storage THEN "insertStorage" ELSE "insertCluster")
               /\ UNCHANGED count
      <3>1. 0 \in 0 .. (MaxPolls - 1)
        BY DeployAssumption
      <3>2. QED
        BY <1>1, <2>2, <3>1 DEF Start, Goto, TypeOK, Stage
    <2>3. QED
      BY <1>1, <2>1, <2>2 DEF Start
  <1>2. ASSUME NEW r \in Request, Insert(r) PROVE TypeOK'
    <2>1. pc[r] \in Stage /\ pc[r] # "app" /\ KindAt(pc[r]) \in Kind
      BY <1>2 DEF Insert, Stage, KindAt, Kind
    <2>2. QED
      BY <1>2, <2>1, ProceedType DEF Insert, TypeOK
  <1>3. ASSUME NEW r \in Request, InsertFails(r) PROVE TypeOK'
    <2>1. \E c \in Code : End(r, c)
      BY <1>3 DEF InsertFails, Code
    <2>2. dm' \in [Kind -> {"absent", "running", "done", "failed"}]
      BY <1>3 DEF InsertFails, TypeOK
    <2>3. QED
      BY <1>3, <2>1, <2>2, EndType DEF InsertFails, TypeOK
  <1>4. ASSUME NEW r \in Request, Poll(r) PROVE TypeOK'
    BY <1>4, PollType
  <1>5. ASSUME NEW r \in Request, GetProjectLock(r) PROVE TypeOK'
    BY <1>5 DEF GetProjectLock, TypeOK
  <1>6. ASSUME NEW r \in Request,
               \/ pc[r] # "app" /\ Proceed(r)
               \/ End(r, "INTERNAL")
               \/ End(r, "OK"),
               pc[r] \in Stage,
               lock' \in Request \union {NoRequest},
               owner' \in [Object -> Request \union {NoRequest}],
               keys' \in [Account -> SUBSET Request],
               on' \in [Request -> Nat],
               UNCHANGED <<dm, cluster, given, history, bounds>>
        PROVE  TypeOK'
    BY <1>6, ProceedType, EndType DEF TypeOK, Code
  <1>7. ASSUME NEW r \in Request, PatchIam(r) PROVE TypeOK'
    BY <1>6, <1>7 DEF PatchIam, Unlock, TypeOK, Stage
  <1>8. ASSUME NEW r \in Request, Connect(r) PROVE TypeOK'
    <2>1. on' \in [Request -> Nat]
      BY <1>8 DEF Connect, TypeOK
    <2>2. QED
      BY <1>6, <1>8, <2>1 DEF Connect, TypeOK, Stage
  <1>9. ASSUME NEW r \in Request, Create(r) PROVE TypeOK'
    <2>1. owner' \in [Object -> Request \union {NoRequest}]
      BY <1>9 DEF Create, Made, TypeOK
    <2>2. QED
      BY <1>6, <1>9, <2>1 DEF Create, TypeOK, Stage
  <1>10. ASSUME NEW r \in Request, CreateFails(r) PROVE TypeOK'
    <2>1. owner' \in [Object -> Request \union {NoRequest}]
      BY <1>10 DEF CreateFails, Made, TypeOK
    <2>2. QED
      BY <1>6, <1>10, <2>1 DEF CreateFails, TypeOK, Stage
  <1>11. ASSUME NEW r \in Request, CreateKey(r) PROVE TypeOK'
    <2>1. keys' \in [Account -> SUBSET Request]
      BY <1>11 DEF CreateKey, TypeOK
    <2>2. QED
      BY <1>6, <1>11, <2>1 DEF CreateKey, Unlock, TypeOK, Stage
  <1>12. ASSUME NEW r \in Request, CreateKeyFails(r) PROVE TypeOK'
    BY <1>6, <1>12 DEF CreateKeyFails, Unlock, TypeOK, Stage
  <1>13. ASSUME NEW r \in Request, StoreKey(r) PROVE TypeOK'
    <2>1. owner' \in [Object -> Request \union {NoRequest}]
      BY <1>13 DEF StoreKey, Made, TypeOK
    <2>2. QED
      BY <1>6, <1>13, <2>1 DEF StoreKey, Unlock, TypeOK, Stage
  <1>14. ASSUME NEW r \in Request, InstallIstio(r) PROVE TypeOK'
    <2>1. owner' \in [Object -> Request \union {NoRequest}]
      BY <1>14 DEF InstallIstio, TypeOK
    <2>2. QED
      BY <1>6, <1>14, <2>1 DEF InstallIstio, TypeOK, Stage
  <1>15. ASSUME NEW r \in Request, CreateApp(r) PROVE TypeOK'
    <2>1. owner' \in [Object -> Request \union {NoRequest}]
      BY <1>15 DEF CreateApp, Made, TypeOK
    <2>2. QED
      BY <1>6, <1>15, <2>1 DEF CreateApp, Unlock, TypeOK, Stage
  <1>16. ASSUME NEW k \in Kind, DeploymentEnds(k) PROVE TypeOK'
    BY <1>16 DEF DeploymentEnds, TypeOK
  <1>17. ASSUME NEW k \in Kind, Delete(k) PROVE TypeOK'
    <2>1. deletes' \in 0 .. MaxDeletes
      BY <1>17, DeployAssumption DEF Delete, TypeOK
    <2>2. QED
      BY <1>17, <2>1 DEF Delete, TypeOK
  <1>18. CASE Restart
    <2>1. restarts' \in 0 .. MaxRestarts
      BY <1>18, DeployAssumption DEF Restart, TypeOK
    <2>2. 0 \in 0 .. (MaxPolls - 1)
      BY DeployAssumption
    <2>3. QED
      BY <1>18, <2>1, <2>2 DEF Restart, TypeOK
  <1>19. CASE UNCHANGED vars
    BY <1>19 DEF vars, TypeOK
  <1>20. ASSUME NEW r \in Request, FindCluster(r) PROVE TypeOK'
    BY <1>6, <1>20 DEF FindCluster, TypeOK, Stage
  <1>21. QED
    BY <1>1, <1>2, <1>3, <1>4, <1>5, <1>7, <1>8, <1>9, <1>10, <1>11, <1>12,
       <1>13, <1>14, <1>15, <1>16, <1>17, <1>18, <1>19, <1>20 DEF Next, Step

(***************************************************************************)
(* What a step of request r leaves as it is: the clusters, the jobs, all   *)
(* of the other requests, and whatever has an owner already.               *)
(***************************************************************************)
Frame(r) ==
    /\ cluster' = cluster
    /\ job' = job
    /\ installIstio' = installIstio
    /\ \A o \in Object \ {"app"} : owner[o] # NoRequest => owner'[o] = owner[o]
    /\ owner["app"] # NoRequest => owner'["app"] # NoRequest
    /\ \A q \in Request \ {r} : /\ pc'[q] = pc[q]
                                /\ on'[q] = on[q]
                                /\ count'[q] = count[q]
                                /\ overrun'[q] = overrun[q]
    /\ \A a \in Account : /\ keys[a] \subseteq keys'[a]
                          /\ keys'[a] \subseteq keys[a] \union {r}

\* What it does to r: the ways a request goes on.
Stays(r) == pc'[r] = pc[r] /\ UNCHANGED <<owner, keys, on>>
Waits(r) == /\ pc[r] \in Unconnected
            /\ pc'[r] \in Unconnected
            /\ UNCHANGED <<owner, keys, on>>
Finishes(r) == /\ pc'[r] = "done"
               /\ on' = on
               /\ \/ keys' = keys
                  \/ pc[r] \in {"adminKey", "userKey"}
Connects(r) == /\ pc[r] = "connect"
               /\ pc'[r] = "ns"
               /\ on'[r] = cluster
               /\ keys' = keys
Builds(r) == /\ pc[r] \in {"ns", "oauth", "login", "bind", "adminSecret", "userSecret"}
             /\ pc'[r] = Then(r, pc[r])
             /\ on[r] = cluster
             /\ owner'[pc[r]] = r
             /\ UNCHANGED <<keys, on>>
MakesKey(r) == /\ pc[r] \in {"adminKey", "userKey"}
               /\ pc'[r] = IF pc[r] = "adminKey" THEN "adminSecret" ELSE "userSecret"
               /\ r \in keys'[AccountAt(pc[r])]
               /\ UNCHANGED <<owner, on>>
Installs(r) == /\ \/ /\ pc[r] = "istio"
                     /\ pc'[r] = "find"
                     /\ installIstio => owner'["istio"] # NoRequest
                  \/ /\ pc[r] = "find"
                     /\ pc'[r] = "app"
                     /\ UNCHANGED owner
               /\ UNCHANGED <<keys, on>>

Effect(r) == \/ Stays(r) \/ Waits(r) \/ Finishes(r) \/ Connects(r)
             \/ Builds(r) \/ MakesKey(r) \/ Installs(r)

\* A secret is only ever made by the request that is at it, on its cluster.
SecretsOf(r) ==
    \A o \in {"adminSecret", "userSecret"} :
        owner'[o] # owner[o] => owner'[o] = r /\ pc[r] = o /\ on[r] = cluster

LEMMA StepFrame ==
    ASSUME TypeOK, NEW r \in Request, Step(r)
    PROVE  Frame(r)
  <1> USE DEF Frame, Goto
  <1>1. CASE Start(r) \/ Insert(r) \/ InsertFails(r)
    BY <1>1 DEF Start, Insert, InsertFails, Proceed, End, TypeOK
  <1>2. CASE Poll(r)
    BY <1>2 DEF Poll, PollAnswered, PollFails, PollAgain, Proceed, End, TypeOK
  <1>3. CASE GetProjectLock(r) \/ PatchIam(r) \/ Connect(r)
    BY <1>3 DEF GetProjectLock, PatchIam, Connect, Proceed, End, TypeOK
  <1>4. CASE Create(r) \/ CreateFails(r)
    BY <1>4 DEF Create, CreateFails, Creatable, Made, Proceed, End, TypeOK, Object
  <1>5. CASE CreateKey(r)
    BY <1>5 DEF CreateKey, Proceed, End, TypeOK
  <1>6. CASE CreateKeyFails(r)
    BY <1>6 DEF CreateKeyFails, End, TypeOK
  <1>7. CASE StoreKey(r)
    BY <1>7 DEF StoreKey, Creatable, Made, Proceed, End, TypeOK, Object
  <1>8. CASE InstallIstio(r)
    BY <1>8 DEF InstallIstio, Proceed, End, TypeOK, Object
  <1>9. CASE CreateApp(r)
    BY <1>9, DeployAssumption DEF CreateApp, Made, End, TypeOK, Object
  <1>10. CASE FindCluster(r)
    BY <1>10 DEF FindCluster, Proceed, End, TypeOK
  <1>11. QED
    BY <1>1, <1>2, <1>3, <1>4, <1>5, <1>6, <1>7, <1>8, <1>9, <1>10 DEF Step

LEMMA StepEffect ==
    ASSUME TypeOK, NEW r \in Request, Step(r)
    PROVE  Effect(r)
  <1> USE DEF Effect
  <1>1. CASE Start(r)
    BY <1>1 DEF Start, Goto, End, TypeOK, Waits, Finishes, Unconnected
  <1>2. CASE Insert(r)
    BY <1>2, Thens DEF Insert, Proceed, Goto, TypeOK, Waits, Unconnected
  <1>3. CASE InsertFails(r)
    BY <1>3 DEF InsertFails, Goto, End, TypeOK, Finishes
  <1>4. CASE Poll(r)
    BY <1>4, Thens DEF Poll, PollAnswered, PollFails, PollAgain, Proceed, Goto,
       End, TypeOK, Stays, Waits, Finishes, Unconnected
  <1>5. CASE GetProjectLock(r)
    BY <1>5 DEF GetProjectLock, Stays
  <1>6. CASE PatchIam(r)
    BY <1>6, Thens DEF PatchIam, Proceed, Goto, End, TypeOK, Waits, Finishes,
       Unconnected
  <1>7. CASE Connect(r)
    BY <1>7, Thens DEF Connect, Proceed, Goto, End, TypeOK, Connects, Finishes
  <1>8. CASE Create(r)
    BY <1>8 DEF Create, Creatable, Made, Proceed, Goto, TypeOK, Builds, Object
  <1>9. CASE CreateFails(r)
    BY <1>9 DEF CreateFails, Goto, End, TypeOK, Finishes
  <1>10. CASE CreateKey(r)
    <2>1. AccountAt(pc[r]) \in Account
      BY DEF AccountAt, Account
    <2>2. r \in keys'[AccountAt(pc[r])]
      BY <1>10, <2>1 DEF CreateKey, TypeOK
    <2>3. QED
      BY <1>10, <2>2, Thens DEF CreateKey, Proceed, Goto, End, TypeOK, MakesKey,
         Finishes
  <1>11. CASE CreateKeyFails(r)
    BY <1>11 DEF CreateKeyFails, Goto, End, TypeOK, Finishes
  <1>12. CASE StoreKey(r)
    BY <1>12 DEF StoreKey, Creatable, Made, Proceed, Goto, End, TypeOK, Builds,
       Finishes, Object
  <1>13. CASE InstallIstio(r)
    BY <1>13, Thens, DeployAssumption DEF InstallIstio, Proceed, Goto, End, TypeOK,
       Installs, Finishes, Object
  <1>14. CASE CreateApp(r)
    BY <1>14 DEF CreateApp, Goto, End, TypeOK, Finishes
  <1>15. CASE FindCluster(r)
    BY <1>15, Thens DEF FindCluster, Proceed, Goto, End, TypeOK, Installs, Finishes
  <1>16. QED
    BY <1>1, <1>2, <1>3, <1>4, <1>5, <1>6, <1>7, <1>8, <1>9, <1>10, <1>11,
       <1>12, <1>13, <1>14, <1>15 DEF Step

LEMMA StepSecrets ==
    ASSUME TypeOK, NEW r \in Request, Step(r)
    PROVE  SecretsOf(r)
  BY DEF Step, Start, Insert, InsertFails, Poll, GetProjectLock, PatchIam, Connect,
     Create, CreateFails, CreateKey, CreateKeyFails, StoreKey, InstallIstio,
     FindCluster, CreateApp, Creatable, Made, TypeOK, Object, SecretsOf

\* A key is only ever made by the request that is at it, of the account it is at.
KeysOf(r) ==
    \A a \in Account :
        keys'[a] # keys[a] => a = AccountAt(pc[r]) /\ pc[r] \in {"adminKey", "userKey"}

LEMMA StepKeys ==
    ASSUME TypeOK, NEW r \in Request, Step(r)
    PROVE  KeysOf(r)
  <1>1. CASE CreateKey(r)
    BY <1>1 DEF CreateKey, TypeOK, KeysOf
  <1>2. CASE ~ CreateKey(r)
    <2>1. keys' = keys
      BY <1>2 DEF Step, Start, Insert, InsertFails, Poll, GetProjectLock, PatchIam,
         Connect, Create, CreateFails, CreateKeyFails, StoreKey, InstallIstio,
         FindCluster, CreateApp
    <2>2. QED
      BY <2>1 DEF KeysOf
  <1>3. QED
    BY <1>1, <1>2

LEMMA ConnectedStep ==
    ASSUME IndInv, NEW r \in Request, Step(r)
    PROVE  Connected'
  <1> USE DEF IndInv
  <1>1. Frame(r) /\ Effect(r)
    BY StepFrame, StepEffect
  <1> SUFFICES ASSUME NEW q \in Request
               PROVE  /\ on'[q] <= cluster'
                      /\ pc'[q] \in Unconnected =>
                           on'[q] = 0 /\ \A a \in Account : q \notin keys'[a]
    BY DEF Connected
  <1>2. on[q] <= cluster /\ cluster \in Nat /\ cluster' = cluster
    BY <1>1 DEF Connected, TypeOK, Frame
  <1>3. CASE q # r
    BY <1>1, <1>2, <1>3 DEF Frame, Connected
  <1>4. CASE q = r
    <2>1. on'[r] = on[r] \/ on'[r] = cluster
      BY <1>1 DEF Effect, Stays, Waits, Finishes, Connects, Builds, MakesKey, Installs
    <2>2. on'[r] <= cluster'
      BY <1>2, <1>4, <2>1
    <2>3. CASE Stays(r) \/ Waits(r)
      BY <1>4, <2>2, <2>3 DEF Stays, Waits, Connected
    <2>4. CASE ~ (Stays(r) \/ Waits(r))
      <3>1. pc'[r] \notin Unconnected
        BY <1>1, <2>4, Thens DEF Effect, Finishes, Connects, Builds, MakesKey,
           Installs, Unconnected
      <3>2. QED
        BY <1>4, <2>2, <3>1
    <2>5. QED
      BY <2>3, <2>4
  <1>5. QED
    BY <1>3, <1>4

LEMMA BuiltStep ==
    ASSUME IndInv, NEW r \in Request, Step(r)
    PROVE  Built'
  <1> USE DEF IndInv, Built, PastNs, PastOauth, PastLogin, PastAdminSecret,
          PastUserSecret, PastBind
  <1>1. Frame(r) /\ Effect(r)
    BY StepFrame, StepEffect
  <1>2. /\ {"ns", "oauth", "login", "adminSecret", "userSecret", "bind", "istio"}
             \subseteq Object \ {"app"}
        /\ \A q \in Request : q # NoRequest
    BY DeployAssumption DEF Object
  <1> SUFFICES ASSUME NEW q \in Request, on'[q] = cluster'
               PROVE  /\ pc'[q] \in PastNs => owner'["ns"] = q
                      /\ pc'[q] \in PastOauth => owner'["oauth"] = q
                      /\ pc'[q] \in PastLogin /\ job'[q].login => owner'["login"] = q
                      /\ pc'[q] \in PastAdminSecret => owner'["adminSecret"] = q
                      /\ pc'[q] \in PastUserSecret => owner'["userSecret"] = q
                      /\ pc'[q] \in PastBind => owner'["bind"] = q
                      /\ installIstio' /\ pc'[q] \in {"find", "app"} =>
                           owner'["istio"] # NoRequest
    BY DEF Built
  <1>3. CASE q # r
    BY <1>1, <1>2, <1>3 DEF Frame
  <1>4. CASE q = r
    <2>1. CASE Stays(r)
      BY <1>1, <1>4, <2>1 DEF Stays, Frame
    <2>2. CASE Waits(r) \/ Finishes(r) \/ Connects(r)
      BY <1>4, <2>2 DEF Waits, Finishes, Connects, Unconnected
    <2>3. CASE Builds(r)
      <3>1. on[r] = cluster
        BY <2>3 DEF Builds
      <3>2. CASE pc[r] = "ns"
        BY <1>4, <2>3, <3>2, Thens DEF Builds
      <3>3. CASE pc[r] = "oauth"
        BY <1>1, <1>2, <1>4, <2>3, <3>1, <3>3, Thens DEF Builds, Frame
      <3>4. CASE pc[r] = "login"
        BY <1>1, <1>2, <1>4, <2>3, <3>1, <3>4, Thens DEF Builds, Frame
      <3>5. CASE pc[r] = "adminSecret"
        BY <1>1, <1>2, <1>4, <2>3, <3>1, <3>5, Thens DEF Builds, Frame
      <3>6. CASE pc[r] = "userSecret"
        BY <1>1, <1>2, <1>4, <2>3, <3>1, <3>6, Thens DEF Builds, Frame
      <3>7. CASE pc[r] = "bind"
        BY <1>1, <1>2, <1>4, <2>3, <3>1, <3>7, Thens DEF Builds, Frame
      <3>8. QED
        BY <2>3, <3>2, <3>3, <3>4, <3>5, <3>6, <3>7 DEF Builds
    <2>4. CASE MakesKey(r)
      BY <1>1, <1>4, <2>4 DEF MakesKey, Frame
    <2>5. CASE Installs(r)
      BY <1>1, <1>2, <1>4, <2>5 DEF Installs, Frame
    <2>6. QED
      BY <1>1, <2>1, <2>2, <2>3, <2>4, <2>5 DEF Effect
  <1>5. QED
    BY <1>3, <1>4

LEMMA KeysStep ==
    ASSUME IndInv, NEW r \in Request, Step(r)
    PROVE  KeysOfOwner' /\ SecretHoldsKey'
  <1> USE DEF IndInv
  <1>1. Frame(r) /\ Effect(r) /\ SecretsOf(r)
    BY StepFrame, StepEffect, StepSecrets
  <1>2. /\ {"ns", "adminSecret", "userSecret"} \subseteq Object \ {"app"}
        /\ \A q \in Request : q # NoRequest
        /\ {"admin", "user"} = Account
        /\ \A a \in Account : keys[a] \subseteq Request
    BY DeployAssumption DEF Object, Account, TypeOK
  <1>3. ASSUME NEW a \in Account, NEW q \in keys'[a], on'[q] = cluster'
        PROVE  owner'["ns"] = q
    <2>1. CASE q \in keys[a] /\ on[q] = cluster
      BY <1>1, <1>2, <2>1 DEF Frame, KeysOfOwner
    <2>2. CASE q \in keys[a] /\ on[q] # cluster
      <3>1. q = r /\ on'[r] # on[r]
        BY <1>1, <1>2, <1>3, <2>2 DEF Frame
      <3>2. Connects(r)
        BY <1>1, <3>1 DEF Effect, Stays, Waits, Finishes, Builds, MakesKey, Installs
      <3>3. QED
        BY <2>2, <3>1, <3>2 DEF Connects, Connected, Unconnected
    <2>3. CASE q \notin keys[a]
      <3>1. q = r
        BY <1>1, <1>3, <2>3 DEF Frame
      <3>2. pc[r] \in {"adminKey", "userKey"} /\ on'[r] = on[r]
        BY <1>1, <1>3, <2>3, <3>1 DEF Effect, Stays, Waits, Finishes, Connects,
           Builds, MakesKey, Installs
      <3>3. owner["ns"] = r
        BY <1>1, <1>3, <3>1, <3>2 DEF Frame, Built, PastNs, PastOauth, PastLogin,
           PastAdminSecret
      <3>4. QED
        BY <1>1, <1>2, <3>1, <3>3 DEF Frame
    <2>4. QED
      BY <2>1, <2>2, <2>3
  <1>4. ASSUME NEW q \in Request, on'[q] = cluster'
        PROVE  /\ pc'[q] = "adminSecret" => q \in keys'["admin"]
               /\ pc'[q] = "userSecret" => q \in keys'["user"]
    <2>1. CASE q # r \/ Stays(r)
      BY <1>1, <1>2, <1>4, <2>1 DEF Frame, Stays, KeysOfOwner
    <2>2. CASE q = r /\ MakesKey(r)
      BY <2>2 DEF MakesKey, AccountAt
    <2>3. CASE q = r /\ ~ Stays(r) /\ ~ MakesKey(r)
      <3>1. pc'[r] \notin {"adminSecret", "userSecret"}
        BY <1>1, <2>3, Thens DEF Effect, Waits, Finishes, Connects, Builds,
           Installs, Unconnected
      <3>2. QED
        BY <2>3, <3>1
    <2>4. QED
      BY <2>1, <2>2, <2>3
  <1>5. SecretHoldsKey'
    BY <1>1, <1>2 DEF Frame, SecretsOf, SecretHoldsKey, KeysOfOwner
  <1>6. QED
    BY <1>3, <1>4, <1>5 DEF KeysOfOwner

\* Only the last stage counts a request as OK.
LEMMA StepCount ==
    ASSUME TypeOK, NEW r \in Request, Step(r)
    PROVE  /\ pc[r] \notin {"done", "lost"}
           /\ \/ count'[r]["OK"] = count[r]["OK"]
              \/ /\ pc[r] = "app"
                 /\ pc'[r] = "done"
                 /\ on' = on
                 /\ job[r].apply => owner'["app"] # NoRequest
  <1> USE DEF Goto
  <1>1. CASE Start(r) \/ Insert(r) \/ InsertFails(r)
    BY <1>1 DEF Start, Insert, InsertFails, Proceed, End, TypeOK, Code
  <1>2. CASE Poll(r)
    BY <1>2 DEF Poll, PollAnswered, PollFails, PollAgain, Proceed, End, TypeOK, Code
  <1>3. CASE GetProjectLock(r) \/ PatchIam(r) \/ Connect(r)
    BY <1>3 DEF GetProjectLock, PatchIam, Connect, Proceed, End, TypeOK, Code, Locked
  <1>4. CASE Create(r) \/ CreateFails(r)
    BY <1>4 DEF Create, CreateFails, Proceed, End, TypeOK, Code
  <1>5. CASE CreateKey(r) \/ CreateKeyFails(r) \/ StoreKey(r)
    BY <1>5 DEF CreateKey, CreateKeyFails, StoreKey, Proceed, End, TypeOK, Code
  <1>6. CASE InstallIstio(r)
    BY <1>6 DEF InstallIstio, Proceed, End, TypeOK, Code
  <1>7. CASE CreateApp(r)
    BY <1>7, DeployAssumption DEF CreateApp, Made, End, TypeOK, Code, Object
  <1>8. CASE FindCluster(r)
    BY <1>8 DEF FindCluster, Proceed, End, TypeOK, Code
  <1>9. QED
    BY <1>1, <1>2, <1>3, <1>4, <1>5, <1>6, <1>7, <1>8 DEF Step

(***************************************************************************)
(* A key just made is in hand, and leaves the hands of its request for the *)
(* secret, or with a request that ends without being counted OK.           *)
(***************************************************************************)
LEMMA KnownStep ==
    ASSUME IndInv, NEW r \in Request, Step(r)
    PROVE  KeysKnown'
  <1> USE DEF IndInv
  <1>1. Frame(r) /\ Effect(r) /\ KeysOf(r)
    BY StepFrame, StepEffect, StepKeys
  <1>2. /\ {"adminSecret", "userSecret"} \subseteq Object \ {"app"}
        /\ \A q \in Request : q # NoRequest
        /\ {"admin", "user"} = Account
        /\ \A a \in Account : keys[a] \subseteq Request
        /\ \A a \in Account : SecretOf(a) \in {"adminSecret", "userSecret"}
    BY DeployAssumption DEF Object, Account, TypeOK, SecretOf
  <1>3. pc[r] \notin {"done", "lost"} /\ count[r]["OK"] = 0
    <2>1. count[r]["OK"] \in Nat /\ pc[r] \notin {"done", "lost"}
      BY StepCount DEF TypeOK, Code
    <2>2. QED
      BY <2>1 DEF OkEnds
  <1>4. ASSUME NEW a \in Account, NEW q \in keys'[a]
        PROVE  KeyKnown(a, q)'
    <2> USE DEF KeyKnown
    <2>1. q \in keys[a] \/ q = r
      BY <1>1 DEF Frame
    <2>2. CASE q # r
      <3>1. q \in Request /\ KeyKnown(a, q)
        BY <1>2, <2>1, <2>2 DEF KeysKnown
      <3>2. QED
        BY <1>1, <1>2, <2>2, <3>1 DEF Frame
    <2>3. CASE q = r /\ owner[SecretOf(a)] = r
      BY <1>1, <1>2, <2>3 DEF Frame
    <2>4. CASE q = r /\ pc[r] = SecretOf(a)
      <3>1. CASE Stays(r)
        BY <2>4, <3>1 DEF Stays
      <3>2. CASE Builds(r)
        BY <2>4, <3>2 DEF Builds
      <3>3. CASE Finishes(r)
        BY <1>2, <1>3, <2>4, <3>3, StepCount DEF Finishes
      <3>4. QED
        BY <1>1, <1>2, <2>4, <3>1, <3>2, <3>3 DEF Effect, Waits, Connects, MakesKey,
           Installs, Unconnected
    <2>5. CASE q = r /\ r \notin keys[a]
      <3>1. a = AccountAt(pc[r]) /\ pc[r] \in {"adminKey", "userKey"}
        BY <1>1, <2>5 DEF KeysOf
      <3>2. CASE MakesKey(r)
        BY <2>5, <3>1, <3>2 DEF MakesKey, AccountAt, SecretOf
      <3>3. CASE Finishes(r)
        BY <1>3, <2>5, <3>1, <3>3, StepCount DEF Finishes
      <3>4. keys' # keys
        BY <2>5
      <3>5. QED
        BY <1>1, <3>1, <3>2, <3>3, <3>4 DEF Effect, Stays, Waits, Connects, Builds,
           Installs
    <2>6. QED
      BY <1>3, <2>1, <2>2, <2>3, <2>4, <2>5 DEF KeysKnown
  <1>5. QED
    BY <1>4 DEF KeysKnown

LEMMA OkStep ==
    ASSUME IndInv, NEW r \in Request, Step(r)
    PROVE  OkEnds' /\ OkMeansComplete'
  <1> USE DEF IndInv
  <1>1. Frame(r) /\ Effect(r)
    BY StepFrame, StepEffect
  <1>2. /\ {"ns", "oauth", "login", "adminSecret", "userSecret", "bind", "istio"}
             \subseteq Object \ {"app"}
        /\ \A q \in Request : q # NoRequest
    BY DeployAssumption DEF Object
  <1>3. count[r]["OK"] = 0
    <2>1. count[r]["OK"] \in Nat
      BY DEF TypeOK, Code
    <2>2. pc[r] # "done"
      BY StepCount
    <2>3. QED
      BY <2>1, <2>2 DEF OkEnds
  <1>4. OkEnds'
    BY <1>1, <1>3, StepCount DEF OkEnds, Frame
  <1>5. ASSUME NEW q \in Request, count'[q]["OK"] > 0, on'[q] = cluster'
        PROVE  /\ \A o \in Wanted(q)' : owner'[o] = q
               /\ installIstio' => owner'["istio"] # NoRequest
               /\ job'[q].apply => owner'["app"] # NoRequest
    <2>1. Wanted(q)' = Wanted(q) /\ Wanted(q) \subseteq Object \ {"app"}
      BY <1>1, <1>2 DEF Wanted, Frame
    <2>2. CASE q # r
      <3>1. /\ \A o \in Wanted(q) : owner[o] = q
            /\ installIstio => owner["istio"] # NoRequest
            /\ job[q].apply => owner["app"] # NoRequest
        BY <1>1, <1>5, <2>2 DEF Frame, OkMeansComplete
      <3>2. QED
        BY <1>1, <1>2, <2>1, <3>1 DEF Frame
    <2>3. CASE q = r
      <3>1. /\ pc[r] = "app"
            /\ on[r] = cluster
            /\ job[r].apply => owner'["app"] # NoRequest
        BY <1>1, <1>3, <1>5, <2>3, StepCount DEF Frame
      <3>2. /\ \A o \in Wanted(q) : owner[o] = q
            /\ installIstio => owner["istio"] # NoRequest
        BY <2>3, <3>1 DEF Built, Wanted, PastNs, PastOauth, PastLogin,
           PastAdminSecret, PastUserSecret, PastBind
      <3>3. QED
        BY <1>1, <1>2, <2>1, <2>3, <3>1, <3>2 DEF Frame
    <2>4. QED
      BY <2>2, <2>3
  <1>6. OkMeansComplete'
    <2> SUFFICES ASSUME NEW q \in Request, count'[q]["OK"] > 0, on'[q] = cluster'
                 PROVE  /\ \A o \in Wanted(q)' : owner'[o] = q
                        /\ installIstio' => owner'["istio"] # NoRequest
                        /\ job'[q].apply => owner'["app"] # NoRequest
      BY DEF OkMeansComplete
    <2>1. QED
      BY <1>5
  <1>7. QED
    BY <1>4, <1>6

\* An end adds one to what r is counted, going on adds nothing.
LEMMA EndCounts ==
    ASSUME IndInv, NEW r \in Request, NEW c \in Code, End(r, c), pc[r] # "done",
           overrun' = overrun
    PROVE  CountedOnce'
  <1> USE DEF IndInv
  <1> SUFFICES ASSUME NEW q \in Request
               PROVE  Total(q)' = overrun'[q] + (IF pc'[q] = "done" THEN 1 ELSE 0)
    BY DEF CountedOnce
  <1>1. Total(q) = overrun[q] + (IF pc[q] = "done" THEN 1 ELSE 0)
    BY DEF CountedOnce
  <1>2. CASE q # r
    BY <1>1, <1>2 DEF End, Goto, TypeOK, Total
  <1>3. CASE q = r
    <2>1. /\ count[r]["OK"] \in Nat
          /\ count[r]["INTERNAL"] \in Nat
          /\ count[r]["INVALID_ARGUMENT"] \in Nat
          /\ overrun[r] \in Nat
      BY DEF TypeOK, Code
    <2>2. Total(r)' = Total(r) + 1
      BY <2>1 DEF End, TypeOK, Total, Code
    <2>3. pc'[r] = "done"
      BY DEF End, Goto, TypeOK
    <2>4. QED
      BY <1>1, <1>3, <2>1, <2>2, <2>3 DEF Total
  <1>4. QED
    BY <1>2, <1>3

LEMMA GoingCounts ==
    ASSUME IndInv, NEW r \in Request, pc[r] # "done", pc'[r] # "done",
           \A q \in Request \ {r} : pc'[q] = pc[q],
           UNCHANGED <<count, overrun>>
    PROVE  CountedOnce'
  BY DEF IndInv, CountedOnce, Total

LEMMA CountStep ==
    ASSUME IndInv, NEW r \in Request, Step(r)
    PROVE  CountedOnce'
  <1> USE DEF IndInv
  <1>1. pc[r] # "done" /\ Frame(r)
    BY StepCount, StepFrame
  <1>2. ASSUME NEW c \in Code, End(r, c), overrun' = overrun PROVE CountedOnce'
    BY <1>1, <1>2, EndCounts
  <1>3. ASSUME Proceed(r), pc[r] \in Stage, pc[r] # "app", overrun' = overrun
        PROVE  CountedOnce'
    <2>1. pc'[r] # "done"
      BY <1>3, ThenType DEF Proceed, Goto, TypeOK, Stage
    <2>2. QED
      BY <1>1, <1>3, <2>1, GoingCounts DEF Proceed, Frame
  <1> USE DEF Code, Stage
  <1>4. CASE Start(r)
    <2>1. CASE Goto(r, IF job[r].storage THEN "insertStorage" ELSE "insertCluster")
               /\ UNCHANGED count
      <3>1. pc'[r] # "done"
        BY <2>1 DEF Goto, TypeOK
      <3>2. QED
        BY <1>1, <1>4, <2>1, <3>1, GoingCounts DEF Start, Frame
    <2>2. QED
      BY <1>2, <1>4, <2>1 DEF Start
  <1>5. CASE Insert(r) \/ InsertFails(r)
    BY <1>2, <1>3, <1>5 DEF Insert, InsertFails
  <1>6. CASE Poll(r)
    <2>1. pc[r] \in Stage /\ pc[r] # "app"
      BY <1>6 DEF Poll
    <2>2. CASE PollAgain(r)
      BY <1>1, <2>2, GoingCounts DEF PollAgain, Frame
    <2>3. CASE Proceed(r) /\ overrun' = overrun
      BY <1>3, <2>1, <2>3
    <2>4. CASE End(r, "INTERNAL") /\ overrun' = overrun
      BY <1>2, <2>4
    <2>5. CASE End(r, "INVALID_ARGUMENT") /\ overrun' = overrun
      BY <1>2, <2>5
    <2>6. CASE /\ Goto(r, Then(r, pc[r]))
               /\ count' = [count EXCEPT ![r]["INTERNAL"] = @ + 1]
               /\ overrun' = [overrun EXCEPT ![r] = @ + 1]
      <3>1. /\ count[r]["OK"] \in Nat
            /\ count[r]["INTERNAL"] \in Nat
            /\ count[r]["INVALID_ARGUMENT"] \in Nat
            /\ overrun[r] \in Nat
        BY DEF TypeOK
      <3>2. pc'[r] # "done"
        BY <2>1, <2>6, ThenType DEF Goto, TypeOK
      <3>3. Total(r)' = Total(r) + 1 /\ overrun'[r] = overrun[r] + 1
        BY <2>6, <3>1 DEF TypeOK, Total
      <3>4. Total(r) = overrun[r]
        BY <1>1, <3>1 DEF CountedOnce
      <3>5. Total(r)' = overrun'[r] + 0
        <4>1. Total(r) \in Nat
          BY <3>1 DEF Total
        <4>2. QED
          BY <3>1, <3>3, <3>4, <4>1
      <3>6. \A q \in Request \ {r} :
              Total(q)' = overrun'[q] + (IF pc'[q] = "done" THEN 1 ELSE 0)
        BY <1>1 DEF Frame, CountedOnce, Total
      <3>7. QED
        BY <3>2, <3>5, <3>6 DEF CountedOnce
    <2>7. QED
      BY <1>6, <2>2, <2>3, <2>4, <2>5, <2>6 DEF Poll, PollAnswered, PollFails
  <1>7. CASE GetProjectLock(r)
    BY <1>1, <1>7, GoingCounts DEF GetProjectLock, Frame
  <1>8. CASE PatchIam(r) \/ Connect(r)
    BY <1>2, <1>3, <1>8 DEF PatchIam, Connect
  <1>9. CASE Create(r) \/ CreateFails(r)
    BY <1>2, <1>3, <1>9 DEF Create, CreateFails
  <1>10. CASE CreateKey(r) \/ CreateKeyFails(r) \/ StoreKey(r)
    BY <1>2, <1>3, <1>10 DEF CreateKey, CreateKeyFails, StoreKey
  <1>11. CASE InstallIstio(r) \/ CreateApp(r)
    BY <1>2, <1>3, <1>11 DEF InstallIstio, CreateApp
  <1>12. CASE FindCluster(r)
    BY <1>2, <1>3, <1>12 DEF FindCluster
  <1>13. QED
    BY <1>4, <1>5, <1>6, <1>7, <1>8, <1>9, <1>10, <1>11, <1>12 DEF Step

LEMMA InitInv == Init => IndInv
  <1> SUFFICES ASSUME Init PROVE IndInv
    OBVIOUS
  <1>1. TypeOK
    BY InitType
  <1>2. Connected /\ Built
    BY DEF Init, Connected, Built
  <1>3. \A q \in Request : /\ count[q]["OK"] = 0
                           /\ count[q]["INTERNAL"] = 0
                           /\ count[q]["INVALID_ARGUMENT"] = 0
    BY DEF Init, Code
  <1>4. OkEnds /\ OkMeansComplete
    BY <1>3 DEF OkEnds, OkMeansComplete
  <1>5. CountedOnce
    <2>1. \A q \in Request : overrun[q] = 0 /\ pc[q] = "idle"
      BY DEF Init
    <2>2. \A q \in Request : Total(q) = 0
      <3>1. 0 + 0 + 0 = 0
        OBVIOUS
      <3>2. QED
        BY <1>3, <3>1, Zenon DEF Total
    <2>3. QED
      BY <2>1, <2>2 DEF CountedOnce
  <1>6. KeysOfOwner /\ KeysKnown /\ SecretHoldsKey
    BY DEF Init, KeysOfOwner, KeysKnown, SecretHoldsKey, Account, Object
  <1>7. QED
    BY <1>1, <1>2, <1>4, <1>5, <1>6 DEF IndInv

(***************************************************************************)
(* Steps of the surroundings: a deletion leaves no request connected to    *)
(* the cluster to come, a restart leaves none at a stage.                  *)
(***************************************************************************)
LEMMA DeleteStep ==
    ASSUME IndInv, NEW k \in Kind, Delete(k)
    PROVE  /\ Connected' /\ Built' /\ KeysOfOwner' /\ KeysKnown'
           /\ SecretHoldsKey' /\ OkEnds' /\ OkMeansComplete' /\ CountedOnce'
  <1> USE DEF IndInv
  <1>1. OkEnds' /\ CountedOnce'
    BY DEF Delete, OkEnds, CountedOnce, Total
  <1>2. CASE k # "cluster"
    <2>1. UNCHANGED <<cluster, owner, keys, job, installIstio, pc, on, count>>
      BY <1>2 DEF Delete
    <2>2. QED
      BY <1>1, <2>1 DEF Connected, Built, KeysOfOwner, KeysKnown, KeyKnown,
         SecretHoldsKey, OkMeansComplete, Wanted
  <1>3. CASE k = "cluster"
    <2>1. /\ cluster' = cluster + 1
          /\ \A o \in Object : owner'[o] = NoRequest
          /\ \A a \in Account : keys'[a] = {}
          /\ UNCHANGED <<pc, on, count>>
      BY <1>3 DEF Delete
    <2>2. \A q \in Request : on'[q] # cluster' /\ on'[q] <= cluster'
      BY <2>1 DEF Connected, TypeOK
    <2>3. Connected' /\ Built' /\ KeysOfOwner' /\ KeysKnown' /\ OkMeansComplete'
      BY <2>1, <2>2 DEF Connected, Built, KeysOfOwner, KeysKnown, OkMeansComplete
    <2>4. SecretHoldsKey'
      BY <2>1 DEF SecretHoldsKey, Object
    <2>5. QED
      BY <1>1, <2>3, <2>4
  <1>4. QED
    BY <1>2, <1>3

LEMMA RestartStep ==
    ASSUME IndInv, Restart
    PROVE  /\ Connected' /\ Built' /\ KeysOfOwner' /\ KeysKnown'
           /\ SecretHoldsKey' /\ OkEnds' /\ OkMeansComplete' /\ CountedOnce'
  <1> USE DEF IndInv
  <1>1. \A q \in Request : pc'[q] = IF pc[q] \in Stage THEN "lost" ELSE pc[q]
    BY DEF Restart
  <1>2. UNCHANGED <<cluster, owner, keys, job, installIstio, on, count, overrun>>
    BY DEF Restart
  <1>3. Connected'
    BY <1>1, <1>2 DEF Connected, Unconnected
  <1>4. Built'
    BY <1>1, <1>2 DEF Built, PastNs, PastOauth, PastLogin, PastAdminSecret,
       PastUserSecret, PastBind, Stage
  <1>5. KeysOfOwner' /\ KeysKnown'
    <2>1. \A a \in Account : keys[a] \subseteq Request
      BY DEF TypeOK
    <2>2. \A a \in Account : SecretOf(a) \in Stage
      BY DEF SecretOf, Stage
    <2>3. KeysKnown'
      BY <1>1, <1>2, <2>1, <2>2 DEF KeysKnown, KeyKnown
    <2>4. QED
      BY <1>1, <1>2, <2>3 DEF KeysOfOwner
  <1>6. SecretHoldsKey' /\ OkMeansComplete'
    BY <1>2 DEF SecretHoldsKey, OkMeansComplete, Wanted
  <1>7. OkEnds'
    BY <1>1, <1>2 DEF OkEnds, Stage
  <1>8. CountedOnce'
    BY <1>1, <1>2 DEF CountedOnce, Total, Stage
  <1>9. QED
    BY <1>3, <1>4, <1>5, <1>6, <1>7, <1>8

LEMMA InvStep == IndInv /\ [Next]_vars => IndInv'
  <1> SUFFICES ASSUME IndInv, [Next]_vars PROVE IndInv'
    OBVIOUS
  <1>1. TypeOK'
    BY TypeStep DEF IndInv
  <1>2. CASE \E r \in Request : Step(r)
    BY <1>1, <1>2, ConnectedStep, BuiltStep, KeysStep, KnownStep, OkStep,
       CountStep DEF IndInv
  <1>3. ASSUME NEW k \in Kind, Delete(k) PROVE IndInv'
    BY <1>1, <1>3, DeleteStep DEF IndInv
  <1>4. CASE Restart
    BY <1>1, <1>4, RestartStep DEF IndInv
  <1>5. ASSUME UNCHANGED <<cluster, owner, keys, job, installIstio, pc, on, count,
                           overrun>>
        PROVE  IndInv'
    BY <1>1, <1>5 DEF IndInv, Connected, Built, KeysOfOwner, KeysKnown, KeyKnown,
       SecretHoldsKey, OkEnds, OkMeansComplete, Wanted, CountedOnce, Total
  <1>6. ASSUME NEW k \in Kind, DeploymentEnds(k) PROVE IndInv'
    BY <1>5, <1>6 DEF DeploymentEnds
  <1>7. CASE UNCHANGED vars
    BY <1>5, <1>7 DEF vars
  <1>8. QED
    BY <1>2, <1>3, <1>4, <1>6, <1>7 DEF Next
----------------------------------------------------------------------------
\* Every reachable state of Deploy has its types.
THEOREM TypeCorrect == Spec => []TypeOK
  BY InitType, TypeStep, PTL DEF Spec

\* The inductive invariant: what a request has passed is its own.
THEOREM Invariant == Spec => []IndInv
  BY InitInv, InvStep, PTL DEF Spec

(***************************************************************************)
(* A key that no secret holds is in hand, or its request failed or was     *)
(* forgotten; and two requests with a client for the present cluster that  *)
(* both made keys of its accounts also both made its namespace, so they    *)
(* are the same.                                                           *)
(***************************************************************************)
THEOREM KeysCorrect == Spec => []KeysAccountedFor
  <1>1. IndInv => KeysAccountedFor
    BY DEF IndInv, KeysOfOwner, KeysKnown, KeysAccountedFor, TypeOK
  <1>2. QED
    BY <1>1, Invariant, PTL

\* A secret holds a key that its account still has.
THEOREM SecretsCorrect == Spec => []SecretHoldsKey
  <1>1. IndInv => SecretHoldsKey
    BY DEF IndInv
  <1>2. QED
    BY <1>1, Invariant, PTL

\* A deployment counted OK has all that was asked for, and is one request's work.
THEOREM OkCorrect == Spec => []OkMeansComplete
  <1>1. IndInv => OkMeansComplete
    BY DEF IndInv
  <1>2. QED
    BY <1>1, Invariant, PTL

\* An ended request is counted once more than its ignored waits.
THEOREM CountCorrect == Spec => []CountedOnce
  <1>1. IndInv => CountedOnce
    BY DEF IndInv
  <1>2. QED
    BY <1>1, Invariant, PTL
=============================================================================
