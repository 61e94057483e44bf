-------------------------- MODULE IamPolicyProofs --------------------------
(***************************************************************************)
(* Theorems about IamPolicy, for any projects, requests, roles, members,   *)
(* clusters and template, any number of attempts, edits by others and      *)
(* restarts.                                                               *)
(***************************************************************************)
EXTENDS IamPolicy, TLAPS

USE DEF service, history

\* A job's fields.
LEMMA JobType ==
    ASSUME NEW j \in Job
    PROVE  /\ j.op \in {"bind", "add", "remove"}
           /\ j.project \in Project
           /\ j.cluster \in Cluster
           /\ j.member \in Member
  BY PolicyAssumption

\* Every edit of a policy is a policy.
LEMMA EditedType ==
    ASSUME NEW pol \in Policy, NEW j \in Job, NEW e \in Edit
    PROVE  Edited(pol, j, e) \in Policy
  <1>1. \A n \in Placeholder : Actual(j, n) \in Member
    BY JobType, PolicyAssumption DEF Actual, ServiceName
  <1>2. \A role \in Role : Named(j, role) \subseteq Member
    BY <1>1 DEF Named
  <1>3. Cleared(pol, j) \in Policy
    BY DEF Cleared, Policy
  <1>4. Updated(pol, j) \in Policy
    BY <1>2 DEF Updated, Policy
  <1>5. Bound(pol, j) \in Policy
    BY JobType, PolicyAssumption DEF Bound, Policy
  <1>6. QED
    BY <1>3, <1>4, <1>5 DEF Edited, Edit

\* A stored edit leaves the service's state, and the history of it, typed.
LEMMA StoredType ==
    ASSUME TypeOK, NEW r \in Request, Stored(r)
    PROVE  /\ policy' \in [Project -> Policy]
           /\ etag' \in [Project -> Nat]
           /\ doneAt' \in [Request -> [Edit -> Nat]]
  <1>1. Edited(copy[r].policy, job[r], phase[r]) \in Policy
    BY EditedType DEF TypeOK, Copy
  <1>2. job[r].project \in Project
    BY JobType DEF TypeOK
  <1>3. policy' \in [Project -> Policy] /\ etag' \in [Project -> Nat]
    BY <1>1, <1>2 DEF TypeOK, Stored
  <1>4. etag[job[r].project] + 1 \in Nat
    BY <1>2 DEF TypeOK
  <1>5. doneAt' \in [Request -> [Edit -> Nat]]
    BY <1>4 DEF TypeOK, Stored
  <1>6. QED
    BY <1>3, <1>5

\* A failed call leaves the request typed.
LEMMA CallFailsType ==
    ASSUME TypeOK, NEW r \in Request, CallFails(r)
    PROVE  /\ pc' \in [Request -> PC]
           /\ phase' \in [Request -> Edit]
           /\ tries' \in [Request -> 0 .. (MaxTries - 1)]
  <1>1. AfterError(r) \in {"read", "succeed", "fail"}
    BY DEF AfterError
  <1>2. AfterError(r) = "read" => tries[r] + 1 < MaxTries
    BY DEF AfterError
  <1>3. QED
    BY <1>1, <1>2, IamAssumption DEF TypeOK, CallFails, PC, Inside

LEMMA NoCopyType == NoCopy \in Copy
  BY DEF NoCopy, Copy, Policy

LEMMA InitType == Init => TypeOK
  <1> SUFFICES ASSUME Init PROVE TypeOK
    OBVIOUS
  <1>1. phase \in [Request -> Edit]
    BY DEF Init, Edit, FirstEdit
  <1>2. copy \in [Request -> Copy]
    BY NoCopyType DEF Init
  <1>3. QED
    BY <1>1, <1>2, IamAssumption DEF Init, TypeOK, PC, Inside

LEMMA TypeStep == TypeOK /\ [Next]_vars => TypeOK'
  <1> SUFFICES ASSUME TypeOK, [Next]_vars PROVE TypeOK'
    OBVIOUS
  <1>1. ASSUME NEW r \in Request, Start(r) PROVE TypeOK'
    BY <1>1 DEF Start, TypeOK, PC, Inside
  <1>2. ASSUME NEW r \in Request, GetProjectLock(r) PROVE TypeOK'
    BY <1>2 DEF GetProjectLock, TypeOK, PC, Inside
  <1>3. ASSUME NEW r \in Request, GetIamPolicy(r) PROVE TypeOK'
    <2>1. job[r].project \in Project
      BY JobType DEF TypeOK
    <2>2. copy' \in [Request -> Copy]
      BY <1>3, <2>1 DEF GetIamPolicy, TypeOK, Copy
    <2>3. pc' \in [Request -> PC]
      BY <1>3 DEF GetIamPolicy, TypeOK, PC, Inside
    <2>4. QED
      BY <1>3, <2>2, <2>3 DEF GetIamPolicy, TypeOK
  <1>4. ASSUME NEW r \in Request, GetIamPolicyFails(r) PROVE TypeOK'
    BY <1>4, CallFailsType DEF GetIamPolicyFails, TypeOK
  <1>5. ASSUME NEW r \in Request, SetIamPolicy(r) PROVE TypeOK'
    <2>1. copy' \in [Request -> Copy]
      BY <1>5, NoCopyType DEF SetIamPolicy, TypeOK
    <2>2. /\ pc' \in [Request -> PC]
          /\ phase' \in [Request -> Edit]
      BY <1>5 DEF SetIamPolicy, TypeOK, PC, Inside, Edit
    <2>3. tries' \in [Request -> 0 .. (MaxTries - 1)]
      <3>1. 0 \in 0 .. (MaxTries - 1)
        BY IamAssumption
      <3>2. QED
        BY <1>5, <3>1 DEF SetIamPolicy, TypeOK
    <2>4. QED
      BY <1>5, <2>1, <2>2, <2>3, StoredType DEF SetIamPolicy, TypeOK
  <1>6. ASSUME NEW r \in Request, SetIamPolicyUnanswered(r) PROVE TypeOK'
    <2>1. copy' \in [Request -> Copy]
      BY <1>6, NoCopyType DEF SetIamPolicyUnanswered, TypeOK
    <2>2. QED
      BY <1>6, <2>1, StoredType, CallFailsType
      DEF SetIamPolicyUnanswered, TypeOK
  <1>7. ASSUME NEW r \in Request, SetIamPolicyFails(r) PROVE TypeOK'
    <2>1. copy' \in [Request -> Copy]
      BY <1>7, NoCopyType DEF SetIamPolicyFails, TypeOK
    <2>2. QED
      BY <1>7, <2>1, CallFailsType DEF SetIamPolicyFails, TypeOK
  <1>8. ASSUME NEW r \in Request, Return(r) PROVE TypeOK'
    BY <1>8 DEF Return, TypeOK, PC, Inside
  <1>9. ASSUME NEW r \in Request, OrphanArrives(r) PROVE TypeOK'
    <2>1. copy' \in [Request -> Copy]
      BY <1>9, NoCopyType DEF OrphanArrives, TypeOK
    <2>2. outside' \in [Project -> Nat] /\ pc' \in [Request -> PC]
      BY <1>9, JobType DEF OrphanArrives, TypeOK, PC
    <2>3. QED
      BY <1>9, <2>1, <2>2, StoredType DEF OrphanArrives, TypeOK
  <1>10. ASSUME NEW p \in Project, OutsideEdit(p) PROVE TypeOK'
    <2>1. policy' \in [Project -> Policy]
      BY <1>10 DEF OutsideEdit, TypeOK, Policy
    <2>2. QED
      BY <1>10, <2>1 DEF OutsideEdit, TypeOK
  <1>11. CASE Restart
    BY <1>11 DEF Restart, TypeOK, PC, Inside, Handled
  <1>12. CASE UNCHANGED vars
    BY <1>12 DEF vars, TypeOK
  <1>13. QED
    BY <1>1, <1>2, <1>3, <1>4, <1>5, <1>6, <1>7, <1>8, <1>9, <1>10,
       <1>11, <1>12 DEF Next, Step

(***************************************************************************)
(* The variables keep their types: attempts stay below MaxTries, versions  *)
(* are natural numbers, and every copy is a policy.                        *)
(***************************************************************************)
THEOREM TypeCorrect == Spec => []TypeOK
  BY InitType, TypeStep, PTL DEF Spec

----------------------------------------------------------------------------
LEMMA InitInv == Init => IndInv
  <1> SUFFICES ASSUME Init PROVE IndInv
    OBVIOUS
  <1>1. TypeOK
    BY InitType
  <1>2. InOrder
    BY <1>1, JobType DEF Init, InOrder, FirstEdit, EditsOf, Inside, TypeOK
  <1>3. PastVersions
    BY <1>1, JobType DEF Init, PastVersions, TypeOK
  <1>4. QED
    BY <1>1, <1>2, <1>3 DEF Init, IndInv, LockExcludes, StaleOnlyFromOutside,
       CopyCurrent, CleanSinceClear, Inside

\* Only the request that holds a project's mutex is between Lock and Unlock.
LEMMA LockStep == IndInv /\ [Next]_vars => LockExcludes'
  <1> SUFFICES ASSUME IndInv, [Next]_vars PROVE LockExcludes'
    OBVIOUS
  <1> USE DEF IndInv, TypeOK, LockExcludes, Inside
  <1>1. ASSUME NEW r \in Request, Start(r) PROVE LockExcludes'
    BY <1>1 DEF Start
  <1>2. ASSUME NEW r \in Request, GetProjectLock(r) PROVE LockExcludes'
    BY <1>2, JobType, IamAssumption DEF GetProjectLock
  <1>3. ASSUME NEW r \in Request, GetIamPolicy(r) PROVE LockExcludes'
    BY <1>3 DEF GetIamPolicy
  <1>4. ASSUME NEW r \in Request, GetIamPolicyFails(r) PROVE LockExcludes'
    BY <1>4 DEF GetIamPolicyFails, CallFails
  <1>5. ASSUME NEW r \in Request, SetIamPolicy(r) PROVE LockExcludes'
    BY <1>5 DEF SetIamPolicy
  <1>6. ASSUME NEW r \in Request, SetIamPolicyUnanswered(r) PROVE LockExcludes'
    BY <1>6 DEF SetIamPolicyUnanswered, CallFails
  <1>7. ASSUME NEW r \in Request, SetIamPolicyFails(r) PROVE LockExcludes'
    BY <1>7 DEF SetIamPolicyFails, CallFails
  <1>8. ASSUME NEW r \in Request, Return(r) PROVE LockExcludes'
    BY <1>8, JobType DEF Return
  <1>9. ASSUME NEW r \in Request, OrphanArrives(r) PROVE LockExcludes'
    BY <1>9 DEF OrphanArrives
  <1>10. ASSUME NEW p \in Project, OutsideEdit(p) PROVE LockExcludes'
    BY <1>10 DEF OutsideEdit
  <1>11. CASE Restart
    BY <1>11 DEF Restart, Handled
  <1>12. CASE UNCHANGED vars
    BY <1>12 DEF vars
  <1>13. QED
    BY <1>1, <1>2, <1>3, <1>4, <1>5, <1>6, <1>7, <1>8, <1>9, <1>10,
       <1>11, <1>12 DEF Next, Step
\* A copy with a current etag is the current policy: who stores a version raises
\* the etag past every copy.
LEMMA CopyStep == IndInv /\ [Next]_vars => CopyCurrent'
  <1> SUFFICES ASSUME IndInv, [Next]_vars PROVE CopyCurrent'
    OBVIOUS
  <1> USE DEF IndInv, TypeOK, CopyCurrent, Inside, Copy
  <1>1. ASSUME NEW r \in Request, Start(r) PROVE CopyCurrent'
    BY <1>1, JobType DEF Start
  <1>2. ASSUME NEW r \in Request, GetProjectLock(r) PROVE CopyCurrent'
    BY <1>2, JobType DEF GetProjectLock
  <1>3. ASSUME NEW r \in Request, GetIamPolicy(r) PROVE CopyCurrent'
    BY <1>3, JobType DEF GetIamPolicy
  <1>4. ASSUME NEW r \in Request, GetIamPolicyFails(r) PROVE CopyCurrent'
    BY <1>4, JobType DEF GetIamPolicyFails, CallFails, AfterError
  <1>5. ASSUME NEW r \in Request, SetIamPolicy(r) PROVE CopyCurrent'
    BY <1>5, JobType DEF SetIamPolicy, Stored
  <1>6. ASSUME NEW r \in Request, SetIamPolicyUnanswered(r) PROVE CopyCurrent'
    BY <1>6, JobType DEF SetIamPolicyUnanswered, CallFails, Stored, AfterError
  <1>7. ASSUME NEW r \in Request, SetIamPolicyFails(r) PROVE CopyCurrent'
    BY <1>7, JobType DEF SetIamPolicyFails, CallFails, AfterError
  <1>8. ASSUME NEW r \in Request, Return(r) PROVE CopyCurrent'
    BY <1>8, JobType DEF Return
  <1>9. ASSUME NEW r \in Request, OrphanArrives(r) PROVE CopyCurrent'
    BY <1>9, JobType DEF OrphanArrives, Stored
  <1>10. ASSUME NEW p \in Project, OutsideEdit(p) PROVE CopyCurrent'
    BY <1>10, JobType DEF OutsideEdit
  <1>11. CASE Restart
    BY <1>11, JobType DEF Restart, Handled
  <1>12. CASE UNCHANGED vars
    BY <1>12, JobType DEF vars
  <1>13. QED
    BY <1>1, <1>2, <1>3, <1>4, <1>5, <1>6, <1>7, <1>8, <1>9, <1>10,
       <1>11, <1>12 DEF Next, Step

\* A copy is made stale only from outside: a request that stores holds the mutex,
\* and no other request of the project is between its read and its write.
LEMMA StaleStep == IndInv /\ [Next]_vars => StaleOnlyFromOutside'
  <1> SUFFICES ASSUME IndInv, [Next]_vars PROVE StaleOnlyFromOutside'
    OBVIOUS
  <1> USE DEF IndInv, TypeOK, StaleOnlyFromOutside, LockExcludes, CopyCurrent, PastVersions, Inside, Copy
  <1>1. ASSUME NEW r \in Request, Start(r) PROVE StaleOnlyFromOutside'
    BY <1>1, JobType DEF Start
  <1>2. ASSUME NEW r \in Request, GetProjectLock(r) PROVE StaleOnlyFromOutside'
    BY <1>2, JobType DEF GetProjectLock
  <1>3. ASSUME NEW r \in Request, GetIamPolicy(r) PROVE StaleOnlyFromOutside'
    BY <1>3, JobType DEF GetIamPolicy
  <1>4. ASSUME NEW r \in Request, GetIamPolicyFails(r) PROVE StaleOnlyFromOutside'
    BY <1>4, JobType DEF GetIamPolicyFails, CallFails, AfterError
  <1>5. ASSUME NEW r \in Request, SetIamPolicy(r) PROVE StaleOnlyFromOutside'
    BY <1>5, JobType DEF SetIamPolicy, Stored
  <1>6. ASSUME NEW r \in Request, SetIamPolicyUnanswered(r) PROVE StaleOnlyFromOutside'
    BY <1>6, JobType DEF SetIamPolicyUnanswered, CallFails, Stored, AfterError
  <1>7. ASSUME NEW r \in Request, SetIamPolicyFails(r) PROVE StaleOnlyFromOutside'
    BY <1>7, JobType DEF SetIamPolicyFails, CallFails, AfterError
  <1>8. ASSUME NEW r \in Request, Return(r) PROVE StaleOnlyFromOutside'
    BY <1>8, JobType DEF Return
  <1>9. ASSUME NEW r \in Request, OrphanArrives(r) PROVE StaleOnlyFromOutside'
    BY <1>9, JobType DEF OrphanArrives, Stored
  <1>10. ASSUME NEW p \in Project, OutsideEdit(p) PROVE StaleOnlyFromOutside'
    BY <1>10, JobType DEF OutsideEdit
  <1>11. CASE Restart
    BY <1>11, JobType DEF Restart, Handled
  <1>12. CASE UNCHANGED vars
    BY <1>12, JobType DEF vars
  <1>13. QED
    BY <1>1, <1>2, <1>3, <1>4, <1>5, <1>6, <1>7, <1>8, <1>9, <1>10,
       <1>11, <1>12 DEF Next, Step

\* Edits are made in the order of the request, and answered for when stored.
LEMMA OrderStep == IndInv /\ [Next]_vars => InOrder'
  <1> SUFFICES ASSUME IndInv, [Next]_vars PROVE InOrder'
    OBVIOUS
  <1> USE DEF IndInv, TypeOK, InOrder, Inside, EditsOf, Edit
  <1>1. ASSUME NEW r \in Request, Start(r) PROVE InOrder'
    BY <1>1, JobType DEF Start
  <1>2. ASSUME NEW r \in Request, GetProjectLock(r) PROVE InOrder'
    BY <1>2, JobType DEF GetProjectLock
  <1>3. ASSUME NEW r \in Request, GetIamPolicy(r) PROVE InOrder'
    BY <1>3, JobType DEF GetIamPolicy
  <1>4. ASSUME NEW r \in Request, GetIamPolicyFails(r) PROVE InOrder'
    BY <1>4, JobType DEF GetIamPolicyFails, CallFails, AfterError
  <1>5. ASSUME NEW r \in Request, SetIamPolicy(r) PROVE InOrder'
    BY <1>5, JobType DEF SetIamPolicy, Stored
  <1>6. ASSUME NEW r \in Request, SetIamPolicyUnanswered(r) PROVE InOrder'
    BY <1>6, JobType DEF SetIamPolicyUnanswered, CallFails, Stored, AfterError
  <1>7. ASSUME NEW r \in Request, SetIamPolicyFails(r) PROVE InOrder'
    BY <1>7, JobType DEF SetIamPolicyFails, CallFails, AfterError
  <1>8. ASSUME NEW r \in Request, Return(r) PROVE InOrder'
    BY <1>8, JobType DEF Return
  <1>9. ASSUME NEW r \in Request, OrphanArrives(r) PROVE InOrder'
    BY <1>9, JobType DEF OrphanArrives, Stored
  <1>10. ASSUME NEW p \in Project, OutsideEdit(p) PROVE InOrder'
    BY <1>10, JobType DEF OutsideEdit
  <1>11. CASE Restart
    BY <1>11, JobType DEF Restart, Handled
  <1>12. CASE UNCHANGED vars
    BY <1>12, JobType DEF vars
  <1>13. QED
    BY <1>1, <1>2, <1>3, <1>4, <1>5, <1>6, <1>7, <1>8, <1>9, <1>10,
       <1>11, <1>12 DEF Next, Step

\* No version of the history is ahead of the policy.
LEMMA VersionStep == IndInv /\ [Next]_vars => PastVersions'
  <1> SUFFICES ASSUME IndInv, [Next]_vars PROVE PastVersions'
    OBVIOUS
  <1> USE DEF IndInv, TypeOK, PastVersions, Edit
  <1>1. ASSUME NEW r \in Request, Start(r) PROVE PastVersions'
    BY <1>1, JobType DEF Start
  <1>2. ASSUME NEW r \in Request, GetProjectLock(r) PROVE PastVersions'
    BY <1>2, JobType DEF GetProjectLock
  <1>3. ASSUME NEW r \in Request, GetIamPolicy(r) PROVE PastVersions'
    BY <1>3, JobType DEF GetIamPolicy
  <1>4. ASSUME NEW r \in Request, GetIamPolicyFails(r) PROVE PastVersions'
    BY <1>4, JobType DEF GetIamPolicyFails, CallFails
  <1>5. ASSUME NEW r \in Request, SetIamPolicy(r) PROVE PastVersions'
    BY <1>5, JobType DEF SetIamPolicy, Stored
  <1>6. ASSUME NEW r \in Request, SetIamPolicyUnanswered(r) PROVE PastVersions'
    BY <1>6, JobType DEF SetIamPolicyUnanswered, CallFails, Stored
  <1>7. ASSUME NEW r \in Request, SetIamPolicyFails(r) PROVE PastVersions'
    BY <1>7, JobType DEF SetIamPolicyFails, CallFails
  <1>8. ASSUME NEW r \in Request, Return(r) PROVE PastVersions'
    BY <1>8, JobType DEF Return
  <1>9. ASSUME NEW r \in Request, OrphanArrives(r) PROVE PastVersions'
    BY <1>9, JobType DEF OrphanArrives, Stored
  <1>10. ASSUME NEW p \in Project, OutsideEdit(p) PROVE PastVersions'
    BY <1>10, JobType DEF OutsideEdit
  <1>11. CASE Restart
    BY <1>11, JobType DEF Restart, Handled
  <1>12. CASE UNCHANGED vars
    BY <1>12, JobType DEF vars
  <1>13. QED
    BY <1>1, <1>2, <1>3, <1>4, <1>5, <1>6, <1>7, <1>8, <1>9, <1>10,
       <1>11, <1>12 DEF Next, Step
----------------------------------------------------------------------------
\* After the clear, the cluster's accounts hold no role.
LEMMA ClearedRoles ==
    ASSUME NEW pol \in Policy, NEW j \in Job, NEW n \in ServiceName
    PROVE  RolesOf(Cleared(pol, j), Account[j.cluster][n]) = {}
  BY DEF RolesOf, Cleared, AccountsOf

\* The template names an account for a role under its own placeholder only.
LEMMA NamedAccount ==
    ASSUME NEW j \in Job, NEW n \in ServiceName, NEW role \in Role
    PROVE  Account[j.cluster][n] \in Named(j, role) <=> <<n, role>> \in IamConf
  <1>1. j.cluster \in Cluster
    BY JobType
  <1>2. j.member # Account[j.cluster][n]
    BY AccountAssumption DEF AccountsOf
  <1>3. n \in Placeholder /\ n # IapAccount
    BY DEF ServiceName
  <1>4. ASSUME <<n, role>> \in IamConf
        PROVE  Account[j.cluster][n] \in Named(j, role)
    <2>1. Actual(j, n) = Account[j.cluster][n]
      BY <1>3 DEF Actual
    <2>2. QED
      BY <1>3, <1>4, <2>1 DEF Named
  <1>5. ASSUME Account[j.cluster][n] \in Named(j, role)
        PROVE  <<n, role>> \in IamConf
    <2>1. PICK k \in Placeholder :
             <<k, role>> \in IamConf /\ Actual(j, k) = Account[j.cluster][n]
      BY <1>5 DEF Named
    <2>2. k # IapAccount
      BY <1>2, <2>1 DEF Actual
    <2>3. k = n
      BY <1>1, <2>1, <2>2, AccountAssumption DEF Actual, ServiceName
    <2>4. QED
      BY <2>1, <2>3
  <1>6. QED
    BY <1>4, <1>5

\* The update gives accounts without roles, or with the wanted ones, just these.
LEMMA UpdatedRoles ==
    ASSUME NEW pol \in Policy, NEW j \in Job, NEW n \in ServiceName,
           RolesOf(pol, Account[j.cluster][n]) \in {{}, Wanted(j, n)}
    PROVE  RolesOf(Updated(pol, j), Account[j.cluster][n]) = Wanted(j, n)
  <1> DEFINE a == Account[j.cluster][n]
  <1>1. SUFFICES ASSUME NEW role \in Role
                 PROVE  a \in Updated(pol, j)[role] <=> role \in Wanted(j, n)
    BY DEF RolesOf, Wanted
  <1>2. a \in Named(j, role) <=> <<n, role>> \in IamConf
    BY NamedAccount
  <1>3. a \in pol[role] => role \in Wanted(j, n)
    BY DEF RolesOf
  <1>4. CASE j.op = "add"
    BY <1>2, <1>3, <1>4 DEF Updated, Wanted
  <1>5. CASE j.op # "add"
    BY <1>3, <1>5 DEF Updated, Wanted
  <1>6. QED
    BY <1>4, <1>5

\* What a stored edit of r leaves at the service.
LEMMA StoredPolicy ==
    ASSUME IndInv, NEW r \in Request, pc[r] \in {"write", "orphan"}, Stored(r)
    PROVE  /\ job[r] \in Job
           /\ job[r].project \in Project
           /\ policy[job[r].project] \in Policy
           /\ policy'[job[r].project]
                = Edited(policy[job[r].project], job[r], phase[r])
           /\ \A p \in Project \ {job[r].project} : policy'[p] = policy[p]
  <1> USE DEF IndInv, TypeOK
  <1>1. job[r] \in Job /\ job[r].project \in Project
    BY JobType
  <1>2. copy[r].policy = policy[job[r].project]
    BY <1>1 DEF CopyCurrent, Stored
  <1>3. QED
    BY <1>1, <1>2 DEF Stored

\* Between a clear and its update, nobody but the request itself or somebody
\* outside gives the accounts a role.
LEMMA CleanStep == IndInv /\ [Next]_vars => CleanSinceClear'
  <1> SUFFICES ASSUME IndInv, [Next]_vars PROVE CleanSinceClear'
    OBVIOUS
  <1> USE DEF IndInv, TypeOK, CleanSinceClear, Inside
  <1>1. ASSUME NEW r \in Request, Start(r) PROVE CleanSinceClear'
    BY <1>1, JobType DEF Start
  <1>2. ASSUME NEW r \in Request, GetProjectLock(r) PROVE CleanSinceClear'
    <2>1. phase[r] # "update"
      BY <1>2 DEF InOrder, GetProjectLock, FirstEdit
    <2>2. QED
      BY <1>2, <2>1, JobType DEF GetProjectLock
  <1>3. ASSUME NEW r \in Request, GetIamPolicy(r) PROVE CleanSinceClear'
    BY <1>3, JobType DEF GetIamPolicy
  <1>4. ASSUME NEW r \in Request, GetIamPolicyFails(r) PROVE CleanSinceClear'
    BY <1>4, JobType DEF GetIamPolicyFails, CallFails, AfterError
  <1>5. ASSUME NEW r \in Request, SetIamPolicy(r) PROVE CleanSinceClear'
    <2> DEFINE p == job[r].project
    <2>1. pc[r] = "write" /\ Stored(r)
      BY <1>5 DEF SetIamPolicy
    <2>2. SUFFICES ASSUME NEW s \in Request,
                          pc'[s] \in {"read", "write"}, phase'[s] = "update",
                          outside'[job'[s].project] <= doneAt'[s]["clear"],
                          NEW n \in ServiceName
                   PROVE  RolesOf(policy'[job'[s].project],
                                  Account[job'[s].cluster][n])
                            \in {{}, Wanted(job'[s], n)}
      OBVIOUS
    <2>3. CASE s = r
      <3>1. phase[r] = "clear"
        BY <1>5, <2>2, <2>3 DEF SetIamPolicy
      <3>2. policy'[p] = Cleared(policy[p], job[r])
        BY <2>1, <3>1, StoredPolicy DEF Edited
      <3>3. RolesOf(policy'[p], Account[job[r].cluster][n]) = {}
        BY <2>1, <3>2, StoredPolicy, ClearedRoles
      <3>4. QED
        BY <1>5, <2>3, <3>3 DEF SetIamPolicy
    <2>4. CASE s # r
      <3>1. pc[s] \in {"read", "write"} /\ phase[s] = "update" /\ job' = job
        BY <1>5, <2>2, <2>4 DEF SetIamPolicy
      <3>2. job[s].project # p
        BY <2>1, <2>4, <3>1 DEF LockExcludes
      <3>3. policy'[job[s].project] = policy[job[s].project]
        BY <2>1, <3>2, StoredPolicy, JobType
      <3>4. outside' = outside /\ doneAt'[s] = doneAt[s]
        BY <1>5, <2>4 DEF SetIamPolicy, Stored
      <3>5. QED
        BY <2>2, <3>1, <3>3, <3>4
    <2>5. QED
      BY <2>3, <2>4
  <1>6. ASSUME NEW r \in Request, SetIamPolicyUnanswered(r) PROVE CleanSinceClear'
    <2> DEFINE p == job[r].project
    <2>1. pc[r] = "write" /\ Stored(r)
      BY <1>6 DEF SetIamPolicyUnanswered
    <2>2. SUFFICES ASSUME NEW s \in Request,
                          pc'[s] \in {"read", "write"}, phase'[s] = "update",
                          outside'[job'[s].project] <= doneAt'[s]["clear"],
                          NEW n \in ServiceName
                   PROVE  RolesOf(policy'[job'[s].project],
                                  Account[job'[s].cluster][n])
                            \in {{}, Wanted(job'[s], n)}
      OBVIOUS
    <2>3. CASE s = r
      <3>1. /\ phase[r] = "update" /\ job' = job /\ outside' = outside
            /\ doneAt'[r]["clear"] = doneAt[r]["clear"]
        BY <1>6, <2>2, <2>3
        DEF SetIamPolicyUnanswered, CallFails, Stored, Edit
      <3>2. RolesOf(policy[p], Account[job[r].cluster][n]) \in {{}, Wanted(job[r], n)}
        BY <2>1, <2>2, <2>3, <3>1
      <3>3. policy'[p] = Updated(policy[p], job[r])
        BY <2>1, <3>1, StoredPolicy DEF Edited
      <3>4. policy[p] \in Policy /\ job[r] \in Job
        BY <2>1, StoredPolicy
      <3>5. RolesOf(Updated(policy[p], job[r]), Account[job[r].cluster][n])
              = Wanted(job[r], n)
        BY <3>2, <3>4, UpdatedRoles
      <3>6. QED
        BY <2>3, <3>1, <3>3, <3>5
    <2>4. CASE s # r
      <3>1. pc[s] \in {"read", "write"} /\ phase[s] = "update" /\ job' = job
        BY <1>6, <2>2, <2>4 DEF SetIamPolicyUnanswered, CallFails
      <3>2. job[s].project # p
        BY <2>1, <2>4, <3>1 DEF LockExcludes
      <3>3. policy'[job[s].project] = policy[job[s].project]
        BY <2>1, <3>2, StoredPolicy, JobType
      <3>4. outside' = outside /\ doneAt'[s] = doneAt[s]
        BY <1>6, <2>4 DEF SetIamPolicyUnanswered, Stored
      <3>5. QED
        BY <2>2, <3>1, <3>3, <3>4
    <2>5. QED
      BY <2>3, <2>4
  <1>7. ASSUME NEW r \in Request, SetIamPolicyFails(r) PROVE CleanSinceClear'
    BY <1>7, JobType DEF SetIamPolicyFails, CallFails, AfterError
  <1>8. ASSUME NEW r \in Request, Return(r) PROVE CleanSinceClear'
    BY <1>8, JobType DEF Return
  <1>9. ASSUME NEW r \in Request, OrphanArrives(r) PROVE CleanSinceClear'
    <2> DEFINE p == job[r].project
    <2>1. pc[r] = "orphan" /\ Stored(r) /\ p \in Project
      BY <1>9, JobType DEF OrphanArrives
    <2>2. SUFFICES ASSUME NEW s \in Request,
                          pc'[s] \in {"read", "write"}, phase'[s] = "update",
                          outside'[job'[s].project] <= doneAt'[s]["clear"],
                          NEW n \in ServiceName
                   PROVE  RolesOf(policy'[job'[s].project],
                                  Account[job'[s].cluster][n])
                            \in {{}, Wanted(job'[s], n)}
      OBVIOUS
    <2>3. /\ s # r /\ pc[s] \in {"read", "write"} /\ phase[s] = "update"
          /\ job' = job /\ doneAt'[s] = doneAt[s] /\ job[s].project \in Project
      BY <1>9, <2>2, JobType DEF OrphanArrives, Stored
    <2>4. job[s].project # p
      <3>1. outside'[p] = etag[p] + 1
        BY <1>9, <2>1 DEF OrphanArrives
      <3>2. job[s].project = p => doneAt[s]["clear"] <= etag[p]
        BY DEF PastVersions, Edit
      <3>3. doneAt[s]["clear"] \in Nat /\ etag[p] \in Nat
        BY <2>1 DEF Edit
      <3>4. QED
        BY <2>2, <2>3, <3>1, <3>2, <3>3
    <2>5. policy'[job[s].project] = policy[job[s].project]
      BY <2>1, <2>3, <2>4, StoredPolicy
    <2>6. outside'[job[s].project] = outside[job[s].project]
      BY <1>9, <2>1, <2>3, <2>4 DEF OrphanArrives
    <2>7. QED
      BY <2>2, <2>3, <2>5, <2>6
  <1>10. ASSUME NEW p \in Project, OutsideEdit(p) PROVE CleanSinceClear'
    <2>1. SUFFICES ASSUME NEW s \in Request,
                          pc[s] \in {"read", "write"}, phase[s] = "update",
                          outside'[job[s].project] <= doneAt[s]["clear"],
                          NEW n \in ServiceName
                   PROVE  RolesOf(policy'[job[s].project], Account[job[s].cluster][n])
                            \in {{}, Wanted(job[s], n)}
      BY <1>10 DEF OutsideEdit
    <2>2. job[s].project \in Project
      BY JobType
    <2>3. job[s].project # p
      <3>1. outside'[p] = etag[p] + 1
        BY <1>10 DEF OutsideEdit
      <3>2. job[s].project = p => doneAt[s]["clear"] <= etag[p]
        BY DEF PastVersions, Edit
      <3>3. doneAt[s]["clear"] \in Nat /\ etag[p] \in Nat
        BY DEF Edit
      <3>4. QED
        BY <2>1, <3>1, <3>2, <3>3
    <2>4. /\ policy'[job[s].project] = policy[job[s].project]
          /\ outside'[job[s].project] = outside[job[s].project]
      BY <1>10, <2>2, <2>3 DEF OutsideEdit
    <2>5. QED
      BY <2>1, <2>4
  <1>11. CASE Restart
    BY <1>11, JobType DEF Restart, Handled
  <1>12. CASE UNCHANGED vars
    BY <1>12 DEF vars
  <1>13. QED
    BY <1>1, <1>2, <1>3, <1>4, <1>5, <1>6, <1>7, <1>8, <1>9, <1>10,
       <1>11, <1>12 DEF Next, Step

----------------------------------------------------------------------------
\* Every step preserves the invariant.
LEMMA InvStep == IndInv /\ [Next]_vars => IndInv'
  BY TypeStep, LockStep, StaleStep, CopyStep, OrderStep, VersionStep, CleanStep
  DEF IndInv

THEOREM Invariant == Spec => []IndInv
  BY InitInv, InvStep, PTL DEF Spec

(***************************************************************************)
(* The project lock excludes: a request between Lock and Unlock is the one *)
(* the mutex of its project is held by.                                    *)
(***************************************************************************)
THEOREM LockCorrect == Spec => []LockExcludes
  <1>1. IndInv => LockExcludes
    BY DEF IndInv
  <1>2. QED
    BY <1>1, Invariant, PTL

(***************************************************************************)
(* A write is refused for its etag only because of an edit from outside    *)
(* the server, never because of another request.                           *)
(***************************************************************************)
THEOREM StaleCorrect == Spec => []StaleOnlyFromOutside
  <1>1. IndInv => StaleOnlyFromOutside
    BY DEF IndInv
  <1>2. QED
    BY <1>1, Invariant, PTL
----------------------------------------------------------------------------
\* Who changes a request's history is its own stored write.
LEMMA WhoStores ==
    ASSUME IndInv, [Next]_vars, NEW r \in Request, doneAt'[r] # doneAt[r]
    PROVE  /\ pc[r] \in {"write", "orphan"}
           /\ Stored(r)
           /\ \A e \in Edit : doneAt'[r][e] # doneAt[r][e] => e = phase[r]
  <1> USE DEF IndInv, TypeOK
  <1>1. ~ UNCHANGED doneAt
    OBVIOUS
  <1>2. PICK s \in Request : \/ SetIamPolicy(s)
                            \/ SetIamPolicyUnanswered(s)
                            \/ OrphanArrives(s)
    BY <1>1 DEF Next, Step, Start, GetProjectLock, GetIamPolicy,
       GetIamPolicyFails, SetIamPolicyFails, Return, OutsideEdit, Restart, vars
  <1>3. pc[s] \in {"write", "orphan"} /\ Stored(s)
    BY <1>2 DEF SetIamPolicy, SetIamPolicyUnanswered, OrphanArrives
  <1>4. s = r
    BY <1>3 DEF Stored
  <1>5. QED
    BY <1>3, <1>4 DEF Stored

\* An edit leaves every binding of identities that are not the request's alone.
LEMMA EditedOthers ==
    ASSUME NEW pol \in Policy, NEW j \in Job, NEW e \in Edit, NEW role \in Role
    PROVE  Edited(pol, j, e)[role] \ OwnAccounts(j) = pol[role] \ OwnAccounts(j)
  <1>1. Named(j, role) \subseteq OwnAccounts(j)
    BY PolicyAssumption DEF Named, Actual, OwnAccounts, AccountsOf, ServiceName
  <1>2. Cleared(pol, j)[role] \ OwnAccounts(j) = pol[role] \ OwnAccounts(j)
    BY DEF Cleared, OwnAccounts
  <1>3. Updated(pol, j)[role] \ OwnAccounts(j) = pol[role] \ OwnAccounts(j)
    BY <1>1 DEF Updated
  <1>4. Bound(pol, j)[role] \ OwnAccounts(j) = pol[role] \ OwnAccounts(j)
    BY DEF Bound, Policy, OwnAccounts
  <1>5. QED
    BY <1>2, <1>3, <1>4 DEF Edited, Edit

(***************************************************************************)
(* No write of the server takes away or adds a binding of an identity that *)
(* is not its request's own, however old the copy it was made from.        *)
(***************************************************************************)
THEOREM OthersKeptCorrect == Spec => OthersKept
  <1> DEFINE Kept ==
        \A r \in Request : doneAt'[r] # doneAt[r] =>
          \A p \in Project, role \in Role :
            policy'[p][role] \ OwnAccounts(job[r])
              = policy[p][role] \ OwnAccounts(job[r])
  <1>1. IndInv /\ [Next]_vars => Kept
    <2> SUFFICES ASSUME IndInv, [Next]_vars, NEW r \in Request,
                        doneAt'[r] # doneAt[r], NEW p \in Project, NEW role \in Role
                 PROVE  policy'[p][role] \ OwnAccounts(job[r])
                          = policy[p][role] \ OwnAccounts(job[r])
      OBVIOUS
    <2>1. pc[r] \in {"write", "orphan"} /\ Stored(r)
      BY WhoStores
    <2>2. phase[r] \in Edit
      BY DEF IndInv, TypeOK
    <2>3. CASE p = job[r].project
      BY <2>1, <2>2, <2>3, StoredPolicy, EditedOthers
    <2>4. CASE p # job[r].project
      BY <2>1, <2>4, StoredPolicy
    <2>5. QED
      BY <2>3, <2>4
  <1>2. QED
    BY <1>1, Invariant, PTL DEF Spec, OthersKept

(***************************************************************************)
(* When an update is stored and nobody outside the server edited the       *)
(* policy since the request's clear, the service accounts hold exactly the *)
(* template's roles.                                                       *)
(***************************************************************************)
THEOREM UpdateCorrect == Spec => UpdateIsExact
  <1> DEFINE Exact ==
        \A r \in Request :
          LET p == job[r].project IN
          /\ doneAt'[r]["update"] # doneAt[r]["update"]
          /\ pc[r] = "write"
          /\ outside[p] <= doneAt[r]["clear"]
          => \A n \in ServiceName :
               RolesOf(policy'[p], Account[job[r].cluster][n]) = Wanted(job[r], n)
  <1>1. IndInv /\ [Next]_vars => Exact
    <2> SUFFICES ASSUME IndInv, [Next]_vars, NEW r \in Request,
                        doneAt'[r]["update"] # doneAt[r]["update"], pc[r] = "write",
                        outside[job[r].project] <= doneAt[r]["clear"],
                        NEW n \in ServiceName
                 PROVE  RolesOf(policy'[job[r].project], Account[job[r].cluster][n])
                          = Wanted(job[r], n)
      OBVIOUS
    <2>1. Stored(r) /\ phase[r] = "update"
      BY WhoStores DEF Edit
    <2>2. RolesOf(policy[job[r].project], Account[job[r].cluster][n])
            \in {{}, Wanted(job[r], n)}
      BY <2>1 DEF IndInv, CleanSinceClear
    <2>3. /\ policy[job[r].project] \in Policy /\ job[r] \in Job
          /\ policy'[job[r].project] = Updated(policy[job[r].project], job[r])
      BY <2>1, StoredPolicy DEF Edited
    <2>4. QED
      BY <2>2, <2>3, UpdatedRoles
  <1>2. QED
    BY <1>1, Invariant, PTL DEF Spec, UpdateIsExact

----------------------------------------------------------------------------
\* PolicyEdits means the same functions.
LEMMA SameOperators ==
    /\ Edits!Edit = Edit
    /\ \A j : Edits!EditsOf(j) = EditsOf(j)
    /\ \A j : Edits!AnsweredBy(j) = AnsweredBy(j)
  BY DEF Edit, Edits!Edit, EditsOf, Edits!EditsOf, AnsweredBy, Edits!AnsweredBy

LEMMA SameEdited == \A pol, j, e : Edits!Edited(pol, j, e) = Edited(pol, j, e)
  <1> TAKE pol, j, e
  <1>1. Edits!Cleared(pol, j) = Cleared(pol, j)
    BY DEF Cleared, Edits!Cleared, AccountsOf, Edits!AccountsOf,
       ServiceName, Edits!ServiceName
  <1>2. \A role : Edits!Named(j, role) = Named(j, role)
    BY DEF Named, Edits!Named, Actual, Edits!Actual
  <1>3. Edits!Updated(pol, j) = Updated(pol, j)
    BY <1>2 DEF Updated, Edits!Updated
  <1>4. Edits!Bound(pol, j) = Bound(pol, j)
    BY DEF Bound, Edits!Bound
  <1>5. QED
    BY <1>1, <1>3, <1>4 DEF Edited, Edits!Edited

\* A stored write is an edit of the policy as it is.
LEMMA StoredApplies ==
    ASSUME IndInv, NEW r \in Request, pc[r] \in {"write", "orphan"}, Stored(r),
           UNCHANGED <<job, reply>>
    PROVE  Edits!Apply(r, phase[r])
  <1>1. reply[r] \in {"none", "lost"}
    BY DEF IndInv, InOrder, Inside
  <1>2. phase[r] \in EditsOf(job[r])
    BY DEF IndInv, InOrder
  <1>3. phase[r] = "update" => doneAt[r]["clear"] # 0
    BY DEF IndInv, InOrder
  <1>4. copy[r].policy = policy[job[r].project]
    BY DEF IndInv, CopyCurrent, Stored
  <1>5. QED
    BY <1>1, <1>2, <1>3, <1>4, SameOperators, SameEdited DEF Stored, Edits!Apply

(***************************************************************************)
(* The requests' reads, changes and writes implement the atomic edits of   *)
(* PolicyEdits.                                                            *)
(***************************************************************************)
THEOREM Refinement == Spec => ImplementsEdits
  <1>1. Init => Edits!Init
    BY SameOperators DEF Init, Policy, Edits!Init
  <1>2. IndInv /\ [Next]_vars => [Edits!Next]_(Edits!vars)
    <2> SUFFICES ASSUME IndInv, [Next]_vars
                 PROVE  Edits!Next \/ UNCHANGED Edits!vars
      OBVIOUS
    <2> USE DEF Edits!vars, Edits!Next
    <2>1. ASSUME NEW r \in Request, Start(r)
          PROVE  Edits!Next \/ UNCHANGED Edits!vars
      <3>1. reply[r] = "none"
        BY <2>1 DEF Start, IndInv, InOrder
      <3>2. CASE UNCHANGED reply
        BY <2>1, <3>2 DEF Start
      <3>3. CASE reply' = [reply EXCEPT ![r] = "error"]
        BY <2>1, <3>1, <3>3 DEF Start, Edits!Reply
      <3>4. QED
        BY <2>1, <3>2, <3>3 DEF Start
    <2>2. ASSUME NEW r \in Request,
                 \/ GetProjectLock(r)    \/ GetIamPolicy(r)
                 \/ GetIamPolicyFails(r) \/ SetIamPolicyFails(r)
          PROVE  Edits!Next \/ UNCHANGED Edits!vars
      BY <2>2 DEF GetProjectLock, GetIamPolicy, GetIamPolicyFails, SetIamPolicyFails
    <2>3. ASSUME NEW r \in Request,
                 SetIamPolicy(r) \/ SetIamPolicyUnanswered(r) \/ OrphanArrives(r)
          PROVE  Edits!Next \/ UNCHANGED Edits!vars
      <3>1. /\ pc[r] \in {"write", "orphan"} /\ Stored(r)
            /\ UNCHANGED <<job, reply>>
        BY <2>3 DEF SetIamPolicy, SetIamPolicyUnanswered, OrphanArrives
      <3>2. Edits!Apply(r, phase[r])
        BY <3>1, StoredApplies
      <3>3. phase[r] \in Edit
        BY DEF IndInv, TypeOK
      <3>4. QED
        BY <3>2, <3>3, SameOperators
    <2>4. ASSUME NEW r \in Request, Return(r)
          PROVE  Edits!Next \/ UNCHANGED Edits!vars
      <3>1. reply[r] = "none"
        BY <2>4 DEF Return, IndInv, InOrder, Inside
      <3>2. pc[r] = "succeed" => \A e \in AnsweredBy(job[r]) : doneAt[r][e] # 0
        BY DEF IndInv, InOrder, EditsOf, AnsweredBy
      <3>3. Edits!Reply(r, IF pc[r] = "succeed" THEN "ok" ELSE "error")
        BY <2>4, <3>1, <3>2, SameOperators DEF Return, Edits!Reply
      <3>4. QED
        BY <3>3
    <2>5. ASSUME NEW p \in Project, OutsideEdit(p)
          PROVE  Edits!Next \/ UNCHANGED Edits!vars
      <3>1. /\ policy' \in [Project -> Policy]
            /\ policy' = [policy EXCEPT ![p] = policy'[p]]
        BY <2>5 DEF OutsideEdit, IndInv, TypeOK, Policy
      <3>2. policy'[p] \in [Role -> SUBSET Member]
        BY <3>1 DEF Policy
      <3>3. Edits!Outside(p)
        BY <2>5, <3>1, <3>2 DEF OutsideEdit, Edits!Outside
      <3>4. QED
        BY <3>3
    <2>6. CASE Restart
      <3>1. Handled \in SUBSET {r \in Request : reply[r] = "none"}
        BY DEF Handled, IndInv, InOrder
      <3>2. Edits!Lose
        BY <2>6, <3>1 DEF Restart, Edits!Lose
      <3>3. QED
        BY <3>2
    <2>7. CASE UNCHANGED vars
      BY <2>7 DEF vars
    <2>8. QED
      BY <2>1, <2>2, <2>3, <2>4, <2>5, <2>6, <2>7 DEF Next, Step
  <1>3. QED
    BY <1>1, <1>2, Invariant, PTL DEF Spec, ImplementsEdits, Edits!Spec
=============================================================================
