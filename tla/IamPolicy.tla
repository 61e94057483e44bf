----------------------------- MODULE IamPolicy -----------------------------
(***************************************************************************)
(* The deploy server's edits of a project's IAM policy: BindRole           *)
(* (initHandler.go) and ApplyIamPolicy (gcpUtils.go), run by concurrent    *)
(* requests under the project lock of GetProjectLock (ksServer.go), against *)
(* a policy service that other editors write to as well.                   *)
(*                                                                         *)
(* Every edit is a read (GetIamPolicy), a change of the copy, and a write  *)
(* (SetIamPolicy) that carries the etag of the copy.  BindRole does this   *)
(* once; ApplyIamPolicy does it twice, first to clear the bindings of the  *)
(* deployment's service accounts, then to add or remove the template's,    *)
(* and repeats each of the two on any error for at most a minute.          *)
(***************************************************************************)
EXTENDS PolicyOps, Naturals

CONSTANTS
    NoRequest,   \* the owner of a free lock
    MaxTries,    \* attempts that fit in backoff's MaxElapsedTime of a minute
    MaxOutside,  \* bound: edits by others, for each project
    MaxCrashes   \* bound: restarts of the server

ASSUME IamAssumption ==
    /\ NoRequest \notin Request
    /\ MaxTries \in Nat \ {0}
    /\ MaxOutside \in Nat
    /\ MaxCrashes \in Nat

VARIABLES
    policy,    \* policy[p][role]: the members bound to role, at the service
    etag,      \* etag[p]: version of the policy, at the service
    lock,      \* lock[p]: the request that holds the mutex of project p
    job,       \* job[r]: what request r asks for
    pc,        \* pc[r]: where request r is
    phase,     \* phase[r]: the edit r is making
    copy,      \* copy[r]: the policy and etag r read, until it has written
    tries,     \* tries[r]: failed attempts at this edit
    reply,     \* reply[r]: the answer, "none" before there is one
    edits,     \* edits[p]: edits by others so far (bound by MaxOutside)
    crashes,   \* restarts so far (bound by MaxCrashes)
    \* History, read by no action:
    outside,   \* outside[p]: etag of the last version stored by somebody else
    doneAt     \* doneAt[r][e]: etag of the version r's edit e stored, or 0

service == <<policy, etag>>
history == <<outside, doneAt>>
vars == <<policy, etag, lock, job, pc, phase, copy, tries, reply, edits,
          crashes, outside, doneAt>>

Policy == [Role -> SUBSET Member]
Copy == [policy: Policy, etag: Nat]
NoCopy == [policy |-> [role \in Role |-> {}], etag |-> 0]

(***************************************************************************)
(* "orphan": the server stopped while the write of r was on its way.       *)
(***************************************************************************)
Inside == {"read", "write", "succeed", "fail"}
PC == {"idle", "wait", "done", "orphan"} \union Inside

TypeOK ==
    /\ policy \in [Project -> Policy]
    /\ etag \in [Project -> Nat]
    /\ lock \in [Project -> Request \union {NoRequest}]
    /\ job \in [Request -> Job]
    /\ pc \in [Request -> PC]
    /\ phase \in [Request -> Edit]
    /\ copy \in [Request -> Copy]
    /\ tries \in [Request -> 0 .. (MaxTries - 1)]
    /\ reply \in [Request -> {"none", "ok", "error", "lost"}]
    /\ edits \in [Project -> Nat]
    /\ crashes \in Nat
    /\ outside \in [Project -> Nat]
    /\ doneAt \in [Request -> [Edit -> Nat]]

FirstEdit(j) == IF j.op = "bind" THEN "bind" ELSE "clear"

Init ==
    /\ policy \in [Project -> Policy]
    /\ etag = [p \in Project |-> 1]
    /\ lock = [p \in Project |-> NoRequest]
    /\ job \in [Request -> Job]
    /\ pc = [r \in Request |-> "idle"]
    /\ phase = [r \in Request |-> FirstEdit(job[r])]
    /\ copy = [r \in Request |-> NoCopy]
    /\ tries = [r \in Request |-> 0]
    /\ reply = [r \in Request |-> "none"]
    /\ edits = [p \in Project |-> 0]
    /\ crashes = 0
    /\ outside = [p \in Project |-> 0]
    /\ doneAt = [r \in Request |-> [e \in Edit |-> 0]]

----------------------------------------------------------------------------
(***************************************************************************)
(* The request arrives.  Before the lock is asked for, loading the template *)
(* or creating the client may fail, and the request is answered at once.   *)
(***************************************************************************)
Start(r) ==
    /\ pc[r] = "idle"
    /\ \/ /\ pc' = [pc EXCEPT ![r] = "wait"]
          /\ reply' = reply
       \/ /\ pc' = [pc EXCEPT ![r] = "done"]
          /\ reply' = [reply EXCEPT ![r] = "error"]
    /\ UNCHANGED <<service, lock, job, phase, copy, tries, edits, crashes, history>>

\* Mutant: each request makes a mutex of its own.
GetProjectLockUnguarded(r) ==
    /\ pc[r] = "wait"
    /\ lock' = [lock EXCEPT ![job[r].project] = r]
    /\ pc' = [pc EXCEPT ![r] = "read"]
    /\ UNCHANGED <<service, job, phase, copy, tries, reply, edits, crashes, history>>

(***************************************************************************)
(* GetProjectLock, then Lock.  The map of mutexes is filled under serverMux *)
(* and never emptied, so all requests of a project meet at one mutex.      *)
(***************************************************************************)
GetProjectLock(r) ==
    LET p == job[r].project IN
    /\ pc[r] = "wait"
    /\ lock[p] = NoRequest
    /\ lock' = [lock EXCEPT ![p] = r]
    /\ pc' = [pc EXCEPT ![r] = "read"]
    /\ UNCHANGED <<service, job, phase, copy, tries, reply, edits, crashes, history>>

\* Mutant: one attempt too many.
AfterErrorOnceMore(r) ==
    CASE phase[r] = "bind"       -> "fail"
      [] tries[r] < MaxTries     -> "read"
      [] phase[r] = "clear"      -> "fail"
      [] OTHER                   -> "succeed"

\* Mutant: the error of the clear phase is dropped too.
AfterErrorUnread(r) ==
    CASE phase[r] = "bind"       -> "fail"
      [] tries[r] + 1 < MaxTries -> "read"
      [] OTHER                   -> "succeed"

(***************************************************************************)
(* What an error of either call leads to.  BindRole gives up; ApplyIamPolicy *)
(* tries again, and when its time is over returns the error of the clear   *)
(* phase, but nil after the update phase, whose error nobody reads.        *)
(***************************************************************************)
AfterError(r) ==
    CASE phase[r] = "bind"          -> "fail"
      [] tries[r] + 1 < MaxTries    -> "read"
      [] phase[r] = "clear"         -> "fail"
      [] OTHER                      -> "succeed"

CallFails(r) ==
    /\ pc' = [pc EXCEPT ![r] = AfterError(r)]
    /\ tries' = [tries EXCEPT ![r] = IF AfterError(r) = "read" THEN @ + 1 ELSE @]
    /\ UNCHANGED phase

\* GetIamPolicy: the copy r changes next.
GetIamPolicy(r) ==
    LET p == job[r].project IN
    /\ pc[r] = "read"
    /\ copy' = [copy EXCEPT ![r] = [policy |-> policy[p], etag |-> etag[p]]]
    /\ pc' = [pc EXCEPT ![r] = "write"]
    /\ UNCHANGED <<service, lock, job, phase, tries, reply, edits, crashes, history>>

GetIamPolicyFails(r) ==
    /\ pc[r] = "read"
    /\ CallFails(r)
    /\ UNCHANGED <<service, lock, job, copy, reply, edits, crashes, history>>

(***************************************************************************)
(* The service takes a write whose etag is the policy's, as a new version. *)
(***************************************************************************)
Stored(r) ==
    LET p == job[r].project IN
    /\ copy[r].etag = etag[p]
    /\ policy' = [policy EXCEPT ![p] = Edited(copy[r].policy, job[r], phase[r])]
    /\ etag' = [etag EXCEPT ![p] = @ + 1]
    /\ doneAt' = [doneAt EXCEPT ![r][phase[r]] = etag[p] + 1]

\* Mutant: the policy is sent without the etag it was read with.
SetIamPolicyBlind(r) ==
    LET p == job[r].project IN
    /\ pc[r] = "write"
    /\ copy' = [copy EXCEPT ![r] = NoCopy]
    /\ policy' = [policy EXCEPT ![p] = Edited(copy[r].policy, job[r], phase[r])]
    /\ etag' = [etag EXCEPT ![p] = @ + 1]
    /\ doneAt' = [doneAt EXCEPT ![r][phase[r]] = etag[p] + 1]
    /\ IF phase[r] = "clear"
       THEN /\ phase' = [phase EXCEPT ![r] = "update"]
            /\ pc' = [pc EXCEPT ![r] = "read"]
            /\ tries' = [tries EXCEPT ![r] = 0]
       ELSE /\ pc' = [pc EXCEPT ![r] = "succeed"]
            /\ UNCHANGED <<phase, tries>>
    /\ UNCHANGED <<lock, job, reply, edits, crashes, outside>>

\* SetIamPolicy succeeds: on to the update, or to the end.
SetIamPolicy(r) ==
    /\ pc[r] = "write"
    /\ copy' = [copy EXCEPT ![r] = NoCopy]
    /\ Stored(r)
    /\ \/ /\ phase[r] = "clear"
          /\ phase' = [phase EXCEPT ![r] = "update"]
          /\ pc' = [pc EXCEPT ![r] = "read"]
          /\ tries' = [tries EXCEPT ![r] = 0]
       \/ /\ phase[r] # "clear"
          /\ pc' = [pc EXCEPT ![r] = "succeed"]
          /\ UNCHANGED <<phase, tries>>
    /\ UNCHANGED <<lock, job, reply, edits, crashes, outside>>

\* The write is stored, and its answer is lost: an error for the server.
SetIamPolicyUnanswered(r) ==
    /\ pc[r] = "write"
    /\ copy' = [copy EXCEPT ![r] = NoCopy]
    /\ Stored(r)
    /\ CallFails(r)
    /\ UNCHANGED <<lock, job, reply, edits, crashes, outside>>

\* The write is refused: the etag is out of date, or the service fails.
SetIamPolicyFails(r) ==
    /\ pc[r] = "write"
    /\ copy' = [copy EXCEPT ![r] = NoCopy]
    /\ CallFails(r)
    /\ UNCHANGED <<service, lock, job, reply, edits, crashes, history>>

\* Mutant: the handler returns without its Unlock.
ReturnLocked(r) ==
    /\ pc[r] \in {"succeed", "fail"}
    /\ reply' = [reply EXCEPT ![r] = IF pc[r] = "succeed" THEN "ok" ELSE "error"]
    /\ pc' = [pc EXCEPT ![r] = "done"]
    /\ UNCHANGED <<service, lock, job, phase, copy, tries, edits, crashes, history>>

\* The handler returns, and its deferred Unlock runs.
Return(r) ==
    /\ pc[r] \in {"succeed", "fail"}
    /\ reply' = [reply EXCEPT ![r] = IF pc[r] = "succeed" THEN "ok" ELSE "error"]
    /\ lock' = [lock EXCEPT ![job[r].project] = NoRequest]
    /\ pc' = [pc EXCEPT ![r] = "done"]
    /\ UNCHANGED <<service, job, phase, copy, tries, edits, crashes, history>>

----------------------------------------------------------------------------
\* Another editor of project p (the console, gcloud, kfctl) stores a version.
OutsideEdit(p) ==
    /\ edits[p] < MaxOutside
    /\ \E role \in Role, m \in Member :
         policy' = [policy EXCEPT ![p][role] =
                      IF m \in @ THEN @ \ {m} ELSE @ \union {m}]
    /\ etag' = [etag EXCEPT ![p] = @ + 1]
    /\ outside' = [outside EXCEPT ![p] = etag[p] + 1]
    /\ edits' = [edits EXCEPT ![p] = @ + 1]
    /\ UNCHANGED <<lock, job, pc, phase, copy, tries, reply, crashes, doneAt>>

Handled == {r \in Request : pc[r] \in {"wait"} \union Inside}

(***************************************************************************)
(* The server stops and starts again (one replica, no state on disk): its  *)
(* requests and mutexes are gone.  A write that was on its way may arrive. *)
(***************************************************************************)
Restart ==
    /\ crashes < MaxCrashes
    /\ crashes' = crashes + 1
    /\ lock' = [p \in Project |-> NoRequest]
    /\ pc' = [r \in Request |-> CASE pc[r] = "write" -> "orphan"
                                  [] r \in Handled /\ pc[r] # "write" -> "done"
                                  [] OTHER -> pc[r]]
    /\ reply' = [r \in Request |-> IF r \in Handled THEN "lost" ELSE reply[r]]
    /\ UNCHANGED <<service, job, phase, copy, tries, edits, history>>

\* The write of a request that is lost arrives, if its etag still is current.
OrphanArrives(r) ==
    /\ pc[r] = "orphan"
    /\ Stored(r)
    /\ outside' = [outside EXCEPT ![job[r].project] = etag[job[r].project] + 1]
    /\ pc' = [pc EXCEPT ![r] = "done"]
    /\ copy' = [copy EXCEPT ![r] = NoCopy]
    /\ UNCHANGED <<lock, job, phase, tries, reply, edits, crashes>>

Step(r) ==
    \/ Start(r)
    \/ GetProjectLock(r)
    \/ GetIamPolicy(r)
    \/ GetIamPolicyFails(r)
    \/ SetIamPolicy(r)
    \/ SetIamPolicyUnanswered(r)
    \/ SetIamPolicyFails(r)
    \/ Return(r)

Next ==
    \/ \E r \in Request : Step(r) \/ OrphanArrives(r)
    \/ \E p \in Project : OutsideEdit(p)
    \/ Restart

Spec == Init /\ [][Next]_vars

(***************************************************************************)
(* A handler goroutine that can run does run, and Unlock wakes a waiter.   *)
(***************************************************************************)
FairSpec == Spec /\ \A r \in Request : WF_vars(Step(r))
----------------------------------------------------------------------------
(* Properties *)

\* The mutex of GetProjectLock excludes: who is between Lock and Unlock of a
\* project is the one its mutex is held by.
LockExcludes ==
    \A r \in Request : pc[r] \in Inside => lock[job[r].project] = r

(***************************************************************************)
(* "Even with lock here, there's still very small chance that updating     *)
(* project iam policy will fail if other users are editing policy directly *)
(* at the same time" (initHandler.go:43): a copy goes out of date between  *)
(* the read and the write only by an edit from outside this server, or by  *)
(* the write itself, never by another request.                             *)
(***************************************************************************)
StaleOnlyFromOutside ==
    \A r \in Request :
        LET p == job[r].project IN
        pc[r] = "write" /\ copy[r].etag # etag[p] => copy[r].etag < outside[p]

\* The roles the template grants a service account of cluster c.
Wanted(j, n) ==
    {role \in Role : j.op = "add" /\ <<n, role>> \in IamConf}
RolesOf(pol, m) == {role \in Role : m \in pol[role]}

(***************************************************************************)
(* ApplyIamPolicy clears first because "those bindings could be leftover   *)
(* from previous actions" (gcpUtils.go:144): when its update is stored and *)
(* nobody outside the server edited the policy since its clear was, the    *)
(* service accounts hold exactly the template's roles, whatever the other  *)
(* requests did meanwhile and however often the service failed.            *)
(***************************************************************************)
UpdateIsExact ==
    [][\A r \in Request :
         LET p == job[r].project IN
         /\ doneAt'[r]["update"] # doneAt[r]["update"]
         /\ pc[r] = "write"
         /\ outside[p] <= doneAt[r]["clear"]
         => \A n \in ServiceName :
              RolesOf(policy'[p], Account[job[r].cluster][n]) = Wanted(job[r], n)]_vars

(***************************************************************************)
(* No edit of the server, on time or late, touches the bindings of an      *)
(* identity that is not the request's own: what other editors stored since *)
(* is never written over by an older copy.                                 *)
(***************************************************************************)
OwnAccounts(j) == AccountsOf(j.cluster) \union {j.member}

OthersKept ==
    [][\A r \in Request : doneAt'[r] # doneAt[r] =>
         \A p \in Project, role \in Role :
            policy'[p][role] \ OwnAccounts(job[r])
              = policy[p][role] \ OwnAccounts(job[r])]_vars

(***************************************************************************)
(* Why these hold: the parts of an invariant that every step preserves.    *)
(* A copy whose etag is current is the current policy (CopyCurrent); edits *)
(* are made in order and answers follow them (InOrder); versions in the    *)
(* history are past ones (PastVersions); between a request's clear and its *)
(* update the accounts hold nothing, or what its own unanswered update     *)
(* gave them (CleanSinceClear).                                            *)
(***************************************************************************)
CopyCurrent ==
    \A r \in Request :
        LET p == job[r].project IN
        pc[r] \in {"write", "orphan"} =>
            /\ copy[r].etag <= etag[p]
            /\ copy[r].etag = etag[p] => copy[r].policy = policy[p]

InOrder ==
    \A r \in Request :
        /\ phase[r] \in EditsOf(job[r])
        /\ phase[r] = "update" => doneAt[r]["clear"] # 0
        /\ pc[r] = "succeed" /\ phase[r] = "bind" => doneAt[r]["bind"] # 0
        /\ pc[r] = "succeed" => phase[r] # "clear"
        /\ pc[r] \in {"idle", "wait"} => phase[r] = FirstEdit(job[r])
        /\ pc[r] \in {"idle", "wait"} \union Inside => reply[r] = "none"
        /\ pc[r] = "orphan" => reply[r] = "lost"

PastVersions ==
    /\ \A p \in Project : outside[p] <= etag[p]
    /\ \A r \in Request, e \in Edit : doneAt[r][e] <= etag[job[r].project]

CleanSinceClear ==
    \A r \in Request :
        LET p == job[r].project IN
        /\ pc[r] \in {"read", "write"}
        /\ phase[r] = "update"
        /\ outside[p] <= doneAt[r]["clear"]
        => \A n \in ServiceName :
             RolesOf(policy[p], Account[job[r].cluster][n]) \in {{}, Wanted(job[r], n)}

IndInv ==
    /\ TypeOK
    /\ LockExcludes
    /\ StaleOnlyFromOutside
    /\ CopyCurrent
    /\ InOrder
    /\ PastVersions
    /\ CleanSinceClear

(***************************************************************************)
(* The atomic edits this implements.                                       *)
(***************************************************************************)
Edits == INSTANCE PolicyEdits WITH
    version <- etag, stored <- doneAt

ImplementsEdits == Edits!Spec

\* Every request that arrived gets its answer or is lost with the server: no
\* retry goes on for ever, and a project's mutex is given back.
Answered == \A r \in Request : pc[r] = "wait" ~> pc[r] \in {"done", "orphan"}

(***************************************************************************)
(* What finishDeployment takes a nil of ApplyIamPolicy for: its caller     *)
(* treats an IAM failure as the end of the deployment (ksServer.go:1251).  *)
(* Expected to fail: the update's error is dropped.                        *)
(***************************************************************************)
OkMeansUpdated ==
    \A r \in Request :
        reply[r] = "ok" /\ job[r].op # "bind" => doneAt[r]["update"] # 0
=============================================================================
