------------------------------- MODULE Profile -------------------------------
(***************************************************************************)
(* The profile controller (components/profile-controller): one profile     *)
(* name and what belongs to it, the namespace of that name with the role   *)
(* "edit" and the role binding "default" in it; the API server, the        *)
(* informer caches, the work queue and Reconcile, one call at a time.      *)
(*                                                                         *)
(* An object is in the queue's reach only through its controller           *)
(* reference: what the controller found and did not make has none, and its *)
(* events wake nobody.  Two creations out of three end in an error by the  *)
(* controller's own hand, since what was found stays empty after them.     *)
(***************************************************************************)
EXTENDS Integers

CONSTANTS
    None,         \* no object
    MaxMoves      \* bound: what users do to the profile and others to the
                  \* rest, calls that fail, and restarts, together

ASSUME ProfileAssumption == MaxMoves \in Nat

Kind == {"profile", "ns", "role", "binding"}
Owned == Kind \ {"profile"}
Inside == {"role", "binding"}

VARIABLES
    obj,      \* the API server's objects
    rv,       \* its last resource version
    flying,   \* writes whose caller is no longer waiting
    news,     \* the kinds that the watches have events of
    seen,     \* the controller's caches
    queued,   \* is the name in the work queue?
    pc,       \* where Reconcile is
    instance, \* its copy of the profile
    write,    \* the write it is about to send
    edits,    \* the number of the last edit of the profile
    moves

server == <<obj, rv, news, flying>>
local == <<pc, instance, write>>
bounds == <<edits, moves>>
vars == <<server, seen, queued, local, bounds>>

(***************************************************************************)
(* A profile's spec.Owner is the number of the edit that named it, and so  *)
(* are a binding's subjects; 0 is somebody else.  owner: the profile that  *)
(* an object refers to as its controller, 0 for none.                      *)
(***************************************************************************)
User == 0 .. MaxMoves
ProfileObject == [uid : User \ {0}, user : User \ {0}, rv : Int]
Namespace == [owner : User, dying : BOOLEAN, rv : Int]
Role == [owner : User, rules : {"generated", "other"}, rv : Int]
\* ref: the binding's RoleRef is the role "edit", or another one
Binding == [owner : User, ref : {"edit", "other"}, user : User, rv : Int]

ASSUME NoneAssumption == None \notin ProfileObject \union Namespace \union Role \union Binding

Typed(store) ==
    /\ DOMAIN store = Kind
    /\ store["profile"] \in ProfileObject \union {None}
    /\ store["ns"] \in Namespace \union {None}
    /\ store["role"] \in Role \union {None}
    /\ store["binding"] \in Binding \union {None}

Write == [kind : {"ns"}, new : Namespace] \union
         [kind : {"role"}, new : Role] \union
         [kind : {"binding"}, new : Binding]

(***************************************************************************)
(* A namespace of the profile's name may be there before, and a binding    *)
(* "default" to another role in it.  (So may a role "edit"; the controller *)
(* would make its rules the generated ones, and its end wake nobody.)      *)
(***************************************************************************)
Found ==
    LET No == [k \in Kind |-> None]
        Ns == [No EXCEPT !["ns"] = [owner |-> 0, dying |-> FALSE, rv |-> 1]]
    IN  {No, Ns, [Ns EXCEPT !["binding"] =
                     [owner |-> 0, ref |-> "other", user |-> 0, rv |-> 1]]}

Init ==
    /\ obj \in Found
    /\ rv = 1
    /\ flying = {}
    /\ news = {}
    /\ seen = obj
    /\ queued = FALSE
    /\ pc = "idle" /\ instance = None /\ write = None
    /\ edits = 0 /\ moves = 0
-----------------------------------------------------------------------------
(* The API server *)

\* Something at kind k becomes o, under a new resource version.
Put(k, o) ==
    /\ rv' = rv + 1
    /\ obj' = [obj EXCEPT ![k] = [o EXCEPT !.rv = rv + 1]]
    /\ news' = news \union {k}

Drop(k) ==
    /\ obj' = [obj EXCEPT ![k] = None]
    /\ news' = news \union {k}
    /\ UNCHANGED rv

(***************************************************************************)
(* A write is a creation when its object has no resource version yet, and  *)
(* nothing is created in a namespace that is missing or being deleted.  A  *)
(* binding keeps its RoleRef.  An update that names no version would be    *)
(* taken whatever the server has; Reconcile sends none.                    *)
(***************************************************************************)
Unversioned == -1

Accepts(w) ==
    IF w.new.rv = 0
    THEN /\ obj[w.kind] = None
         /\ w.kind \in Inside => obj["ns"] # None /\ ~ obj["ns"].dying
    ELSE /\ obj[w.kind] # None
         /\ w.new.rv \in {obj[w.kind].rv, Unversioned}
         /\ w.kind = "binding" => w.new.ref = obj["binding"].ref

\* A write that changes nothing makes no version and no event.
Carry(w) ==
    /\ Accepts(w)
    /\ IF obj[w.kind] = w.new THEN UNCHANGED <<obj, rv, news>> ELSE Put(w.kind, w.new)

\* A write arrives after its caller gave up.
LateWrite(w) ==
    /\ w \in flying
    /\ flying' = flying \ {w}
    /\ IF Accepts(w) THEN Carry(w) ELSE UNCHANGED <<obj, rv, news>>
    /\ UNCHANGED <<seen, queued, local, bounds>>

Outside == UNCHANGED <<flying, seen, queued, local>>
Trouble == moves < MaxMoves /\ moves' = moves + 1
Edit == Trouble /\ edits' = edits + 1

CreateProfile ==
    /\ Edit
    /\ obj["profile"] = None
    /\ Put("profile", [uid |-> edits', user |-> edits', rv |-> 0])
    /\ Outside

\* The profile is handed to another user.
EditProfile ==
    /\ Edit
    /\ obj["profile"] # None
    /\ Put("profile", [obj["profile"] EXCEPT !.user = edits'])
    /\ Outside

DeleteProfile ==
    /\ Edit
    /\ obj["profile"] # None
    /\ Drop("profile")
    /\ Outside

\* Deletion of a namespace begins by marking it.
Delete(k) ==
    IF k = "ns" THEN ~ obj["ns"].dying /\ Put("ns", [obj["ns"] EXCEPT !.dying = TRUE])
    ELSE Drop(k)

\* Somebody deletes or edits what is there.
Tamper(k) ==
    /\ Trouble
    /\ obj[k] # None
    /\ \/ Delete(k)
       \/ k = "role" /\ Put(k, [obj[k] EXCEPT !.rules = "other"])
       \/ k = "binding" /\ Put(k, [obj[k] EXCEPT !.user = 0])
    /\ Outside /\ UNCHANGED edits

\* What refers to a profile that is gone as its controller is collected.
Orphan(o) ==
    /\ o # None
    /\ o.owner # 0
    /\ obj["profile"] # None => obj["profile"].uid # o.owner

(***************************************************************************)
(* While the news of the profile is still on its way the controller may    *)
(* make it again, and so on: collecting that early counts as trouble,      *)
(* which bounds rv.                                                        *)
(***************************************************************************)
Collect(k) ==
    /\ Orphan(obj[k])
    /\ Delete(k)
    /\ IF "profile" \in news THEN Trouble ELSE UNCHANGED moves
    /\ Outside /\ UNCHANGED edits

\* A namespace that is being deleted is emptied, then it goes.
Terminate(k) ==
    /\ obj["ns"] # None /\ obj["ns"].dying
    /\ obj[k] # None
    /\ k = "ns" => \A i \in Inside : obj[i] = None
    /\ Drop(k)
    /\ Outside /\ UNCHANGED bounds
-----------------------------------------------------------------------------
(* The watches *)

\* Mutant: the role bindings are not watched.
WakesUnbound(k, o) == k = "profile" \/ (k # "binding" /\ o # None /\ o.owner # 0)

\* An event of a profile queues it; one of anything else, its controller.
Wakes(k, o) == k = "profile" \/ (o # None /\ o.owner # 0)

\* A watch brings kind k up to date.  It tells of what it had, of what there
\* is, and perhaps of what was there in between.
Sync(k) ==
    /\ k \in news
    /\ news' = news \ {k}
    /\ seen' = [seen EXCEPT ![k] = obj[k]]
    /\ queued' \in {q \in BOOLEAN : queued \/ Wakes(k, seen[k]) \/ Wakes(k, obj[k]) => q}
    /\ UNCHANGED <<obj, rv, flying, local, bounds>>
-----------------------------------------------------------------------------
(* Reconcile *)

Go(s) == pc' = s

\* Reconcile returns; an error queues the profile again.
Return(error) ==
    /\ pc' = "idle"
    /\ instance' = None /\ write' = None
    /\ queued' = (queued \/ error)

Fails ==
    /\ Trouble
    /\ Return(TRUE)
    /\ UNCHANGED <<seen, edits>>

\* The profile is taken from the queue and read.
Take ==
    /\ pc = "idle"
    /\ queued
    /\ queued' = FALSE
    /\ IF seen["profile"] = None THEN UNCHANGED <<pc, instance>>
       ELSE Go("getNs") /\ instance' = seen["profile"]
    /\ UNCHANGED <<server, seen, write, bounds>>

NewNamespace == [owner |-> instance.uid, dying |-> FALSE, rv |-> 0]
NewRole == [owner |-> instance.uid, rules |-> "generated", rv |-> 0]
NewBinding == [owner |-> instance.uid, ref |-> "edit", user |-> instance.user, rv |-> 0]

Send(k, o, s) == write' = [kind |-> k, new |-> o] /\ Go(s)

\* "No need to update namespace": one that is there is taken as it is.
GetNamespace ==
    /\ pc = "getNs"
    /\ IF seen["ns"] = None THEN Send("ns", NewNamespace, "putNs")
       ELSE Go("getRole") /\ UNCHANGED write
    /\ UNCHANGED <<server, seen, queued, instance, bounds>>

\* Mutant: a role that is there is taken as it is, like a namespace.
RoleDiffersNever(found) == FALSE

RoleDiffers(found) == found.rules # "generated"

GetRole ==
    /\ pc = "getRole"
    /\ IF seen["role"] = None THEN Send("role", NewRole, "putRole")
       ELSE IF RoleDiffers(seen["role"])
            THEN Send("role", [seen["role"] EXCEPT !.rules = "generated"], "putRole")
            ELSE Go("getBinding") /\ UNCHANGED write
    /\ UNCHANGED <<server, seen, queued, instance, bounds>>

\* Mutant: the generated binding is sent in place of the one found.
RewrittenUnversioned(found) == [NewBinding EXCEPT !.owner = found.owner, !.rv = Unversioned]

\* What was found gets the wanted role and subject.
Rewritten(found) == [found EXCEPT !.ref = "edit", !.user = instance.user]

(***************************************************************************)
(* The server fills in the API group of a subject that names none, and     *)
(* then what is found always differs: an update may be sent although       *)
(* nothing changed.                                                        *)
(***************************************************************************)
GetBinding ==
    LET found == seen["binding"] IN
    /\ pc = "getBinding"
    /\ \/ /\ found = None
          /\ Send("binding", NewBinding, "putBinding")
          /\ UNCHANGED <<queued, instance>>
       \/ /\ found # None
          /\ Send("binding", Rewritten(found), "putBinding")
          /\ UNCHANGED <<queued, instance>>
       \/ /\ found # None /\ found.ref = "edit" /\ found.user = instance.user
          /\ Return(FALSE)
    /\ UNCHANGED <<server, seen, bounds>>

Putting == {"putNs", "putRole", "putBinding"}

(***************************************************************************)
(* After a creation the namespace is as wanted.  What was found of a role  *)
(* or a binding still is empty and differs from what is wanted, and the    *)
(* update of an object without a name is an error before it is sent.       *)
(***************************************************************************)
AfterCreation ==
    \/ pc = "putNs" /\ Go("getRole") /\ write' = None /\ UNCHANGED <<queued, instance>>
    \/ pc # "putNs" /\ Return(TRUE)

AfterUpdate ==
    \/ pc = "putRole" /\ Go("getBinding") /\ write' = None /\ UNCHANGED <<queued, instance>>
    \/ pc = "putBinding" /\ Return(FALSE)

CallOk ==
    /\ pc \in Putting
    /\ Carry(write)
    /\ IF write.new.rv = 0 THEN AfterCreation ELSE AfterUpdate
    /\ UNCHANGED <<flying, seen, bounds>>

\* A conflict, a name already taken, an object or a namespace that is gone, a
\* namespace that is being deleted, or a binding to another role.
CallRefused ==
    /\ pc \in Putting
    /\ ~ Accepts(write)
    /\ Return(TRUE)
    /\ UNCHANGED <<server, seen, bounds>>

\* The call fails, and its write was not done, was done, or is on its way.
CallFails ==
    /\ pc \in Putting
    /\ \/ UNCHANGED server
       \/ Carry(write) /\ UNCHANGED flying
       \/ flying' = flying \union {write} /\ UNCHANGED <<obj, rv, news>>
    /\ Fails

\* A read that fails.
GetFails ==
    /\ pc \in {"getNs", "getRole", "getBinding"}
    /\ Fails
    /\ UNCHANGED server

(***************************************************************************)
(* The controller starts again: it lists what there is, and is handed an   *)
(* event for each.  A write it had sent may still arrive.                  *)
(***************************************************************************)
Restart ==
    /\ Trouble
    /\ pc' = "idle" /\ instance' = None /\ write' = None
    /\ seen' = obj
    /\ news' = {}
    /\ queued' = (\E k \in Kind : obj[k] # None /\ Wakes(k, obj[k]))
    /\ \/ UNCHANGED flying
       \/ pc \in Putting /\ flying' = flying \union {write}
    /\ UNCHANGED <<obj, rv, edits>>

Reconcile ==
    \/ Take \/ GetNamespace \/ GetRole \/ GetBinding
    \/ CallOk \/ CallRefused \/ CallFails \/ GetFails

Next ==
    \/ Reconcile \/ Restart
    \/ \E k \in Kind : Sync(k)
    \/ \E k \in Owned : Collect(k) \/ Terminate(k) \/ Tamper(k)
    \/ CreateProfile \/ EditProfile \/ DeleteProfile
    \/ \E w \in flying : LateWrite(w)

Spec == Init /\ [][Next]_vars

(***************************************************************************)
(* The worker runs, watches deliver, garbage is collected and namespaces   *)
(* that are being deleted go.  Nothing is asked of users and late writes.  *)
(***************************************************************************)
FairSpec ==
    /\ Spec
    /\ WF_vars(Reconcile)
    /\ \A k \in Kind : WF_vars(Sync(k))
    /\ \A k \in Owned : WF_vars(Collect(k)) /\ WF_vars(Terminate(k))
-----------------------------------------------------------------------------
(* Properties *)

\* The types; a write is at hand exactly while it is being sent, and it is of
\* the kind that its stage writes.
TypeOK ==
    /\ Typed(obj) /\ Typed(seen)
    /\ rv \in Nat
    /\ flying \subseteq Write
    /\ news \subseteq Kind
    /\ queued \in BOOLEAN
    /\ pc \in {"idle", "getNs", "getRole", "getBinding"} \union Putting
    /\ pc # "idle" => instance \in ProfileObject
    /\ IF pc \in Putting
       THEN /\ write \in Write
            /\ write.kind = [putNs |-> "ns", putRole |-> "role", putBinding |-> "binding"][pc]
       ELSE write = None
    /\ moves \in 0 .. MaxMoves /\ edits \in 0 .. moves

\* The writes that the server may still get.
Writes == flying \union (IF pc \in Putting THEN {write} ELSE {})

\* Every binding, stored, cached or being written, is to the user of edit n or
\* of one before.
Bound(n) ==
    /\ obj["binding"] # None => obj["binding"].user <= n
    /\ seen["binding"] # None => seen["binding"].user <= n
    /\ \A w \in Writes : w.kind = "binding" => w.new.user <= n

\* The copies of the profile are in the order in which they are passed on.
InOrder ==
    /\ Bound(edits)
    /\ pc # "idle" => Bound(instance.user) /\ instance.user <= edits
    /\ seen["profile"] # None =>
          /\ Bound(seen["profile"].user) /\ seen["profile"].user <= edits
          /\ pc # "idle" => instance.user <= seen["profile"].user
    /\ obj["profile"] # None =>
          /\ Bound(obj["profile"].user) /\ obj["profile"].user <= edits
          /\ pc # "idle" => instance.user <= obj["profile"].user
          /\ seen["profile"] # None => seen["profile"].user <= obj["profile"].user

\* A binding's version is a past one; only a creation has none.
PastVersions ==
    /\ obj["binding"] # None => obj["binding"].rv \in 1 .. rv
    /\ seen["binding"] # None => seen["binding"].rv \in 1 .. rv
    /\ \A w \in Writes : w.kind = "binding" => w.new.rv \in 0 .. rv

\* A write that the server would accept is not older than what it replaces.
NoOldWrites ==
    obj["binding"] # None =>
        \A w \in Writes :
            w.kind = "binding" /\ w.new.rv = obj["binding"].rv
               => w.new.user >= obj["binding"].user

\* The order in which users are passed on, to bindings that others may delete.
Ordered == TypeOK /\ InOrder /\ PastVersions /\ NoOldWrites

\* What the watches have no event of is in the cache as it is.
Fresh == \A k \in Kind \ news : seen[k] = obj[k]

\* Nothing is in a namespace that is not there; every role is the controller's,
\* and so is every binding but one to another role, whose writes are in vain:
\* they name its version and the role "edit".
Known ==
    /\ obj["ns"] = None => obj["role"] = None /\ obj["binding"] = None
    /\ \A store \in {obj, seen} :
          /\ store["role"] # None => store["role"].owner # 0
          /\ store["binding"] # None =>
                (store["binding"].owner = 0 <=> store["binding"].ref = "other")
    /\ \A w \in Writes :
          /\ w.kind = "role" => w.new.owner # 0 /\ w.new.rules = "generated"
          /\ w.kind = "binding" =>
                /\ w.new.ref = "edit"
                /\ w.new.rv = 0 => w.new.owner # 0
                /\ obj["binding"] # None /\ w.new.rv = obj["binding"].rv
                      => w.new.owner = obj["binding"].owner
    /\ obj["binding"] # None /\ seen["binding"] # None
          /\ seen["binding"].rv = obj["binding"].rv
             => seen["binding"].owner = obj["binding"].owner

\* Reconcile will run, or run again: what the watches still have to tell has
\* the controller for its owner in the cache.
Alarm ==
    \/ queued \/ "profile" \in news
    \/ \E k \in news \intersect Owned : seen[k] # None /\ seen[k].owner # 0

RoleSeen == seen["role"] # None /\ seen["role"].rules = "generated"
BindingSeen ==
    /\ seen["binding"] # None /\ seen["binding"].owner # 0
    /\ seen["binding"].user = seen["profile"].user

\* While there is a profile, what Reconcile has passed without an alarm is in
\* the cache as wanted, or the write that is to make it so is in hand.
Watchful ==
    obj["profile"] # None =>
        \/ Alarm
        \/ /\ IF pc = "idle" THEN RoleSeen /\ BindingSeen ELSE instance = seen["profile"]
           /\ pc \in {"getBinding", "putBinding"} => RoleSeen
           /\ pc = "putRole" /\ write.new.rv # 0 => seen["role"] # None
           /\ pc = "putBinding" =>
                 /\ write.new.user = instance.user
                 /\ write.new.rv # 0 /\ write.new.owner # 0 =>
                       seen["binding"] # None /\ seen["binding"].owner # 0

(***************************************************************************)
(* The invariant behind NeverReverts and RestsWhenDone below: the          *)
(* profile's user is passed on in order, a write made from an old copy is  *)
(* one that the server refuses, and no step leaves the controller to rest  *)
(* on a cache that is not as wanted without an event that will wake it.    *)
(***************************************************************************)
IndInv == Ordered /\ Fresh /\ Known /\ Watchful

(***************************************************************************)
(* A profile has its namespace, and in it the role and the binding to its  *)
(* user; without a profile nothing is left that refers to one.  A role or  *)
(* binding that was there before the profile is nobody's to keep.          *)
(***************************************************************************)
Mirrors ==
    LET p == obj["profile"] IN
    IF p = None THEN \A k \in Owned : obj[k] # None => obj[k].owner = 0
    ELSE /\ \A k \in Owned : obj[k] # None /\ obj[k].owner \in {0, p.uid}
         /\ ~ obj["ns"].dying
         /\ obj["role"].owner # 0 => obj["role"].rules = "generated"
         /\ obj["binding"].owner # 0 =>
               obj["binding"].ref = "edit" /\ obj["binding"].user = p.user

(***************************************************************************)
(* The controller rests only when its work is done: whatever was lost in   *)
(* between (the updates that fail by the code's own hand, refused and late *)
(* writes, stale copies, namespaces that went), an event or a requeue is   *)
(* left to bring it back.                                                  *)
(***************************************************************************)
Pending ==
    \/ pc # "idle" \/ queued \/ news # {}
    \/ \E k \in Owned : Orphan(obj[k])
    \/ obj["ns"] # None /\ obj["ns"].dying

RestsWhenDone == Pending \/ Mirrors

(***************************************************************************)
(* A user who handed the profile on is not given it back: a binding's      *)
(* subject never becomes one of an earlier edit, however late a write is   *)
(* and whichever copies it was made from.                                  *)
(***************************************************************************)
NeverReverts ==
    [][ obj["binding"] # None /\ obj'["binding"] # None /\ obj'["binding"].user # 0
          => obj'["binding"].user >= obj["binding"].user ]_vars

(***************************************************************************)
(* When users and failures stop, the cluster comes to match the profile    *)
(* and stays so, although every first Reconcile of a profile fails twice.  *)
(***************************************************************************)
Converges == <>[]Mirrors
=============================================================================
