------------------------------ MODULE Notebook ------------------------------
(***************************************************************************)
(* The notebook controller (components/notebook-controller): one notebook  *)
(* name, its StatefulSet, its Service and its pod, kept by the API server; *)
(* the informer caches the controller reads them from, which lag behind;   *)
(* the work queue, which holds the name at most once; and Reconcile, one   *)
(* call of the API at a time.                                              *)
(*                                                                         *)
(* A write is refused unless it carries the resource version the server    *)
(* has (creations: unless nothing is there).  A call may fail, and then    *)
(* its write was done, was not, or is still on its way.                    *)
(*                                                                         *)
(* The template of a notebook is the number of the user's edit that made   *)
(* it; the same number stands for the pod template and the port that       *)
(* generateStatefulSet and generateService make of it.                     *)
(***************************************************************************)
EXTENDS Integers

CONSTANTS
    None,         \* no object
    MaxEdits,     \* what users do to the notebook
    MaxTrouble    \* changes of the pod, what others do to the StatefulSet and
                  \* the Service, calls that fail, and restarts

ASSUME NotebookAssumption == MaxEdits \in Nat /\ MaxTrouble \in Nat

Kind == {"nb", "sts", "svc", "pod"}

VARIABLES
    obj,      \* the API server's objects
    rv,       \* its last resource version
    flying,   \* writes whose caller is no longer waiting
    news,     \* the kinds that the watches have events of
    seen,     \* the controller's caches
    queued,   \* is the name in the work queue?
    pc,       \* where Reconcile is
    instance, \* its copy of the notebook
    ready,    \* foundStateful.Status.ReadyReplicas
    write,    \* the write it is about to send
    edits, trouble

server == <<obj, rv, news, flying>>
local == <<pc, instance, ready, write>>
bounds == <<edits, trouble>>
vars == <<server, seen, queued, local, bounds>>

Gen == 0 .. MaxEdits
Owner == 1 .. MaxEdits
ContainerState == {"waiting", "running"}
Ready == {0, 1}

NotebookObject == [uid : Owner, gen : Gen, cond : {"none", "Ready"}, ready : Ready,
                   state : ContainerState \union {"none"}, rv : Int]
StatefulSet == [owner : Owner, gen : Gen, ready : Ready, rv : Int]
\* mapping: the annotation that ambassador reads
Service == [owner : Owner, gen : Gen, mapping : {"own", "edited", "absent"}, rv : Int]
\* "starting": a pod without container statuses
Pod == ContainerState \union {"starting"}

Typed(store) ==
    /\ DOMAIN store = Kind
    /\ store["nb"] \in NotebookObject \union {None}
    /\ store["sts"] \in StatefulSet \union {None}
    /\ store["svc"] \in Service \union {None}
    /\ store["pod"] \in Pod \union {None}

Write == [kind : {"nb"}, new : NotebookObject] \union
         [kind : {"sts"}, new : StatefulSet] \union
         [kind : {"svc"}, new : Service]

Init ==
    /\ obj = [k \in Kind |-> None]
    /\ rv = 0
    /\ flying = {}
    /\ news = {}
    /\ seen = obj
    /\ queued = FALSE
    /\ pc = "idle" /\ instance = None /\ ready = 0 /\ write = None
    /\ edits = 0 /\ trouble = 0
-----------------------------------------------------------------------------
(* The API server *)

\* Something at kind k becomes o, under a new resource version.
Put(k, o) ==
    /\ rv' = rv + 1
    /\ obj' = [obj EXCEPT ![k] = [o EXCEPT !.rv = rv + 1]]
    /\ news' = news \union {k}

Drop(k) ==
    /\ obj' = [obj EXCEPT ![k] = None]
    /\ news' = news \union {k}
    /\ UNCHANGED rv

(***************************************************************************)
(* A write is a creation when its object has no resource version yet.  An  *)
(* update that names no version would be taken whatever the server has;    *)
(* Reconcile sends none.                                                   *)
(***************************************************************************)
Unversioned == -1

Accepts(w) ==
    IF w.new.rv = 0 THEN obj[w.kind] = None
    ELSE obj[w.kind] # None /\ w.new.rv \in {obj[w.kind].rv, Unversioned}

\* A write that changes nothing makes no version and no event.
Carry(w) ==
    /\ Accepts(w)
    /\ IF obj[w.kind] = w.new THEN UNCHANGED <<obj, rv, news>> ELSE Put(w.kind, w.new)

\* A write arrives after its caller gave up.
LateWrite(w) ==
    /\ w \in flying
    /\ flying' = flying \ {w}
    /\ IF Accepts(w) THEN Carry(w) ELSE UNCHANGED <<obj, rv, news>>
    /\ UNCHANGED <<seen, queued, local, bounds>>

Outside == UNCHANGED <<flying, seen, queued, local>>
Trouble == trouble < MaxTrouble /\ trouble' = trouble + 1

CreateNotebook ==
    /\ edits < MaxEdits
    /\ edits' = edits + 1
    /\ obj["nb"] = None
    /\ Put("nb", [uid |-> edits', gen |-> edits', cond |-> "none", ready |-> 0,
                  state |-> "none", rv |-> 0])
    /\ Outside /\ UNCHANGED trouble

EditNotebook ==
    /\ edits < MaxEdits
    /\ edits' = edits + 1
    /\ obj["nb"] # None
    /\ Put("nb", [obj["nb"] EXCEPT !.gen = edits'])
    /\ Outside /\ UNCHANGED trouble

DeleteNotebook ==
    /\ edits < MaxEdits
    /\ edits' = edits + 1
    /\ obj["nb"] # None
    /\ Drop("nb")
    /\ Outside /\ UNCHANGED trouble

\* Somebody deletes or edits what the controller made.
Tamper(k) ==
    /\ Trouble
    /\ obj[k] # None
    /\ \/ Drop(k)
       \/ Put(k, [obj[k] EXCEPT !.gen = 0])
       \/ k = "svc" /\ Put(k, [obj[k] EXCEPT !.mapping = "edited"])
    /\ Outside /\ UNCHANGED edits

\* Somebody removes the annotation with the mapping.
DropMapping ==
    /\ Trouble
    /\ obj["svc"] # None /\ obj["svc"].mapping # "absent"
    /\ Put("svc", [obj["svc"] EXCEPT !.mapping = "absent"])
    /\ Outside /\ UNCHANGED edits

\* The StatefulSet's pod comes, changes and goes, and with it its readiness.
PodChanges ==
    /\ Trouble
    /\ \/ /\ \E p \in Pod \union {None} :
                /\ p # obj["pod"]
                /\ p # None => obj["sts"] # None
                /\ obj' = [obj EXCEPT !["pod"] = p]
          /\ news' = news \union {"pod"}
          /\ UNCHANGED rv
       \/ /\ obj["sts"] # None
          /\ Put("sts", [obj["sts"] EXCEPT !.ready = 1 - @])
    /\ Outside /\ UNCHANGED edits

(***************************************************************************)
(* What belongs to a notebook that is gone is collected.  While the news   *)
(* of the notebook is still on its way the controller may make it again,   *)
(* and so on: collecting that early counts as trouble, which bounds rv.    *)
(***************************************************************************)
Collect(k) ==
    /\ obj[k] # None
    /\ IF k = "pod" THEN obj["sts"] = None
       ELSE obj["nb"] # None => obj["nb"].uid # obj[k].owner
    /\ Drop(k)
    /\ IF k # "pod" /\ "nb" \in news THEN Trouble ELSE UNCHANGED trouble
    /\ Outside /\ UNCHANGED edits

\* A watch brings kind k up to date, and its handler queues the notebook.
Sync(k) ==
    /\ k \in news
    /\ news' = news \ {k}
    /\ seen' = [seen EXCEPT ![k] = obj[k]]
    /\ queued' = TRUE
    /\ UNCHANGED <<obj, rv, flying, local, bounds>>
-----------------------------------------------------------------------------
(* Reconcile *)

Go(s) == pc' = s

\* Reconcile returns; an error queues the notebook again.
Return(error) ==
    /\ pc' = "idle"
    /\ instance' = None /\ ready' = 0 /\ write' = None
    /\ queued' = (queued \/ error)

Fails ==
    /\ Trouble
    /\ Return(TRUE)
    /\ UNCHANGED <<seen, edits>>

\* The notebook is taken from the queue and read.
Take ==
    /\ pc = "idle"
    /\ queued
    /\ queued' = FALSE
    /\ IF seen["nb"] = None THEN UNCHANGED <<pc, instance>>
       ELSE Go("getSts") /\ instance' = seen["nb"]
    /\ UNCHANGED <<server, seen, ready, write, bounds>>

\* generateStatefulSet and generateService, owned by the notebook.
NewStatefulSet == [owner |-> instance.uid, gen |-> instance.gen, ready |-> 0, rv |-> 0]
NewService == [owner |-> instance.uid, gen |-> instance.gen, mapping |-> "own", rv |-> 0]

\* Mutant: the generated StatefulSet is sent in place of the one found.
UpdatedUnversioned(sts) == [NewStatefulSet EXCEPT !.ready = sts.ready, !.rv = Unversioned]

\* CopyStatefulSetFields: the pod spec of the notebook, on what was found.
Updated(sts) == [sts EXCEPT !.gen = instance.gen]

\* Mutant: the ports are not compared.
ServiceDiffersBlind(svc) == svc.mapping = "edited"

(***************************************************************************)
(* CopyServiceFields compares the annotations that the service found has,  *)
(* so one that it lacks is not missed; and the selector and the ports.     *)
(***************************************************************************)
ServiceDiffers(svc) == svc.mapping = "edited" \/ svc.gen # instance.gen

Send(k, o, s) == write' = [kind |-> k, new |-> o] /\ Go(s)

(***************************************************************************)
(* What was found also has the fields that the server defaults, and those  *)
(* make it differ from the generated pod spec unless the notebook gives    *)
(* them all: an update may be sent although nothing changed.               *)
(***************************************************************************)
GetStatefulSet ==
    /\ pc = "getSts"
    /\ \/ /\ seen["sts"] = None
          /\ ready' = 0
          /\ Send("sts", NewStatefulSet, "putSts")
       \/ /\ seen["sts"] # None
          /\ ready' = seen["sts"].ready
          /\ \/ Send("sts", Updated(seen["sts"]), "putSts")
             \/ seen["sts"].gen = instance.gen /\ Go("getSvc") /\ UNCHANGED write
    /\ UNCHANGED <<server, seen, queued, instance, bounds>>

GetService ==
    /\ pc = "getSvc"
    /\ IF seen["svc"] = None THEN Send("svc", NewService, "putSvc")
       ELSE IF ServiceDiffers(seen["svc"])
            THEN Send("svc", [seen["svc"] EXCEPT !.gen = instance.gen, !.mapping = "own"], "putSvc")
            ELSE Go("cond") /\ UNCHANGED write
    /\ UNCHANGED <<server, seen, queued, instance, ready, bounds>>

\* The condition "Ready" is set once, whatever the pod does.
SetCondition ==
    /\ pc = "cond"
    /\ IF instance.cond = "Ready" THEN Go("ready") /\ UNCHANGED write
       ELSE Send("nb", [instance EXCEPT !.cond = "Ready"], "putCond")
    /\ UNCHANGED <<server, seen, queued, instance, ready, bounds>>

SetReadyReplicas ==
    /\ pc = "ready"
    /\ IF instance.ready = ready THEN Go("getPod") /\ UNCHANGED write
       ELSE Send("nb", [instance EXCEPT !.ready = ready], "putReady")
    /\ UNCHANGED <<server, seen, queued, instance, ready, bounds>>

\* Mutant: the first container status is read though there may be none.
HasStatusUnchecked(p) == p # None

HasStatus(p) == p \in ContainerState

(***************************************************************************)
(* The container states compared are structs of pointers, never the same   *)
(* ones: the status is sent again even when it says the same.              *)
(***************************************************************************)
GetPod ==
    /\ pc = "getPod"
    /\ IF HasStatus(seen["pod"])
       THEN /\ Send("nb", [instance EXCEPT !.state = seen["pod"]], "putState")
            /\ UNCHANGED <<queued, instance, ready>>
       ELSE Return(FALSE)
    /\ UNCHANGED <<server, seen, bounds>>

Putting == {"putSts", "putSvc", "putCond", "putReady", "putState"}
NextStage == [putSts |-> "getSvc", putSvc |-> "cond", putCond |-> "ready", putReady |-> "getPod"]

\* The call answers; a status update answers with the notebook it stored.
CallOk ==
    /\ pc \in Putting
    /\ Carry(write)
    /\ IF pc = "putState" THEN Return(FALSE)
       ELSE /\ Go(NextStage[pc])
            /\ instance' = IF write.kind = "nb" THEN obj'["nb"] ELSE instance
            /\ write' = None
            /\ UNCHANGED <<queued, ready>>
    /\ UNCHANGED <<flying, seen, bounds>>

\* A conflict, a name already taken, or an object that is gone.
CallRefused ==
    /\ pc \in Putting
    /\ ~ Accepts(write)
    /\ Return(TRUE)
    /\ UNCHANGED <<server, seen, bounds>>

\* The call fails, and its write was not done, was done, or is on its way.
CallFails ==
    /\ pc \in Putting
    /\ \/ UNCHANGED server
       \/ Carry(write) /\ UNCHANGED flying
       \/ flying' = flying \union {write} /\ UNCHANGED <<obj, rv, news>>
    /\ Fails

\* A read that fails.
GetFails ==
    /\ pc \in {"getSts", "getSvc", "getPod"}
    /\ Fails
    /\ UNCHANGED server

(***************************************************************************)
(* The controller starts again: it lists what there is, and is handed an   *)
(* event for each.  A write it had sent may still arrive.                  *)
(***************************************************************************)
Restart ==
    /\ Trouble
    /\ pc' = "idle" /\ instance' = None /\ ready' = 0 /\ write' = None
    /\ seen' = obj
    /\ news' = {}
    /\ queued' = (\E k \in Kind : obj[k] # None)
    /\ \/ UNCHANGED flying
       \/ pc \in Putting /\ flying' = flying \union {write}
    /\ UNCHANGED <<obj, rv, edits>>

Reconcile ==
    \/ Take \/ GetStatefulSet \/ GetService \/ SetCondition
    \/ SetReadyReplicas \/ GetPod \/ CallOk \/ CallRefused
    \/ CallFails \/ GetFails

Next ==
    \/ Reconcile \/ Restart
    \/ \E k \in Kind : Sync(k)
    \/ \E k \in {"sts", "svc", "pod"} : Collect(k)
    \/ \E k \in {"sts", "svc"} : Tamper(k)
    \/ DropMapping \/ PodChanges
    \/ CreateNotebook \/ EditNotebook \/ DeleteNotebook
    \/ \E w \in flying : LateWrite(w)

Spec == Init /\ [][Next]_vars

(***************************************************************************)
(* The worker runs, watches deliver and garbage is collected.  Nothing is  *)
(* asked of users, pods, or writes still on their way.                     *)
(***************************************************************************)
FairSpec ==
    /\ Spec
    /\ WF_vars(Reconcile)
    /\ \A k \in Kind : WF_vars(Sync(k))
    /\ \A k \in {"sts", "svc", "pod"} : WF_vars(Collect(k))
-----------------------------------------------------------------------------
(* Properties *)

\* The types; a write is at hand exactly while it is being sent.
TypeOK ==
    /\ Typed(obj) /\ Typed(seen)
    /\ rv \in Nat
    /\ flying \subseteq Write
    /\ news \subseteq Kind
    /\ queued \in BOOLEAN
    /\ pc \in {"idle", "getSts", "getSvc", "cond", "ready", "getPod"} \union Putting
    /\ pc # "idle" => instance \in NotebookObject
    /\ ready \in Ready
    /\ pc \in Putting =>
          /\ write \in Write
          /\ write.kind = "sts" <=> pc = "putSts"
          /\ write.kind = "svc" <=> pc = "putSvc"
    /\ edits \in 0 .. MaxEdits
    /\ trouble \in 0 .. MaxTrouble

(***************************************************************************)
(* The pod template of a StatefulSet never goes back to that of an earlier *)
(* edit, whichever copies Reconcile worked from and however late a write   *)
(* arrives; only somebody else's edit can undo it.                         *)
(***************************************************************************)
NeverReverts ==
    [][ obj["sts"] # None /\ obj'["sts"] # None /\ obj'["sts"].gen # 0
          => obj'["sts"].gen >= obj["sts"].gen ]_vars

(***************************************************************************)
(* Why: no template is newer than the notebook it can come from, and what  *)
(* could still replace a template is not older than it.                    *)
(***************************************************************************)

\* All the writes that may still reach the server.
Writes == flying \union (IF pc \in Putting THEN {write} ELSE {})

\* Every StatefulSet, stored, cached or being written, is of edit g or before.
Made(g) ==
    /\ obj["sts"] # None => obj["sts"].gen <= g
    /\ seen["sts"] # None => seen["sts"].gen <= g
    /\ \A w \in Writes : w.kind = "sts" => w.new.gen <= g

\* The copies of the notebook are in the order in which they are passed on.
InOrder ==
    /\ Made(edits)
    /\ pc # "idle" => Made(instance.gen) /\ instance.gen <= edits
    /\ seen["nb"] # None =>
          /\ Made(seen["nb"].gen) /\ seen["nb"].gen <= edits
          /\ pc # "idle" => instance.gen <= seen["nb"].gen
    /\ obj["nb"] # None =>
          /\ Made(obj["nb"].gen) /\ obj["nb"].gen <= edits
          /\ pc # "idle" => instance.gen <= obj["nb"].gen
          /\ seen["nb"] # None => seen["nb"].gen <= obj["nb"].gen
    /\ pc \in Putting \ {"putSvc"} => write.new.gen = instance.gen

\* Versions are past ones; only a creation has none.
PastVersions ==
    /\ \A k \in {"nb", "sts"} :
          /\ obj[k] # None => obj[k].rv \in 1 .. rv
          /\ seen[k] # None => seen[k].rv \in 1 .. rv
    /\ pc # "idle" => instance.rv \in 1 .. rv
    /\ \A w \in Writes :
          /\ w.kind = "nb" => w.new.rv \in 1 .. rv
          /\ w.kind = "sts" => w.new.rv \in 0 .. rv

\* A copy with the version of the server's notebook has its template.
CopyCurrent ==
    LET Current(n) == n.rv = obj["nb"].rv => n.gen = obj["nb"].gen IN
    obj["nb"] # None =>
        /\ seen["nb"] # None => Current(seen["nb"])
        /\ pc # "idle" => Current(instance)
        /\ \A w \in Writes : w.kind = "nb" => Current(w.new)

\* A write that the server would accept is not older than what it replaces.
NoOldWrites ==
    obj["sts"] # None =>
        \A w \in Writes :
            w.kind = "sts" /\ w.new.rv = obj["sts"].rv => w.new.gen >= obj["sts"].gen

(***************************************************************************)
(* The invariant behind NeverReverts: it holds at every step of Reconcile, *)
(* with any number of late writes, and says why they are harmless.         *)
(***************************************************************************)
IndInv == TypeOK /\ InOrder /\ PastVersions /\ CopyCurrent /\ NoOldWrites

\* What the controller makes for the notebook, and what it tells of it.
Mirrors ==
    LET nb == obj["nb"] IN
    IF nb = None THEN obj["sts"] = None /\ obj["svc"] = None
    ELSE /\ obj["sts"] # None /\ obj["svc"] # None
         /\ obj["sts"].owner = nb.uid /\ obj["svc"].owner = nb.uid
         /\ obj["sts"].gen = nb.gen /\ obj["svc"].gen = nb.gen
         /\ nb.cond = "Ready"
         /\ nb.ready = obj["sts"].ready
         /\ obj["pod"] \in ContainerState => nb.state = obj["pod"]

(***************************************************************************)
(* When users and failures stop, the cluster comes to match the notebook,  *)
(* and stays so: no event is lost between the caches, the queue and the    *)
(* running Reconcile, and no refused write is forgotten.                   *)
(***************************************************************************)
Converges == <>[]Mirrors

(***************************************************************************)
(* "write the result back if there are any changes"                        *)
(* (notebook_controller.go:210): a service whose mapping was removed gets  *)
(* it back.  Expected to fail: the comparison only looks at annotations    *)
(* that are there.                                                         *)
(***************************************************************************)
MappingRestored == []<>(obj["svc"] # None => obj["svc"].mapping = "own")
=============================================================================
