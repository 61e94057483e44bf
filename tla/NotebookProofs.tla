--------------------------- MODULE NotebookProofs ---------------------------
(***************************************************************************)
(* Theorems about Notebook, for any number of edits by users and any       *)
(* number of failed calls, late writes, restarts and changes by others.    *)
(***************************************************************************)
EXTENDS Notebook, TLAPS

USE NotebookAssumption DEF server, local, bounds

-----------------------------------------------------------------------------
(* Types *)

LEMMA VersionTypes ==
    ASSUME NEW n \in Int
    PROVE  /\ \A o \in NotebookObject : [o EXCEPT !.rv = n] \in NotebookObject
           /\ \A o \in StatefulSet : [o EXCEPT !.rv = n] \in StatefulSet
           /\ \A o \in Service : [o EXCEPT !.rv = n] \in Service
  BY DEF NotebookObject, StatefulSet, Service

\* What is written, by the kind it is written to.
LEMMA WriteType ==
    ASSUME NEW w \in Write
    PROVE  /\ w.kind \in {"nb", "sts", "svc"}
           /\ w.kind = "nb" => w.new \in NotebookObject
           /\ w.kind = "sts" => w.new \in StatefulSet
           /\ w.kind = "svc" => w.new \in Service
  BY DEF Write

\* The server's state stays typed when an object of the kind's type is put.
LEMMA PutType ==
    ASSUME Typed(obj), rv \in Nat, news \subseteq Kind,
           NEW k \in {"nb", "sts", "svc"}, NEW o, Put(k, o),
           k = "nb" => o \in NotebookObject,
           k = "sts" => o \in StatefulSet,
           k = "svc" => o \in Service
    PROVE  /\ Typed(obj')
           /\ rv' \in Nat
           /\ news' \subseteq Kind
  <1>1. rv' \in Nat /\ news' \subseteq Kind
    BY DEF Put, Kind
  <1>2. rv + 1 \in Int
    OBVIOUS
  <1>3. CASE k = "nb"
    <2>1. [o EXCEPT !.rv = rv + 1] \in NotebookObject
      BY <1>2, <1>3, VersionTypes
    <2>2. obj' = [obj EXCEPT !["nb"] = [o EXCEPT !.rv = rv + 1]]
      BY <1>3 DEF Put
    <2>3. QED
      BY <1>1, <2>1, <2>2 DEF Typed, Kind
  <1>4. CASE k = "sts"
    <2>1. [o EXCEPT !.rv = rv + 1] \in StatefulSet
      BY <1>2, <1>4, VersionTypes
    <2>2. obj' = [obj EXCEPT !["sts"] = [o EXCEPT !.rv = rv + 1]]
      BY <1>4 DEF Put
    <2>3. QED
      BY <1>1, <2>1, <2>2 DEF Typed, Kind
  <1>5. CASE k = "svc"
    <2>1. [o EXCEPT !.rv = rv + 1] \in Service
      BY <1>2, <1>5, VersionTypes
    <2>2. obj' = [obj EXCEPT !["svc"] = [o EXCEPT !.rv = rv + 1]]
      BY <1>5 DEF Put
    <2>3. QED
      BY <1>1, <2>1, <2>2 DEF Typed, Kind
  <1>6. QED
    BY <1>3, <1>4, <1>5

LEMMA DropType ==
    ASSUME Typed(obj), rv \in Nat, news \subseteq Kind, NEW k \in Kind, Drop(k)
    PROVE  /\ Typed(obj')
           /\ rv' \in Nat
           /\ news' \subseteq Kind
  BY DEF Drop, Typed, Kind

LEMMA CarryType ==
    ASSUME Typed(obj), rv \in Nat, news \subseteq Kind, NEW w \in Write, Carry(w)
    PROVE  /\ Typed(obj')
           /\ rv' \in Nat
           /\ news' \subseteq Kind
  <1>1. CASE UNCHANGED <<obj, rv, news>>
    BY <1>1 DEF Typed
  <1>2. CASE Put(w.kind, w.new)
    BY <1>2, WriteType, PutType
  <1>3. QED
    BY <1>1, <1>2 DEF Carry

LEMMA InitType == Init => TypeOK
  <1> SUFFICES ASSUME Init PROVE TypeOK
    OBVIOUS
  <1>1. Typed(obj)
    BY DEF Init, Typed, Kind
  <1>2. Typed(seen)
    BY <1>1 DEF Init
  <1>3. 0 \in 0 .. MaxEdits /\ 0 \in 0 .. MaxTrouble
    OBVIOUS
  <1>4. QED
    BY <1>1, <1>2, <1>3 DEF Init, TypeOK, Putting, Ready

LEMMA UserType ==
    ASSUME TypeOK, CreateNotebook \/ EditNotebook \/ DeleteNotebook
    PROVE  TypeOK'
  <1>1. Typed(obj) /\ rv \in Nat /\ news \subseteq Kind
    BY DEF TypeOK
  <1>2. edits < MaxEdits /\ edits' = edits + 1 /\ edits' \in Gen /\ edits' \in Owner
    BY DEF CreateNotebook, EditNotebook, DeleteNotebook, TypeOK, Gen, Owner
  <1>3. Typed(obj') /\ rv' \in Nat /\ news' \subseteq Kind
    <2>1. CASE CreateNotebook
      <3> DEFINE n == [uid |-> edits', gen |-> edits', cond |-> "none", ready |-> 0,
                       state |-> "none", rv |-> 0]
      <3>1. n \in NotebookObject
        BY <1>2 DEF NotebookObject, Ready
      <3>2. Put("nb", n)
        BY <2>1 DEF CreateNotebook
      <3> HIDE DEF n
      <3>3. QED
        BY <1>1, <3>1, <3>2, PutType
    <2>2. CASE EditNotebook
      <3> DEFINE n == [obj["nb"] EXCEPT !.gen = edits']
      <3>1. n \in NotebookObject
        BY <1>1, <1>2, <2>2 DEF NotebookObject, Typed, EditNotebook
      <3>2. Put("nb", n)
        BY <2>2 DEF EditNotebook
      <3> HIDE DEF n
      <3>3. QED
        BY <1>1, <3>1, <3>2, PutType
    <2>3. CASE DeleteNotebook
      BY <1>1, <2>3, DropType DEF DeleteNotebook, Kind
    <2>4. QED
      BY <2>1, <2>2, <2>3
  <1>4. UNCHANGED <<flying, seen, queued, local, trouble>>
    BY DEF CreateNotebook, EditNotebook, DeleteNotebook, Outside
  <1>5. QED
    BY <1>2, <1>3, <1>4 DEF TypeOK, Typed, Gen

LEMMA OthersType ==
    ASSUME TypeOK,
           \/ \E k \in {"sts", "svc", "pod"} : Collect(k)
           \/ \E k \in {"sts", "svc"} : Tamper(k)
           \/ DropMapping \/ PodChanges
    PROVE  TypeOK'
  <1>1. Typed(obj) /\ rv \in Nat /\ news \subseteq Kind
    BY DEF TypeOK
  <1>2. Typed(obj') /\ rv' \in Nat /\ news' \subseteq Kind
    <2>1. ASSUME NEW k \in {"sts", "svc", "pod"}, Collect(k)
          PROVE  Typed(obj') /\ rv' \in Nat /\ news' \subseteq Kind
      BY <1>1, <2>1, DropType DEF Collect, Kind
    <2>2. ASSUME NEW k \in {"sts", "svc"}, Tamper(k)
          PROVE  Typed(obj') /\ rv' \in Nat /\ news' \subseteq Kind
      <3>1. 0 \in Gen
        BY DEF Gen
      <3>2. CASE Drop(k)
        BY <1>1, <3>2, DropType DEF Kind
      <3>3. CASE k = "sts" /\ Put(k, [obj[k] EXCEPT !.gen = 0])
        <4>1. [obj["sts"] EXCEPT !.gen = 0] \in StatefulSet
          BY <1>1, <2>2, <3>1, <3>3 DEF StatefulSet, Typed, Tamper
        <4>2. QED
          BY <1>1, <3>3, <4>1, PutType
      <3>4. CASE k = "svc" /\ Put(k, [obj[k] EXCEPT !.gen = 0])
        <4>1. [obj["svc"] EXCEPT !.gen = 0] \in Service
          BY <1>1, <2>2, <3>1, <3>4 DEF Service, Typed, Tamper
        <4>2. QED
          BY <1>1, <3>4, <4>1, PutType
      <3>5. CASE k = "svc" /\ Put(k, [obj[k] EXCEPT !.mapping = "edited"])
        <4>1. [obj["svc"] EXCEPT !.mapping = "edited"] \in Service
          BY <1>1, <2>2, <3>5 DEF Service, Typed, Tamper
        <4>2. QED
          BY <1>1, <3>5, <4>1, PutType
      <3>6. QED
        BY <2>2, <3>2, <3>3, <3>4, <3>5 DEF Tamper
    <2>3. CASE DropMapping
      <3>1. [obj["svc"] EXCEPT !.mapping = "absent"] \in Service
        BY <1>1, <2>3 DEF Service, Typed, DropMapping
      <3>2. QED
        BY <1>1, <2>3, <3>1, PutType DEF DropMapping
    <2>4. CASE PodChanges
      <3>1. ASSUME NEW p \in Pod \union {None},
                   obj' = [obj EXCEPT !["pod"] = p],
                   news' = news \union {"pod"}, UNCHANGED rv
            PROVE  Typed(obj') /\ rv' \in Nat /\ news' \subseteq Kind
        BY <1>1, <3>1 DEF Typed, Kind
      <3>2. ASSUME obj["sts"] # None, Put("sts", [obj["sts"] EXCEPT !.ready = 1 - @])
            PROVE  Typed(obj') /\ rv' \in Nat /\ news' \subseteq Kind
        <4>1. [obj["sts"] EXCEPT !.ready = 1 - @] \in StatefulSet
          BY <1>1, <3>2 DEF StatefulSet, Typed, Ready
        <4>2. QED
          BY <1>1, <3>2, <4>1, PutType
      <3>3. QED
        BY <2>4, <3>1, <3>2 DEF PodChanges
    <2>5. QED
      BY <2>1, <2>2, <2>3, <2>4
  <1>3. UNCHANGED <<flying, seen, queued, local, edits>> /\ trouble' \in 0 .. MaxTrouble
    BY DEF Collect, Tamper, DropMapping, PodChanges, Outside, Trouble, TypeOK
  <1>4. QED
    BY <1>2, <1>3 DEF TypeOK, Typed

LEMMA IdleType ==
    ASSUME TypeOK, Typed(obj'), rv' \in Nat, news' \subseteq Kind, Typed(seen'),
           flying' \subseteq Write, queued' \in BOOLEAN,
           pc' = "idle", ready' = 0, UNCHANGED edits, trouble' \in 0 .. MaxTrouble
    PROVE  TypeOK'
  BY DEF TypeOK, Typed, Putting, Ready

LEMMA ReconcileType == ASSUME TypeOK, Reconcile PROVE TypeOK'
  <1> USE DEF Go
  <1>1. /\ Typed(obj) /\ Typed(seen) /\ rv \in Nat /\ news \subseteq Kind
        /\ flying \subseteq Write
        /\ edits \in 0 .. MaxEdits /\ trouble \in 0 .. MaxTrouble
        /\ ready \in Ready
    BY DEF TypeOK
  <1>2. CASE Take
    <2>1. Typed(obj') /\ Typed(seen')
      BY <1>1, <1>2 DEF Take
    <2>2. pc' # "idle" => instance' \in NotebookObject
      BY <1>1, <1>2 DEF Take, Typed
    <2>3. pc' \in {"idle", "getSts"}
      BY <1>2 DEF Take
    <2>4. QED
      BY <1>1, <1>2, <2>1, <2>2, <2>3 DEF Take, TypeOK, Putting
  <1>3. CASE GetStatefulSet
    <2>1. Typed(obj') /\ Typed(seen')
      BY <1>1, <1>3 DEF GetStatefulSet
    <2>2. instance \in NotebookObject /\ instance' = instance
      BY <1>3 DEF GetStatefulSet, TypeOK
    <2>3. NewStatefulSet \in StatefulSet
      BY <2>2 DEF NewStatefulSet, StatefulSet, NotebookObject, Ready
    <2>4. seen["sts"] # None =>
             /\ seen["sts"] \in StatefulSet
             /\ Updated(seen["sts"]) \in StatefulSet
      BY <1>1, <2>2 DEF Typed, Updated, StatefulSet, NotebookObject
    <2>5. ready' \in Ready
      BY <1>3, <2>4 DEF GetStatefulSet, Ready, StatefulSet
    <2>6. CASE pc' = "putSts"
      <3>1. write'.kind = "sts" /\ write' \in Write
        BY <1>3, <2>3, <2>4, <2>6 DEF GetStatefulSet, Send, Write
      <3>2. QED
        BY <1>1, <1>3, <2>1, <2>2, <2>5, <2>6, <3>1 DEF GetStatefulSet, TypeOK, Putting
    <2>7. CASE pc' = "getSvc"
      BY <1>1, <1>3, <2>1, <2>2, <2>5, <2>7 DEF GetStatefulSet, TypeOK, Putting
    <2>8. QED
      BY <1>3, <2>6, <2>7 DEF GetStatefulSet, Send
  <1>4. CASE GetService
    <2>1. Typed(obj') /\ Typed(seen')
      BY <1>1, <1>4 DEF GetService
    <2>2. instance \in NotebookObject /\ instance' = instance
      BY <1>4 DEF GetService, TypeOK
    <2>3. NewService \in Service
      BY <2>2 DEF NewService, Service, NotebookObject
    <2>4. seen["svc"] # None =>
             [seen["svc"] EXCEPT !.gen = instance.gen, !.mapping = "own"] \in Service
      BY <1>1, <2>2 DEF Typed, Service, NotebookObject
    <2>5. CASE pc' = "putSvc"
      <3>1. write'.kind = "svc" /\ write' \in Write
        BY <1>4, <2>3, <2>4, <2>5 DEF GetService, Send, Write
      <3>2. QED
        BY <1>1, <1>4, <2>1, <2>2, <2>5, <3>1 DEF GetService, TypeOK, Putting
    <2>6. CASE pc' = "cond"
      BY <1>1, <1>4, <2>1, <2>2, <2>6 DEF GetService, TypeOK, Putting
    <2>7. QED
      BY <1>4, <2>5, <2>6 DEF GetService, Send
  <1>5. CASE SetCondition
    <2>1. Typed(obj') /\ Typed(seen')
      BY <1>1, <1>5 DEF SetCondition
    <2>2. instance \in NotebookObject /\ instance' = instance
      BY <1>5 DEF SetCondition, TypeOK
    <2>3. [instance EXCEPT !.cond = "Ready"] \in NotebookObject
      BY <2>2 DEF NotebookObject
    <2>4. CASE pc' = "putCond"
      <3>1. write'.kind = "nb" /\ write' \in Write
        BY <1>5, <2>3, <2>4 DEF SetCondition, Send, Write
      <3>2. QED
        BY <1>1, <1>5, <2>1, <2>2, <2>4, <3>1 DEF SetCondition, TypeOK, Putting
    <2>5. CASE pc' = "ready"
      BY <1>1, <1>5, <2>1, <2>2, <2>5 DEF SetCondition, TypeOK, Putting
    <2>6. QED
      BY <1>5, <2>4, <2>5 DEF SetCondition, Send
  <1>6. CASE SetReadyReplicas
    <2>1. Typed(obj') /\ Typed(seen')
      BY <1>1, <1>6 DEF SetReadyReplicas
    <2>2. instance \in NotebookObject /\ instance' = instance
      BY <1>6 DEF SetReadyReplicas, TypeOK
    <2>3. [instance EXCEPT !.ready = ready] \in NotebookObject
      BY <1>1, <2>2 DEF NotebookObject
    <2>4. CASE pc' = "putReady"
      <3>1. write'.kind = "nb" /\ write' \in Write
        BY <1>6, <2>3, <2>4 DEF SetReadyReplicas, Send, Write
      <3>2. QED
        BY <1>1, <1>6, <2>1, <2>2, <2>4, <3>1 DEF SetReadyReplicas, TypeOK, Putting
    <2>5. CASE pc' = "getPod"
      BY <1>1, <1>6, <2>1, <2>2, <2>5 DEF SetReadyReplicas, TypeOK, Putting
    <2>6. QED
      BY <1>6, <2>4, <2>5 DEF SetReadyReplicas, Send
  <1>7. CASE GetPod
    <2>1. Typed(obj') /\ Typed(seen')
      BY <1>1, <1>7 DEF GetPod
    <2>2. CASE HasStatus(seen["pod"])
      <3>1. instance \in NotebookObject /\ instance' = instance
        BY <1>7, <2>2 DEF GetPod, TypeOK
      <3>2. [instance EXCEPT !.state = seen["pod"]] \in NotebookObject
        BY <2>2, <3>1 DEF NotebookObject, HasStatus
      <3>3. pc' = "putState" /\ write'.kind = "nb" /\ write' \in Write
        BY <1>7, <2>2, <3>2 DEF GetPod, Send, Write
      <3>4. QED
        BY <1>1, <1>7, <2>1, <2>2, <3>1, <3>3 DEF GetPod, TypeOK, Putting
    <2>3. CASE ~ HasStatus(seen["pod"])
      BY <1>1, <1>7, <2>1, <2>3, IdleType DEF GetPod, Return, TypeOK
    <2>4. QED
      BY <2>2, <2>3
  <1>8. CASE CallOk
    <2>1. pc \in Putting /\ write \in Write /\ Carry(write)
      BY <1>8 DEF CallOk, TypeOK
    <2>2. Typed(obj') /\ rv' \in Nat /\ news' \subseteq Kind
      BY <1>1, <2>1, CarryType
    <2>3. Typed(seen')
      BY <1>1, <1>8 DEF CallOk
    <2>4. CASE pc = "putState"
      BY <1>1, <1>8, <2>2, <2>3, <2>4, IdleType DEF CallOk, Return, TypeOK
    <2>5. CASE pc # "putState"
      <3>1. pc' \in {"getSvc", "cond", "ready", "getPod"}
        BY <1>8, <2>1, <2>5 DEF CallOk, NextStage, Putting
      <3>2. instance' \in NotebookObject
        <4>1. instance \in NotebookObject
          BY <2>1 DEF TypeOK, Putting
        <4>2. ASSUME write.kind = "nb" PROVE obj'["nb"] \in NotebookObject
          <5>1. write.new \in NotebookObject
            BY <2>1, <4>2, WriteType
          <5>2. CASE obj["nb"] = write.new /\ obj' = obj
            BY <5>1, <5>2
          <5>3. CASE Put("nb", write.new)
            <6>1. [write.new EXCEPT !.rv = rv + 1] \in NotebookObject
              BY <1>1, <5>1, VersionTypes
            <6>2. obj' = [obj EXCEPT !["nb"] = [write.new EXCEPT !.rv = rv + 1]]
              BY <5>3 DEF Put
            <6>3. QED
              BY <1>1, <6>1, <6>2 DEF Typed, Kind
          <5>4. QED
            BY <2>1, <4>2, <5>2, <5>3 DEF Carry
        <4>3. QED
          BY <1>8, <2>5, <4>1, <4>2 DEF CallOk
      <3>3. QED
        BY <1>1, <1>8, <2>2, <2>3, <2>5, <3>1, <3>2 DEF CallOk, TypeOK, Putting
    <2>6. QED
      BY <2>4, <2>5
  <1>9. CASE CallRefused
    <2>1. Typed(obj') /\ Typed(seen')
      BY <1>1, <1>9 DEF CallRefused
    <2>2. QED
      BY <1>1, <1>9, <2>1, IdleType DEF CallRefused, Return, TypeOK
  <1>10. CASE CallFails
    <2>1. write \in Write
      BY <1>10 DEF CallFails, TypeOK
    <2>2. Typed(obj') /\ rv' \in Nat /\ news' \subseteq Kind /\ flying' \subseteq Write
      <3>1. CASE UNCHANGED server
        BY <1>1, <3>1
      <3>2. CASE Carry(write) /\ UNCHANGED flying
        BY <1>1, <2>1, <3>2, CarryType
      <3>3. CASE flying' = flying \union {write} /\ UNCHANGED <<obj, rv, news>>
        BY <1>1, <2>1, <3>3
      <3>4. QED
        BY <1>10, <3>1, <3>2, <3>3 DEF CallFails
    <2>3. Typed(seen')
      BY <1>1, <1>10 DEF CallFails, Fails
    <2>4. QED
      BY <1>1, <1>10, <2>2, <2>3, IdleType DEF CallFails, Fails, Return, Trouble, TypeOK
  <1>11. CASE GetFails
    <2>1. Typed(obj') /\ Typed(seen')
      BY <1>1, <1>11 DEF GetFails, Fails
    <2>2. QED
      BY <1>1, <1>11, <2>1, IdleType DEF GetFails, Fails, Return, Trouble, TypeOK
  <1>12. QED
    BY <1>2, <1>3, <1>4, <1>5, <1>6, <1>7, <1>8, <1>9, <1>10, <1>11 DEF Reconcile

LEMMA TypeStep == TypeOK /\ [Next]_vars => TypeOK'
  <1> SUFFICES ASSUME TypeOK, [Next]_vars PROVE TypeOK'
    OBVIOUS
  <1>1. /\ Typed(obj) /\ Typed(seen) /\ rv \in Nat /\ news \subseteq Kind
        /\ flying \subseteq Write
    BY DEF TypeOK
  <1>2. CASE Reconcile
    BY <1>2, ReconcileType
  <1>3. CASE Restart
    <2>1. Typed(obj') /\ Typed(seen')
      BY <1>1, <1>3 DEF Restart
    <2>2. flying' \subseteq Write
      BY <1>1, <1>3 DEF Restart, TypeOK
    <2>3. QED
      BY <1>1, <1>3, <2>1, <2>2, IdleType DEF Restart, Trouble, TypeOK
  <1>4. ASSUME NEW k \in Kind, Sync(k) PROVE TypeOK'
    <2>1. Typed(obj')
      BY <1>1, <1>4 DEF Sync
    <2>2. Typed(seen')
      BY <1>1, <1>4 DEF Sync, Typed, Kind
    <2>3. QED
      BY <1>1, <1>4, <2>1, <2>2 DEF Sync, TypeOK
  <1>5. ASSUME NEW w \in flying, LateWrite(w) PROVE TypeOK'
    <2>1. w \in Write
      BY <1>1
    <2>2. Typed(obj') /\ rv' \in Nat /\ news' \subseteq Kind
      BY <1>1, <1>5, <2>1, CarryType DEF LateWrite
    <2>3. Typed(seen') /\ flying' \subseteq Write
      BY <1>1, <1>5 DEF LateWrite
    <2>4. QED
      BY <1>5, <2>2, <2>3 DEF LateWrite, TypeOK
  <1>6. CASE CreateNotebook \/ EditNotebook \/ DeleteNotebook
    BY <1>6, UserType
  <1>7. CASE \/ \E k \in {"sts", "svc", "pod"} : Collect(k)
             \/ \E k \in {"sts", "svc"} : Tamper(k)
             \/ DropMapping \/ PodChanges
    BY <1>7, OthersType
  <1>8. CASE UNCHANGED vars
    BY <1>8 DEF vars, TypeOK, Typed
  <1>9. QED
    BY <1>2, <1>3, <1>4, <1>5, <1>6, <1>7, <1>8 DEF Next

(***************************************************************************)
(* The variables keep their types: what the server stores and the caches   *)
(* hold is of its kind, and while a call is under way its write is of the  *)
(* kind that the stage of Reconcile sends.                                 *)
(***************************************************************************)
THEOREM TypeCorrect == Spec => []TypeOK
  BY InitType, TypeStep, PTL DEF Spec

-----------------------------------------------------------------------------
(* What a step does to the notebook and the StatefulSet on the server *)

\* The notebook stays, or gets a new version, of the same edit or the latest.
NotebookServed ==
    obj'["nb"] # None =>
        \/ /\ obj["nb"] # None
           /\ obj'["nb"].gen = obj["nb"].gen
           /\ obj'["nb"].rv = obj["nb"].rv
        \/ /\ rv' = rv + 1 /\ obj'["nb"].rv = rv + 1
           /\ \/ obj["nb"] # None /\ obj'["nb"].gen = obj["nb"].gen
              \/ edits' = edits + 1 /\ obj'["nb"].gen = edits'

(***************************************************************************)
(* The StatefulSet stays, or gets a new version: its own template again,   *)
(* none of an edit, or that of a write which is not older.                 *)
(***************************************************************************)
StatefulSetServed ==
    obj'["sts"] # None =>
        \/ /\ obj["sts"] # None
           /\ obj'["sts"].gen = obj["sts"].gen
           /\ obj'["sts"].rv = obj["sts"].rv
        \/ /\ rv' = rv + 1 /\ obj'["sts"].rv = rv + 1
           /\ \/ obj["sts"] # None /\ obj'["sts"].gen = obj["sts"].gen
              \/ obj'["sts"].gen = 0
              \/ \E w \in Writes :
                    /\ w.kind = "sts" /\ obj'["sts"].gen = w.new.gen
                    /\ obj["sts"] # None => w.new.gen >= obj["sts"].gen

Served == NotebookServed /\ StatefulSetServed /\ rv' \in {rv, rv + 1}

LEMMA PutFields ==
    ASSUME Typed(obj), NEW k \in Kind, NEW o, Put(k, o),
           o \in NotebookObject \union StatefulSet \union Service
    PROVE  /\ rv' = rv + 1
           /\ obj'[k].gen = o.gen /\ obj'[k].rv = rv + 1
           /\ \A j \in Kind \ {k} : obj'[j] = obj[j]
  <1>1. obj'[k] = [o EXCEPT !.rv = rv + 1]
    BY DEF Put, Typed
  <1>2. [o EXCEPT !.rv = rv + 1].gen = o.gen /\ [o EXCEPT !.rv = rv + 1].rv = rv + 1
    BY DEF NotebookObject, StatefulSet, Service
  <1>3. QED
    BY <1>1, <1>2 DEF Put, Typed

LEMMA UnchangedServed == UNCHANGED <<obj, rv>> => Served
  BY DEF Served, NotebookServed, StatefulSetServed

LEMMA DropServed ==
    ASSUME Typed(obj), NEW k \in Kind, Drop(k)
    PROVE  Served
  BY DEF Drop, Typed, Served, NotebookServed, StatefulSetServed, Kind

\* An accepted write has the server's template, or one that is not older.
LEMMA CarryServed ==
    ASSUME IndInv, NEW w \in Writes, Carry(w)
    PROVE  Served
  <1>1. Typed(obj) /\ w \in Write
    BY DEF IndInv, TypeOK, Writes
  <1>2. CASE UNCHANGED <<obj, rv, news>>
    BY <1>2, UnchangedServed
  <1>3. CASE Put(w.kind, w.new)
    <2>1. w.kind \in Kind /\ w.new \in NotebookObject \union StatefulSet \union Service
      BY <1>1, WriteType DEF Kind
    <2>2. /\ rv' = rv + 1
          /\ obj'[w.kind].gen = w.new.gen /\ obj'[w.kind].rv = rv + 1
          /\ \A j \in Kind \ {w.kind} : obj'[j] = obj[j]
      BY <1>1, <1>3, <2>1, PutFields
    <2>3. Accepts(w)
      BY DEF Carry
    <2>4. CASE w.kind = "nb"
      <3>1. w.new.rv \in 1 .. rv
        BY <2>4 DEF IndInv, PastVersions
      <3>2. obj["nb"] # None /\ w.new.rv = obj["nb"].rv
        BY <2>3, <2>4, <3>1 DEF Accepts, Unversioned, IndInv, TypeOK
      <3>3. w.new.gen = obj["nb"].gen
        BY <2>4, <3>2 DEF IndInv, CopyCurrent
      <3>4. obj'["sts"] = obj["sts"]
        BY <2>2, <2>4 DEF Kind
      <3>5. QED
        BY <2>2, <2>4, <3>2, <3>3, <3>4 DEF Served, NotebookServed, StatefulSetServed
    <2>5. CASE w.kind = "sts"
      <3>1. w.new.rv \in 0 .. rv
        BY <2>5 DEF IndInv, PastVersions
      <3>2. obj["sts"] # None => w.new.rv = obj["sts"].rv
        BY <2>3, <2>5, <3>1 DEF Accepts, Unversioned, IndInv, TypeOK
      <3>3. obj["sts"] # None => w.new.gen >= obj["sts"].gen
        BY <2>5, <3>2 DEF IndInv, NoOldWrites
      <3>4. obj'["nb"] = obj["nb"]
        BY <2>2, <2>5 DEF Kind
      <3>5. QED
        BY <2>2, <2>5, <3>3, <3>4 DEF Served, NotebookServed, StatefulSetServed
    <2>6. CASE w.kind = "svc"
      BY <2>2, <2>6 DEF Served, NotebookServed, StatefulSetServed, Kind
    <2>7. QED
      BY <1>1, <2>4, <2>5, <2>6, WriteType
  <1>4. QED
    BY <1>2, <1>3 DEF Carry

LEMMA UserServed ==
    ASSUME TypeOK, CreateNotebook \/ EditNotebook \/ DeleteNotebook
    PROVE  Served
  <1>1. Typed(obj)
    BY DEF TypeOK
  <1>2. edits' = edits + 1 /\ edits' \in Gen /\ edits' \in Owner
    BY DEF CreateNotebook, EditNotebook, DeleteNotebook, TypeOK, Gen, Owner
  <1>3. CASE CreateNotebook
    <2> DEFINE n == [uid |-> edits', gen |-> edits', cond |-> "none", ready |-> 0,
                     state |-> "none", rv |-> 0]
    <2>1. n \in NotebookObject /\ n.gen = edits'
      BY <1>2 DEF NotebookObject, Ready
    <2>2. Put("nb", n)
      BY <1>3 DEF CreateNotebook
    <2> HIDE DEF n
    <2>3. QED
      BY <1>1, <1>2, <2>1, <2>2, PutFields DEF Kind, Served, NotebookServed, StatefulSetServed
  <1>4. CASE EditNotebook
    <2> DEFINE n == [obj["nb"] EXCEPT !.gen = edits']
    <2>1. n \in NotebookObject /\ n.gen = edits'
      BY <1>1, <1>2, <1>4 DEF NotebookObject, Typed, EditNotebook
    <2>2. Put("nb", n)
      BY <1>4 DEF EditNotebook
    <2> HIDE DEF n
    <2>3. QED
      BY <1>1, <1>2, <2>1, <2>2, PutFields DEF Kind, Served, NotebookServed, StatefulSetServed
  <1>5. CASE DeleteNotebook
    BY <1>1, <1>5, DropServed DEF DeleteNotebook, Kind
  <1>6. QED
    BY <1>3, <1>4, <1>5

LEMMA OthersServed ==
    ASSUME TypeOK,
           \/ \E k \in {"sts", "svc", "pod"} : Collect(k)
           \/ \E k \in {"sts", "svc"} : Tamper(k)
           \/ DropMapping \/ PodChanges
    PROVE  Served
  <1> USE DEF Kind
  <1>1. Typed(obj)
    BY DEF TypeOK
  <1>2. ASSUME NEW o \in Service, Put("svc", o) PROVE Served
    BY <1>1, <1>2, PutFields DEF Served, NotebookServed, StatefulSetServed
  <1>3. ASSUME NEW o \in StatefulSet, Put("sts", o), obj["sts"] # None,
               o.gen \in {0, obj["sts"].gen}
        PROVE  Served
    BY <1>1, <1>3, PutFields DEF Served, NotebookServed, StatefulSetServed
  <1>4. ASSUME NEW k \in {"sts", "svc", "pod"}, Collect(k) PROVE Served
    BY <1>1, <1>4, DropServed DEF Collect
  <1>5. ASSUME NEW k \in {"sts", "svc"}, Tamper(k) PROVE Served
    <2>1. 0 \in Gen
      BY DEF Gen
    <2>2. CASE Drop(k)
      BY <1>1, <2>2, DropServed
    <2>3. CASE k = "sts" /\ Put(k, [obj[k] EXCEPT !.gen = 0])
      <3> DEFINE o == [obj["sts"] EXCEPT !.gen = 0]
      <3>1. obj["sts"] # None /\ o \in StatefulSet /\ o.gen = 0
        BY <1>1, <1>5, <2>1, <2>3 DEF StatefulSet, Typed, Tamper
      <3>2. Put("sts", o)
        BY <2>3
      <3> HIDE DEF o
      <3>3. QED
        BY <1>3, <3>1, <3>2
    <2>4. CASE k = "svc" /\ Put(k, [obj[k] EXCEPT !.gen = 0])
      <3>1. [obj["svc"] EXCEPT !.gen = 0] \in Service
        BY <1>1, <1>5, <2>1, <2>4 DEF Service, Typed, Tamper
      <3>2. QED
        BY <1>2, <2>4, <3>1
    <2>5. CASE k = "svc" /\ Put(k, [obj[k] EXCEPT !.mapping = "edited"])
      <3>1. [obj["svc"] EXCEPT !.mapping = "edited"] \in Service
        BY <1>1, <1>5, <2>5 DEF Service, Typed, Tamper
      <3>2. QED
        BY <1>2, <2>5, <3>1
    <2>6. QED
      BY <1>5, <2>2, <2>3, <2>4, <2>5 DEF Tamper
  <1>6. CASE DropMapping
    <2>1. [obj["svc"] EXCEPT !.mapping = "absent"] \in Service
      BY <1>1, <1>6 DEF Service, Typed, DropMapping
    <2>2. QED
      BY <1>2, <1>6, <2>1 DEF DropMapping
  <1>7. CASE PodChanges
    <2>1. ASSUME NEW p, obj' = [obj EXCEPT !["pod"] = p], UNCHANGED rv PROVE Served
      BY <1>1, <2>1 DEF Typed, Served, NotebookServed, StatefulSetServed
    <2>2. ASSUME obj["sts"] # None, Put("sts", [obj["sts"] EXCEPT !.ready = 1 - @])
          PROVE  Served
      <3> DEFINE o == [obj["sts"] EXCEPT !.ready = 1 - @]
      <3>1. o \in StatefulSet /\ o.gen = obj["sts"].gen
        BY <1>1, <2>2 DEF StatefulSet, Typed, Ready
      <3>2. Put("sts", o)
        BY <2>2
      <3> HIDE DEF o
      <3>3. QED
        BY <1>3, <2>2, <3>1, <3>2
    <2>3. QED
      BY <1>7, <2>1, <2>2 DEF PodChanges
  <1>8. QED
    BY <1>4, <1>5, <1>6, <1>7

LEMMA StepServed == IndInv /\ [Next]_vars => Served
  <1> SUFFICES ASSUME IndInv, [Next]_vars PROVE Served
    OBVIOUS
  <1>1. CASE Reconcile
    <2>1. CASE UNCHANGED <<obj, rv>>
      BY <2>1, UnchangedServed
    <2>2. CASE pc \in Putting /\ Carry(write)
      BY <2>2, CarryServed DEF Writes
    <2>3. QED
      BY <1>1, <2>1, <2>2 DEF Reconcile, Take, GetStatefulSet, GetService, SetCondition,
         SetReadyReplicas, GetPod, CallOk, CallRefused, CallFails, GetFails
  <1>2. ASSUME NEW w \in flying, LateWrite(w) PROVE Served
    BY <1>2, UnchangedServed, CarryServed DEF LateWrite, Writes
  <1>3. CASE CreateNotebook \/ EditNotebook \/ DeleteNotebook
    BY <1>3, UserServed DEF IndInv
  <1>4. CASE \/ \E k \in {"sts", "svc", "pod"} : Collect(k)
             \/ \E k \in {"sts", "svc"} : Tamper(k)
             \/ DropMapping \/ PodChanges
    BY <1>4, OthersServed DEF IndInv
  <1>5. CASE Restart \/ UNCHANGED vars \/ \E k \in Kind : Sync(k)
    BY <1>5, UnchangedServed DEF Restart, Sync, vars
  <1>6. QED
    BY <1>1, <1>2, <1>3, <1>4, <1>5 DEF Next

-----------------------------------------------------------------------------
(* The invariant *)

\* What the comparisons of edits and of versions are about are numbers.
Numbers ==
    /\ rv \in Nat /\ edits \in Nat
    /\ \A k \in {"nb", "sts"} :
          /\ obj[k] # None => obj[k].gen \in Nat /\ obj[k].rv \in Int
          /\ seen[k] # None => seen[k].gen \in Nat /\ seen[k].rv \in Int
    /\ pc # "idle" => instance.gen \in Nat /\ instance.rv \in Int
    /\ \A w \in Writes : w.kind \in {"nb", "sts"} => w.new.gen \in Nat /\ w.new.rv \in Int

LEMMA NumbersTyped == TypeOK => Numbers
  <1> SUFFICES ASSUME TypeOK PROVE Numbers
    OBVIOUS
  <1>1. \A o \in NotebookObject \union StatefulSet : o.gen \in Nat /\ o.rv \in Int
    BY DEF NotebookObject, StatefulSet, Gen
  <1>2. \A w \in Writes : w \in Write
    BY DEF TypeOK, Writes
  <1>3. QED
    BY <1>1, <1>2, WriteType DEF Numbers, TypeOK, Typed

\* Made(g), of the state after the step.
MadeNext(g) ==
    /\ obj'["sts"] # None => obj'["sts"].gen <= g
    /\ seen'["sts"] # None => seen'["sts"].gen <= g
    /\ \A w \in Writes' : w.kind = "sts" => w.new.gen <= g

\* A template that a step makes is of an edit that was there, or of g itself.
LEMMA MadeKept ==
    ASSUME Numbers, Served,
           NEW g \in Nat, Made(g),
           seen'["sts"] \in {seen["sts"], obj["sts"]},
           \A w \in Writes' : w \in Writes \/ (w.kind = "sts" => w.new.gen <= g)
    PROVE  MadeNext(g)
  <1>1. obj'["sts"] # None => obj'["sts"].gen <= g
    BY DEF Numbers, Served, StatefulSetServed, Made
  <1>2. seen'["sts"] # None => seen'["sts"].gen <= g
    BY DEF Made
  <1>3. QED
    BY <1>1, <1>2 DEF Made, MadeNext

(***************************************************************************)
(* A step that sends nothing new keeps the invariant: one of the server,   *)
(* one that brings the caches up to date, and one of Reconcile that ends   *)
(* it or has the notebook answered by the server.                          *)
(***************************************************************************)
LEMMA ServerKeeps ==
    ASSUME IndInv, TypeOK', Served,
           \A k \in {"nb", "sts"} :
              \/ seen'[k] = seen[k]
              \/ seen'[k] = obj[k] /\ obj' = obj,
           \A w \in Writes' : w \in Writes,
           edits' \in {edits, edits + 1},
           \/ pc' = "idle"
           \/ /\ pc # "idle"
              /\ instance'.gen = instance.gen
              /\ \/ instance' = instance
                 \/ instance' = obj'["nb"] /\ instance'.rv \in 1 .. rv'
              /\ pc' \in Putting => UNCHANGED <<pc, write>>
    PROVE  IndInv'
  <1>1. Numbers /\ Numbers'
    BY NumbersTyped, PTL DEF IndInv
  <1>2. \A g \in Nat : Made(g) => MadeNext(g)
    BY <1>1, MadeKept
  <1>3. InOrder'
    <2>1. MadeNext(edits')
      <3>1. Made(edits) /\ MadeNext(edits)
        BY <1>1, <1>2 DEF IndInv, InOrder, Numbers
      <3>2. QED
        BY <1>1, <3>1 DEF MadeNext, Numbers
    <2>2. pc' # "idle" =>
             /\ instance'.gen = instance.gen /\ pc # "idle"
             /\ MadeNext(instance'.gen) /\ instance'.gen <= edits'
      BY <1>1, <1>2 DEF IndInv, InOrder, Numbers
    <2>3. obj["nb"] # None => MadeNext(obj["nb"].gen)
      BY <1>1, <1>2 DEF IndInv, InOrder, Numbers
    <2>4. obj'["nb"] # None =>
             /\ MadeNext(obj'["nb"].gen) /\ obj'["nb"].gen <= edits'
             /\ pc' # "idle" => instance'.gen <= obj'["nb"].gen
             /\ seen'["nb"] # None => seen'["nb"].gen <= obj'["nb"].gen
      <3>1. CASE obj'["nb"].gen = edits' /\ edits' = edits + 1
        BY <1>1, <2>1, <2>2, <3>1 DEF IndInv, InOrder, Numbers
      <3>2. CASE obj["nb"] # None /\ obj'["nb"].gen = obj["nb"].gen
        BY <1>1, <2>2, <2>3, <3>2 DEF IndInv, InOrder, Numbers
      <3>3. QED
        BY <3>1, <3>2 DEF Served, NotebookServed
    <2>5. seen'["nb"] # None =>
             /\ MadeNext(seen'["nb"].gen) /\ seen'["nb"].gen <= edits'
             /\ pc' # "idle" => instance'.gen <= seen'["nb"].gen
      <3>1. CASE seen'["nb"] = seen["nb"]
        BY <1>1, <1>2, <2>2, <3>1 DEF IndInv, InOrder, Numbers
      <3>2. CASE seen'["nb"] = obj["nb"] /\ obj' = obj
        BY <2>4, <3>2
      <3>3. QED
        BY <3>1, <3>2
    <2>6. pc' \in Putting \ {"putSvc"} => write'.new.gen = instance'.gen
      BY DEF IndInv, InOrder, Putting
    <2>7. QED
      BY <2>1, <2>2, <2>4, <2>5, <2>6 DEF InOrder, Made, MadeNext
  <1>4. PastVersions'
    <2>1. \A n \in Int : (n \in 1 .. rv => n \in 1 .. rv') /\ (n \in 0 .. rv => n \in 0 .. rv')
      BY <1>1 DEF Numbers, Served
    <2>2. \A k \in {"nb", "sts"} : obj'[k] # None => obj'[k].rv \in 1 .. rv'
      BY <1>1, <2>1
      DEF Numbers, IndInv, PastVersions, Served, NotebookServed, StatefulSetServed
    <2>3. \A k \in {"nb", "sts"} : seen'[k] # None => seen'[k].rv \in 1 .. rv'
      BY <1>1, <2>1, <2>2 DEF Numbers, IndInv, PastVersions
    <2>4. pc' # "idle" => instance'.rv \in 1 .. rv'
      BY <2>1 DEF IndInv, PastVersions
    <2>5. \A w \in Writes' :
             /\ w.kind = "nb" => w.new.rv \in 1 .. rv'
             /\ w.kind = "sts" => w.new.rv \in 0 .. rv'
      BY <2>1 DEF IndInv, PastVersions
    <2>6. QED
      BY <2>2, <2>3, <2>4, <2>5 DEF PastVersions
  <1>5. CopyCurrent'
    <2> SUFFICES ASSUME obj'["nb"] # None PROVE CopyCurrent'
      BY DEF CopyCurrent
    <2>1. CASE /\ obj["nb"] # None
               /\ obj'["nb"].gen = obj["nb"].gen
               /\ obj'["nb"].rv = obj["nb"].rv
      BY <2>1 DEF IndInv, CopyCurrent
    <2>2. CASE obj'["nb"].rv = rv + 1
      <3>1. obj' # obj
        BY <1>1, <2>2 DEF Numbers, IndInv, PastVersions
      <3>2. QED
        BY <1>1, <2>2, <3>1 DEF Numbers, IndInv, PastVersions, CopyCurrent
    <2>3. QED
      BY <2>1, <2>2 DEF Served, NotebookServed
  <1>6. NoOldWrites'
    <2> SUFFICES ASSUME obj'["sts"] # None PROVE NoOldWrites'
      BY DEF NoOldWrites
    <2>1. CASE /\ obj["sts"] # None
               /\ obj'["sts"].gen = obj["sts"].gen
               /\ obj'["sts"].rv = obj["sts"].rv
      BY <2>1 DEF IndInv, NoOldWrites
    <2>2. CASE obj'["sts"].rv = rv + 1
      BY <1>1, <2>2 DEF Numbers, IndInv, PastVersions, NoOldWrites
    <2>3. QED
      BY <2>1, <2>2 DEF Served, StatefulSetServed
  <1>7. QED
    BY <1>3, <1>4, <1>5, <1>6 DEF IndInv

\* A step of Reconcile that sends a write made from its copy of the notebook.
LEMMA SendKeeps ==
    ASSUME IndInv, TypeOK', UNCHANGED <<obj, rv, seen, flying, edits, instance>>,
           pc # "idle", pc' # "idle", Made(instance.gen),
           \A w \in Writes' :
              \/ w \in Writes
              \/ w.kind = "svc"
              \/ w.kind = "sts" /\ w.new.gen = instance.gen /\ w.new.rv \in 0 .. rv
              \/ w.kind = "nb" /\ w.new.gen = instance.gen /\ w.new.rv = instance.rv,
           pc' \in Putting \ {"putSvc"} => write'.new.gen = instance.gen
    PROVE  IndInv'
  <1>1. Numbers
    BY NumbersTyped DEF IndInv
  <1>2. Served
    BY UnchangedServed
  <1>3. \A g \in Nat : Made(g) /\ instance.gen <= g => MadeNext(g)
    BY <1>1, <1>2, MadeKept DEF Numbers
  <1>4. InOrder'
    <2>1. MadeNext(edits)
      BY <1>1, <1>3 DEF IndInv, InOrder, Numbers
    <2>2. MadeNext(instance.gen) /\ instance.gen <= edits
      BY <1>1, <1>3 DEF IndInv, InOrder, Numbers
    <2>3. seen["nb"] # None => MadeNext(seen["nb"].gen)
      BY <1>1, <1>3 DEF IndInv, InOrder, Numbers
    <2>4. obj["nb"] # None => MadeNext(obj["nb"].gen)
      BY <1>1, <1>3 DEF IndInv, InOrder, Numbers
    <2>5. QED
      BY <2>1, <2>2, <2>3, <2>4 DEF IndInv, InOrder, Made, MadeNext
  <1>5. PastVersions'
    BY <1>1 DEF IndInv, PastVersions, Numbers
  <1>6. CopyCurrent'
    BY DEF IndInv, CopyCurrent
  <1>7. NoOldWrites'
    BY <1>1 DEF IndInv, NoOldWrites, Numbers, Made
  <1>8. QED
    BY <1>4, <1>5, <1>6, <1>7 DEF IndInv

LEMMA ReconcileKeeps == ASSUME IndInv, Reconcile, TypeOK' PROVE IndInv'
  <1> USE DEF Go
  <1>1. Served /\ TypeOK /\ Numbers
    BY StepServed, NumbersTyped DEF Next, IndInv
  <1>2. CASE pc' = "idle"
    <2>1. \A w \in Writes' : w \in Writes
      BY <1>2 DEF Reconcile, Take, GetStatefulSet, GetService, SetCondition,
         SetReadyReplicas, GetPod, Send, CallOk, CallRefused, CallFails, GetFails,
         Fails, Return, Writes, Putting
    <2>2. seen' = seen /\ edits' = edits
      BY DEF Reconcile, Take, GetStatefulSet, GetService, SetCondition,
         SetReadyReplicas, GetPod, CallOk, CallRefused, CallFails, GetFails, Fails
    <2>3. QED
      BY <1>1, <1>2, <2>1, <2>2, ServerKeeps
  <1>3. CASE Take /\ pc' # "idle"
    <2>1. /\ seen["nb"] # None /\ instance' = seen["nb"]
          /\ UNCHANGED <<obj, rv, seen, edits>>
          /\ pc' \notin Putting
          /\ \A w \in Writes' : w \in Writes
      BY <1>3 DEF Take, Writes, Putting
    <2>2. \A g \in Nat : Made(g) => MadeNext(g)
      BY <1>1, <2>1, MadeKept
    <2>3. InOrder'
      BY <1>1, <2>1, <2>2 DEF IndInv, InOrder, Made, MadeNext, Numbers
    <2>4. PastVersions' /\ CopyCurrent' /\ NoOldWrites'
      BY <2>1 DEF IndInv, PastVersions, CopyCurrent, NoOldWrites
    <2>5. QED
      BY <2>3, <2>4 DEF IndInv
  <1>4. CASE GetStatefulSet /\ pc' # "idle"
    <2>1. pc # "idle" /\ instance \in NotebookObject
      BY <1>1, <1>4 DEF GetStatefulSet, TypeOK
    <2>2. Made(instance.gen)
      BY <2>1 DEF IndInv, InOrder
    <2>3. NewStatefulSet.gen = instance.gen /\ NewStatefulSet.rv = 0
      BY DEF NewStatefulSet
    <2>4. seen["sts"] # None =>
             /\ Updated(seen["sts"]).gen = instance.gen
             /\ Updated(seen["sts"]).rv \in 0 .. rv
      <3>1. ASSUME seen["sts"] # None
            PROVE  Updated(seen["sts"]).gen = instance.gen
                   /\ Updated(seen["sts"]).rv = seen["sts"].rv
        BY <1>1, <3>1 DEF Updated, TypeOK, Typed, StatefulSet
      <3>2. QED
        BY <1>1, <3>1 DEF IndInv, PastVersions, Numbers
    <2>5. \A w \in Writes' :
             \/ w \in Writes
             \/ pc' \in Putting /\ w = write'
      BY <1>4 DEF GetStatefulSet, Writes
    <2>6. pc' \in Putting =>
             /\ write'.kind = "sts" /\ write'.new.gen = instance.gen
             /\ write'.new.rv \in 0 .. rv
      BY <1>1, <1>4, <2>3, <2>4 DEF GetStatefulSet, Send, Putting, Numbers
    <2>7. UNCHANGED <<obj, rv, seen, flying, edits, instance>>
      BY <1>4 DEF GetStatefulSet
    <2>8. QED
      BY <1>4, <2>1, <2>2, <2>5, <2>6, <2>7, SendKeeps
  <1>5. CASE GetService /\ pc' # "idle"
    <2>1. pc # "idle"
      BY <1>5 DEF GetService
    <2>2. Made(instance.gen)
      BY <2>1 DEF IndInv, InOrder
    <2>3. \A w \in Writes' :
             \/ w \in Writes
             \/ pc' = "putSvc" /\ w.kind = "svc"
      BY <1>5 DEF GetService, Send, Writes, Putting
    <2>4. pc' \notin Putting \ {"putSvc"}
      BY <1>5 DEF GetService, Send, Putting
    <2>5. UNCHANGED <<obj, rv, seen, flying, edits, instance>>
      BY <1>5 DEF GetService
    <2>6. QED
      BY <1>5, <2>1, <2>2, <2>3, <2>4, <2>5, SendKeeps
  <1>6. CASE (SetCondition \/ SetReadyReplicas \/ GetPod) /\ pc' # "idle"
    <2>1. pc # "idle" /\ instance \in NotebookObject
      BY <1>1, <1>6 DEF SetCondition, SetReadyReplicas, GetPod, TypeOK
    <2>2. Made(instance.gen)
      BY <2>1 DEF IndInv, InOrder
    <2>3. \A o : o \in {[instance EXCEPT !.cond = "Ready"],
                        [instance EXCEPT !.ready = ready],
                        [instance EXCEPT !.state = seen["pod"]]}
              => o.gen = instance.gen /\ o.rv = instance.rv
      BY <2>1 DEF NotebookObject
    <2>4. \A w \in Writes' :
             \/ w \in Writes
             \/ pc' \in Putting /\ w = write'
      BY <1>6 DEF SetCondition, SetReadyReplicas, GetPod, Writes
    <2>5. pc' \in Putting =>
             /\ write'.kind = "nb" /\ write'.new.gen = instance.gen
             /\ write'.new.rv = instance.rv
      <3>1. CASE SetCondition
        BY <2>1, <2>3, <3>1 DEF SetCondition, Send, Putting
      <3>2. CASE SetReadyReplicas
        BY <2>3, <3>2 DEF SetReadyReplicas, Send, Putting
      <3>3. CASE GetPod
        BY <1>6, <2>3, <3>3 DEF GetPod, Send, Return
      <3>4. QED
        BY <1>6, <3>1, <3>2, <3>3
    <2>6. UNCHANGED <<obj, rv, seen, flying, edits, instance>>
      BY <1>6 DEF SetCondition, SetReadyReplicas, GetPod, Return
    <2>7. QED
      BY <1>6, <2>1, <2>2, <2>4, <2>5, <2>6, SendKeeps
  <1>7. CASE CallOk /\ pc' # "idle"
    <2>1. /\ pc \in Putting \ {"putState"} /\ pc # "idle"
          /\ write \in Write /\ Carry(write)
          /\ UNCHANGED <<flying, seen, edits>>
          /\ instance' = IF write.kind = "nb" THEN obj'["nb"] ELSE instance
      BY <1>1, <1>7 DEF CallOk, Return, TypeOK, Putting
    <2>2. pc' \notin Putting
      BY <1>7, <2>1 DEF CallOk, NextStage, Putting
    <2>3. \A w \in Writes' : w \in Writes
      BY <2>1, <2>2 DEF Writes
    <2>4. write.kind = "nb" => obj'["nb"].gen = instance.gen /\ obj'["nb"].rv \in 1 .. rv'
      <3> SUFFICES ASSUME write.kind = "nb"
                   PROVE  obj'["nb"].gen = instance.gen /\ obj'["nb"].rv \in 1 .. rv'
        OBVIOUS
      <3>1. pc # "putSvc"
        BY <1>1, <2>1 DEF TypeOK
      <3>2. write.new.gen = instance.gen
        BY <2>1, <3>1 DEF IndInv, InOrder
      <3>3. write.new \in NotebookObject
        BY <2>1, WriteType
      <3>4. write.new.rv \in 1 .. rv
        BY <2>1 DEF IndInv, PastVersions, Writes
      <3>5. CASE UNCHANGED <<obj, rv, news>> /\ obj["nb"] = write.new
        BY <3>2, <3>4, <3>5
      <3>6. CASE Put("nb", write.new)
        <4>1. /\ rv' = rv + 1
              /\ obj'["nb"].gen = write.new.gen /\ obj'["nb"].rv = rv + 1
          BY <1>1, <3>3, <3>6, PutFields DEF TypeOK, Kind
        <4>2. QED
          BY <1>1, <3>2, <4>1 DEF Numbers
      <3>7. QED
        BY <2>1, <3>5, <3>6 DEF Carry
    <2>5. /\ instance'.gen = instance.gen
          /\ \/ instance' = instance
             \/ instance' = obj'["nb"] /\ instance'.rv \in 1 .. rv'
      <3>1. CASE write.kind = "nb"
        BY <2>1, <2>4, <3>1
      <3>2. CASE write.kind # "nb"
        BY <2>1, <3>2
      <3>3. QED
        BY <3>1, <3>2
    <2>6. QED
      BY <1>1, <2>1, <2>2, <2>3, <2>5, ServerKeeps
  <1>8. QED
    BY <1>2, <1>3, <1>4, <1>5, <1>6, <1>7
    DEF Reconcile, CallRefused, CallFails, GetFails, Fails, Return

LEMMA InitInv == Init => IndInv
  <1> SUFFICES ASSUME Init PROVE IndInv
    OBVIOUS
  <1>1. /\ obj["nb"] = None /\ obj["sts"] = None
        /\ seen["nb"] = None /\ seen["sts"] = None
        /\ pc = "idle" /\ Writes = {}
    BY DEF Init, Kind, Writes, Putting
  <1>2. InOrder
    BY <1>1 DEF InOrder, Made, Putting
  <1>3. PastVersions
    BY <1>1 DEF PastVersions
  <1>4. CopyCurrent /\ NoOldWrites
    BY <1>1 DEF CopyCurrent, NoOldWrites
  <1>5. QED
    BY <1>2, <1>3, <1>4, InitType DEF IndInv

LEMMA InvStep == IndInv /\ [Next]_vars => IndInv'
  <1> SUFFICES ASSUME IndInv, [Next]_vars PROVE IndInv'
    OBVIOUS
  <1>1. TypeOK' /\ TypeOK /\ Served
    BY TypeStep, StepServed DEF IndInv
  <1>2. CASE Reconcile
    BY <1>1, <1>2, ReconcileKeeps
  <1>3. CASE Restart
    <2>1. \A w \in Writes' : w \in Writes
      BY <1>3 DEF Restart, Writes, Putting
    <2>2. obj' = obj /\ seen' = obj /\ edits' = edits /\ pc' = "idle"
      BY <1>3 DEF Restart
    <2>3. QED
      BY <1>1, <2>1, <2>2, ServerKeeps
  <1>4. ASSUME NEW k \in Kind, Sync(k) PROVE IndInv'
    <2>1. \A w \in Writes' : w \in Writes
      BY <1>4 DEF Sync, Writes
    <2>2. \A j \in {"nb", "sts"} : seen'[j] = seen[j] \/ (seen'[j] = obj[j] /\ obj' = obj)
      BY <1>1, <1>4 DEF Sync, TypeOK, Typed, Kind
    <2>3. UNCHANGED local /\ edits' = edits
      BY <1>4 DEF Sync
    <2>4. QED
      BY <1>1, <2>1, <2>2, <2>3, ServerKeeps
  <1>5. CASE \/ \E w \in flying : LateWrite(w)
             \/ CreateNotebook \/ EditNotebook \/ DeleteNotebook
             \/ \E k \in {"sts", "svc", "pod"} : Collect(k)
             \/ \E k \in {"sts", "svc"} : Tamper(k)
             \/ DropMapping \/ PodChanges
             \/ UNCHANGED vars
    <2>1. /\ UNCHANGED <<seen, local>> /\ flying' \subseteq flying
          /\ edits' \in {edits, edits + 1}
      BY <1>5 DEF LateWrite, CreateNotebook, EditNotebook, DeleteNotebook, Collect, Tamper,
         DropMapping, PodChanges, Outside, vars
    <2>2. \A w \in Writes' : w \in Writes
      BY <2>1 DEF Writes
    <2>3. QED
      BY <1>1, <2>1, <2>2, ServerKeeps
  <1>6. QED
    BY <1>2, <1>3, <1>4, <1>5 DEF Next

(***************************************************************************)
(* The invariant behind NeverReverts: the copies of the notebook are in    *)
(* the order in which they are passed on, versions are past ones, and no   *)
(* write that the server would take is older than what it replaces.        *)
(***************************************************************************)
THEOREM Invariant == Spec => []IndInv
  BY InitInv, InvStep, PTL DEF Spec

(***************************************************************************)
(* The pod template of a StatefulSet never goes back to that of an earlier *)
(* edit, whatever Reconcile's caches are behind by, whichever calls fail,  *)
(* and however late their writes are done: a write names the version it    *)
(* was made from, and that version's template is not newer.                *)
(***************************************************************************)
THEOREM NeverRevertsCorrect == Spec => NeverReverts
  <1>1. IndInv /\ [Next]_vars =>
          [obj["sts"] # None /\ obj'["sts"] # None /\ obj'["sts"].gen # 0
             => obj'["sts"].gen >= obj["sts"].gen]_vars
    <2> SUFFICES ASSUME IndInv, [Next]_vars,
                        obj["sts"] # None, obj'["sts"] # None, obj'["sts"].gen # 0
                 PROVE  obj'["sts"].gen >= obj["sts"].gen
      OBVIOUS
    <2>1. Numbers
      BY NumbersTyped DEF IndInv
    <2>2. StatefulSetServed
      BY StepServed DEF Served
    <2>3. QED
      BY <2>1, <2>2 DEF Numbers, StatefulSetServed
  <1>2. QED
    BY <1>1, Invariant, PTL DEF Spec, NeverReverts

=============================================================================
