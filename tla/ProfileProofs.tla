---------------------------- MODULE ProfileProofs ----------------------------
(***************************************************************************)
(* Theorems about Profile, for any number of edits by users and of failed  *)
(* calls, late writes, restarts and changes by others.                     *)
(***************************************************************************)
EXTENDS Profile, TLAPS

USE ProfileAssumption DEF server, local, bounds, Kind

-----------------------------------------------------------------------------
(* Types *)

\* What is written, by the kind it is written to.
LEMMA WriteType ==
    ASSUME NEW w \in Write
    PROVE  /\ w.kind \in Owned
           /\ w.kind = "ns" => w.new \in Namespace
           /\ w.kind = "role" => w.new \in Role
           /\ w.kind = "binding" => w.new \in Binding
  BY DEF Write, Owned

\* Objects of kind k are of its type.
OfKind(k, o) ==
    /\ k = "profile" => o \in ProfileObject
    /\ k = "ns" => o \in Namespace
    /\ k = "role" => o \in Role
    /\ k = "binding" => o \in Binding

LEMMA VersionType ==
    ASSUME NEW k \in Kind, NEW o, OfKind(k, o), NEW n \in Int
    PROVE  OfKind(k, [o EXCEPT !.rv = n])
  BY DEF OfKind, ProfileObject, Namespace, Role, Binding

\* The server's state stays typed when an object of the kind's type is put.
LEMMA PutType ==
    ASSUME Typed(obj), rv \in Nat, news \subseteq Kind,
           NEW k \in Kind, NEW o, OfKind(k, o), Put(k, o)
    PROVE  /\ Typed(obj')
           /\ rv' \in Nat
           /\ news' \subseteq Kind
  <1>1. rv' \in Nat /\ news' \subseteq Kind
    BY DEF Put
  <1>2. OfKind(k, obj'[k])
    BY VersionType DEF Put, Typed
  <1>3. DOMAIN obj' = Kind /\ \A j \in Kind \ {k} : obj'[j] = obj[j]
    BY DEF Put, Typed
  <1>4. QED
    BY <1>1, <1>2, <1>3 DEF Typed, OfKind

LEMMA DropType ==
    ASSUME Typed(obj), rv \in Nat, news \subseteq Kind, NEW k \in Kind, Drop(k)
    PROVE  /\ Typed(obj')
           /\ rv' \in Nat
           /\ news' \subseteq Kind
  BY DEF Drop, Typed

LEMMA DeleteType ==
    ASSUME Typed(obj), rv \in Nat, news \subseteq Kind,
           NEW k \in Owned, obj[k] # None, Delete(k)
    PROVE  /\ Typed(obj')
           /\ rv' \in Nat
           /\ news' \subseteq Kind
  <1>1. CASE k = "ns"
    <2>1. OfKind("ns", [obj["ns"] EXCEPT !.dying = TRUE])
      BY <1>1 DEF OfKind, Typed, Namespace
    <2>2. QED
      BY <1>1, <2>1, PutType DEF Delete
  <1>2. CASE k # "ns"
    BY <1>2, DropType DEF Delete, Owned
  <1>3. QED
    BY <1>1, <1>2

LEMMA CarryType ==
    ASSUME Typed(obj), rv \in Nat, news \subseteq Kind, NEW w \in Write, Carry(w)
    PROVE  /\ Typed(obj')
           /\ rv' \in Nat
           /\ news' \subseteq Kind
  <1>1. CASE UNCHANGED <<obj, rv, news>>
    BY <1>1 DEF Typed
  <1>2. CASE Put(w.kind, w.new)
    BY <1>2, WriteType, PutType DEF OfKind, Owned
  <1>3. QED
    BY <1>1, <1>2 DEF Carry

LEMMA InitType == Init => TypeOK
  <1> SUFFICES ASSUME Init PROVE TypeOK
    OBVIOUS
  <1>1. 0 \in User
    BY DEF User
  <1>2. Typed(obj)
    <2> DEFINE Ns == [owner |-> 0, dying |-> FALSE, rv |-> 1]
               Bd == [owner |-> 0, ref |-> "other", user |-> 0, rv |-> 1]
    <2>1. Ns \in Namespace /\ Bd \in Binding
      BY <1>1 DEF Namespace, Binding
    <2>2. /\ DOMAIN obj = Kind
          /\ obj["profile"] = None /\ obj["role"] = None
          /\ obj["ns"] \in {None, Ns}
          /\ obj["binding"] \in {None, Bd}
      BY DEF Init, Found
    <2> HIDE DEF Ns, Bd
    <2>3. QED
      BY <2>1, <2>2 DEF Typed
  <1>3. 0 \in 0 .. MaxMoves /\ 0 \in 0 .. 0
    OBVIOUS
  <1>4. Typed(seen)
    BY <1>2 DEF Init
  <1>5. QED
    BY <1>2, <1>3, <1>4 DEF Init, TypeOK, Putting

\* The profile's users.
LEMMA EditType ==
    ASSUME TypeOK, CreateProfile \/ EditProfile \/ DeleteProfile
    PROVE  TypeOK'
  <1>1. Typed(obj) /\ rv \in Nat /\ news \subseteq Kind
    BY DEF TypeOK
  <1>2. edits' = edits + 1 /\ moves' \in 0 .. MaxMoves /\ edits' \in 0 .. moves'
    BY DEF CreateProfile, EditProfile, DeleteProfile, Edit, Trouble, TypeOK
  <1>3. edits' \in User \ {0}
    BY <1>2 DEF TypeOK, User
  <1>4. Typed(obj') /\ rv' \in Nat /\ news' \subseteq Kind
    <2>1. CASE CreateProfile
      <3>1. OfKind("profile", [uid |-> edits', user |-> edits', rv |-> 0])
        BY <1>3 DEF OfKind, ProfileObject
      <3>2. QED
        BY <1>1, <2>1, <3>1, PutType DEF CreateProfile
    <2>2. CASE EditProfile
      <3>1. OfKind("profile", [obj["profile"] EXCEPT !.user = edits'])
        BY <1>1, <1>3, <2>2 DEF EditProfile, OfKind, Typed, ProfileObject
      <3>2. QED
        BY <1>1, <2>2, <3>1, PutType DEF EditProfile
    <2>3. CASE DeleteProfile
      BY <1>1, <2>3, DropType DEF DeleteProfile
    <2>4. QED
      BY <2>1, <2>2, <2>3
  <1>5. UNCHANGED <<flying, seen, queued, local>>
    BY DEF CreateProfile, EditProfile, DeleteProfile, Outside
  <1>6. QED
    BY <1>2, <1>4, <1>5 DEF TypeOK, Typed

\* The cluster and its other users.
LEMMA OthersType ==
    ASSUME TypeOK, NEW k \in Owned, Collect(k) \/ Terminate(k) \/ Tamper(k)
    PROVE  TypeOK'
  <1>1. Typed(obj) /\ rv \in Nat /\ news \subseteq Kind
    BY DEF TypeOK
  <1>2. obj[k] # None
    BY DEF Collect, Orphan, Terminate, Tamper
  <1>3. Typed(obj') /\ rv' \in Nat /\ news' \subseteq Kind
    <2>1. CASE Delete(k)
      BY <1>1, <1>2, <2>1, DeleteType
    <2>2. CASE Drop(k)
      BY <1>1, <2>2, DropType DEF Owned
    <2>3. CASE k = "role" /\ Put(k, [obj[k] EXCEPT !.rules = "other"])
      <3>1. OfKind("role", [obj["role"] EXCEPT !.rules = "other"])
        BY <1>1, <1>2, <2>3 DEF OfKind, Typed, Role
      <3>2. QED
        BY <1>1, <2>3, <3>1, PutType
    <2>4. CASE k = "binding" /\ Put(k, [obj[k] EXCEPT !.user = 0])
      <3>1. OfKind("binding", [obj["binding"] EXCEPT !.user = 0])
        BY <1>1, <1>2, <2>4 DEF OfKind, Typed, Binding, User
      <3>2. QED
        BY <1>1, <2>4, <3>1, PutType
    <2>5. QED
      BY <2>1, <2>2, <2>3, <2>4 DEF Collect, Terminate, Tamper
  <1>4. /\ UNCHANGED <<flying, seen, queued, local, edits>>
        /\ moves' \in 0 .. MaxMoves /\ edits' \in 0 .. moves'
    BY DEF Collect, Terminate, Tamper, Outside, Trouble, TypeOK
  <1>5. QED
    BY <1>3, <1>4 DEF TypeOK, Typed

LEMMA IdleType ==
    ASSUME TypeOK, Typed(obj'), rv' \in Nat, news' \subseteq Kind, Typed(seen'),
           flying' \subseteq Write, queued' \in BOOLEAN,
           pc' = "idle", write' = None, UNCHANGED edits, moves' \in {moves, moves + 1},
           moves' \in 0 .. MaxMoves
    PROVE  TypeOK'
  BY DEF TypeOK, Typed, Putting
LEMMA ReconcileType == ASSUME TypeOK, Reconcile PROVE TypeOK'
  <1> USE DEF Go
  <1>1. /\ Typed(obj) /\ Typed(seen) /\ rv \in Nat /\ news \subseteq Kind
        /\ flying \subseteq Write
        /\ moves \in 0 .. MaxMoves /\ edits \in 0 .. moves
    BY DEF TypeOK
  <1>2. CASE Take
    <2>1. Typed(obj') /\ Typed(seen')
      BY <1>1, <1>2 DEF Take
    <2>2. pc' # "idle" => instance' \in ProfileObject
      BY <1>1, <1>2 DEF Take, Typed
    <2>3. pc' \in {"idle", "getNs"}
      BY <1>2 DEF Take
    <2>4. QED
      BY <1>1, <1>2, <2>1, <2>2, <2>3 DEF Take, TypeOK, Putting
  <1>3. CASE GetNamespace
    <2>1. Typed(obj') /\ Typed(seen')
      BY <1>1, <1>3 DEF GetNamespace
    <2>2. instance \in ProfileObject /\ instance' = instance
      BY <1>3 DEF GetNamespace, TypeOK
    <2>3. NewNamespace \in Namespace
      BY <2>2 DEF NewNamespace, Namespace, ProfileObject
    <2>4. CASE pc' = "putNs"
      <3>1. write'.kind = "ns" /\ write' \in Write
        BY <1>3, <2>3, <2>4 DEF GetNamespace, Send, Write
      <3>2. QED
        BY <1>1, <1>3, <2>1, <2>2, <2>4, <3>1 DEF GetNamespace, TypeOK, Putting
    <2>5. CASE pc' = "getRole"
      <3>1. write' = None
        BY <1>3, <2>5 DEF GetNamespace, Send, TypeOK, Putting
      <3>2. QED
        BY <1>1, <1>3, <2>1, <2>2, <2>5, <3>1 DEF GetNamespace, TypeOK, Putting
    <2>6. QED
      BY <1>3, <2>4, <2>5 DEF GetNamespace, Send
  <1>4. CASE GetRole
    <2>1. Typed(obj') /\ Typed(seen')
      BY <1>1, <1>4 DEF GetRole
    <2>2. instance \in ProfileObject /\ instance' = instance
      BY <1>4 DEF GetRole, TypeOK
    <2>3. NewRole \in Role
      BY <2>2 DEF NewRole, Role, ProfileObject
    <2>4. seen["role"] # None => [seen["role"] EXCEPT !.rules = "generated"] \in Role
      BY <1>1 DEF Typed, Role
    <2>5. CASE pc' = "putRole"
      <3>1. write'.kind = "role" /\ write' \in Write
        BY <1>4, <2>3, <2>4, <2>5 DEF GetRole, Send, Write
      <3>2. QED
        BY <1>1, <1>4, <2>1, <2>2, <2>5, <3>1 DEF GetRole, TypeOK, Putting
    <2>6. CASE pc' = "getBinding"
      <3>1. write' = None
        BY <1>4, <2>6 DEF GetRole, Send, TypeOK, Putting
      <3>2. QED
        BY <1>1, <1>4, <2>1, <2>2, <2>6, <3>1 DEF GetRole, TypeOK, Putting
    <2>7. QED
      BY <1>4, <2>5, <2>6 DEF GetRole, Send
  <1>5. CASE GetBinding
    <2>1. Typed(obj') /\ Typed(seen')
      BY <1>1, <1>5 DEF GetBinding
    <2>2. instance \in ProfileObject
      BY <1>5 DEF GetBinding, TypeOK
    <2>3. NewBinding \in Binding
      BY <2>2 DEF NewBinding, Binding, ProfileObject
    <2>4. seen["binding"] # None => Rewritten(seen["binding"]) \in Binding
      BY <1>1, <2>2 DEF Typed, Rewritten, Binding, ProfileObject
    <2>5. CASE pc' = "putBinding"
      <3>1. write'.kind = "binding" /\ write' \in Write /\ UNCHANGED <<queued, instance>>
        BY <1>5, <2>3, <2>4, <2>5 DEF GetBinding, Send, Write, Return
      <3>2. QED
        BY <1>1, <1>5, <2>1, <2>2, <2>5, <3>1 DEF GetBinding, TypeOK, Putting
    <2>6. CASE Return(FALSE)
      BY <1>1, <1>5, <2>1, <2>6, IdleType DEF GetBinding, Return, TypeOK
    <2>7. QED
      BY <1>5, <2>5, <2>6 DEF GetBinding, Send
  <1>6. CASE CallOk
    <2>1. pc \in Putting /\ write \in Write /\ Carry(write)
      BY <1>6 DEF CallOk, TypeOK
    <2>2. Typed(obj') /\ rv' \in Nat /\ news' \subseteq Kind
      BY <1>1, <2>1, CarryType
    <2>3. Typed(seen')
      BY <1>1, <1>6 DEF CallOk
    <2>4. CASE Return(TRUE) \/ Return(FALSE)
      BY <1>1, <1>6, <2>2, <2>3, <2>4, IdleType DEF CallOk, Return, TypeOK
    <2>5. CASE /\ pc' \in {"getRole", "getBinding"} /\ write' = None
               /\ UNCHANGED <<queued, instance>>
      <3>1. instance \in ProfileObject
        BY <2>1 DEF TypeOK, Putting
      <3>2. QED
        BY <1>1, <1>6, <2>2, <2>3, <2>5, <3>1 DEF CallOk, TypeOK, Putting
    <2>6. QED
      BY <1>6, <2>4, <2>5 DEF CallOk, AfterCreation, AfterUpdate
  <1>7. CASE CallRefused
    <2>1. Typed(obj') /\ Typed(seen')
      BY <1>1, <1>7 DEF CallRefused
    <2>2. QED
      BY <1>1, <1>7, <2>1, IdleType DEF CallRefused, Return, TypeOK
  <1>8. CASE CallFails
    <2>1. write \in Write
      BY <1>8 DEF CallFails, TypeOK
    <2>2. Typed(obj') /\ rv' \in Nat /\ news' \subseteq Kind /\ flying' \subseteq Write
      <3>1. CASE UNCHANGED server
        BY <1>1, <3>1
      <3>2. CASE Carry(write) /\ UNCHANGED flying
        BY <1>1, <2>1, <3>2, CarryType
      <3>3. CASE flying' = flying \union {write} /\ UNCHANGED <<obj, rv, news>>
        BY <1>1, <2>1, <3>3
      <3>4. QED
        BY <1>8, <3>1, <3>2, <3>3 DEF CallFails
    <2>3. Typed(seen')
      BY <1>1, <1>8 DEF CallFails, Fails
    <2>4. QED
      BY <1>1, <1>8, <2>2, <2>3, IdleType DEF CallFails, Fails, Return, Trouble, TypeOK
  <1>9. CASE GetFails
    <2>1. Typed(obj') /\ Typed(seen')
      BY <1>1, <1>9 DEF GetFails, Fails
    <2>2. QED
      BY <1>1, <1>9, <2>1, IdleType DEF GetFails, Fails, Return, Trouble, TypeOK
  <1>10. QED
    BY <1>2, <1>3, <1>4, <1>5, <1>6, <1>7, <1>8, <1>9 DEF Reconcile

LEMMA TypeStep == TypeOK /\ [Next]_vars => TypeOK'
  <1> SUFFICES ASSUME TypeOK, [Next]_vars PROVE TypeOK'
    OBVIOUS
  <1>1. /\ Typed(obj) /\ Typed(seen) /\ rv \in Nat /\ news \subseteq Kind
        /\ flying \subseteq Write
    BY DEF TypeOK
  <1>2. CASE Reconcile
    BY <1>2, ReconcileType
  <1>3. CASE Restart
    <2>1. Typed(obj') /\ Typed(seen')
      BY <1>1, <1>3 DEF Restart
    <2>2. flying' \subseteq Write
      BY <1>1, <1>3 DEF Restart, TypeOK
    <2>3. queued' \in BOOLEAN
      BY <1>3 DEF Restart
    <2>4. QED
      BY <1>1, <1>3, <2>1, <2>2, <2>3, IdleType DEF Restart, Trouble, TypeOK
  <1>4. ASSUME NEW k \in Kind, Sync(k) PROVE TypeOK'
    <2>1. Typed(obj') /\ Typed(seen')
      BY <1>1, <1>4 DEF Sync, Typed
    <2>2. QED
      BY <1>1, <1>4, <2>1 DEF Sync, TypeOK
  <1>5. ASSUME NEW w \in flying, LateWrite(w) PROVE TypeOK'
    <2>1. w \in Write
      BY <1>1
    <2>2. Typed(obj') /\ rv' \in Nat /\ news' \subseteq Kind
      BY <1>1, <1>5, <2>1, CarryType DEF LateWrite
    <2>3. Typed(seen') /\ flying' \subseteq Write
      BY <1>1, <1>5 DEF LateWrite
    <2>4. QED
      BY <1>5, <2>2, <2>3 DEF LateWrite, TypeOK
  <1>6. CASE CreateProfile \/ EditProfile \/ DeleteProfile
    BY <1>6, EditType
  <1>7. ASSUME NEW k \in Owned, Collect(k) \/ Terminate(k) \/ Tamper(k) PROVE TypeOK'
    BY <1>7, OthersType
  <1>8. CASE UNCHANGED vars
    BY <1>1, <1>8 DEF vars, TypeOK, Typed
  <1>9. QED
    BY <1>2, <1>3, <1>4, <1>5, <1>6, <1>7, <1>8 DEF Next

(***************************************************************************)
(* The variables keep their types; in particular, whatever fails and       *)
(* whenever the controller starts again, the write in hand is of the kind  *)
(* that the stage of Reconcile sends, and none is in hand between.         *)
(***************************************************************************)
THEOREM TypeCorrect == Spec => []TypeOK
  BY InitType, TypeStep, PTL DEF Spec

-----------------------------------------------------------------------------
(* What a step does to the profile and the role binding on the server *)

\* The profile's user stays, or is that of the edit this step makes.
ProfileServed ==
    obj'["profile"] # None =>
        \/ obj["profile"] # None /\ obj'["profile"].user = obj["profile"].user
        \/ edits' = edits + 1 /\ obj'["profile"].user = edits'

(***************************************************************************)
(* The binding stays, or gets a new version: its own user again, somebody  *)
(* else, or the user of a write which is not older.                        *)
(***************************************************************************)
BindingServed ==
    obj'["binding"] # None =>
        \/ /\ obj["binding"] # None
           /\ obj'["binding"].user = obj["binding"].user
           /\ obj'["binding"].rv = obj["binding"].rv
        \/ /\ rv' = rv + 1 /\ obj'["binding"].rv = rv + 1
           /\ \/ obj'["binding"].user = 0
              \/ \E w \in Writes :
                    /\ w.kind = "binding" /\ obj'["binding"].user = w.new.user
                    /\ obj["binding"] # None => w.new.user >= obj["binding"].user

Served == ProfileServed /\ BindingServed /\ rv' \in {rv, rv + 1}

LEMMA PutOthers ==
    ASSUME Typed(obj), NEW k \in Kind, NEW o, Put(k, o)
    PROVE  rv' = rv + 1 /\ \A j \in Kind \ {k} : obj'[j] = obj[j]
  BY DEF Put, Typed

LEMMA PutFields ==
    ASSUME Typed(obj), NEW k \in {"profile", "binding"},
           NEW o \in ProfileObject \union Binding, Put(k, o)
    PROVE  obj'[k].user = o.user /\ obj'[k].rv = rv + 1
  <1>1. obj'[k] = [o EXCEPT !.rv = rv + 1]
    BY DEF Put, Typed
  <1>2. [o EXCEPT !.rv = rv + 1].user = o.user /\ [o EXCEPT !.rv = rv + 1].rv = rv + 1
    BY DEF ProfileObject, Binding
  <1>3. QED
    BY <1>1, <1>2

LEMMA UnchangedServed ==
    ASSUME rv' \in {rv, rv + 1}, obj'["profile"] = obj["profile"],
           obj'["binding"] \in {obj["binding"], None}
    PROVE  Served
  BY DEF Served, ProfileServed, BindingServed

LEMMA DropServed ==
    ASSUME Typed(obj), NEW k \in Owned, Drop(k)
    PROVE  Served
  BY UnchangedServed DEF Drop, Typed, Owned

LEMMA DeleteServed ==
    ASSUME Typed(obj), NEW k \in Owned, Delete(k)
    PROVE  Served
  <1>1. CASE k = "ns"
    BY <1>1, PutOthers, UnchangedServed DEF Delete
  <1>2. CASE k # "ns"
    BY <1>2, DropServed DEF Delete
  <1>3. QED
    BY <1>1, <1>2

\* An accepted write of the binding has a user who is not an earlier one.
LEMMA CarryServed ==
    ASSUME Ordered, NEW w \in Writes, Carry(w)
    PROVE  Served
  <1>1. Typed(obj) /\ w \in Write
    BY DEF Ordered, TypeOK, Writes
  <1>2. CASE UNCHANGED <<obj, rv, news>>
    BY <1>2, UnchangedServed
  <1>3. CASE Put(w.kind, w.new)
    <2>1. w.kind \in Owned /\ (w.kind = "binding" => w.new \in Binding)
      BY <1>1, WriteType
    <2>2. rv' = rv + 1 /\ \A j \in Kind \ {w.kind} : obj'[j] = obj[j]
      BY <1>1, <1>3, <2>1, PutOthers DEF Owned
    <2>3. CASE w.kind = "binding"
      <3>1. obj'["binding"].user = w.new.user /\ obj'["binding"].rv = rv + 1
        BY <1>1, <1>3, <2>1, <2>3, PutFields
      <3>2. w.new.rv \in 0 .. rv
        BY <2>3 DEF Ordered, PastVersions
      <3>3. obj["binding"] # None => w.new.rv = obj["binding"].rv
        BY <2>3, <3>2 DEF Carry, Accepts, Unversioned, Ordered, TypeOK
      <3>4. obj["binding"] # None => w.new.user >= obj["binding"].user
        BY <2>3, <3>3 DEF Ordered, NoOldWrites
      <3>5. QED
        BY <2>2, <2>3, <3>1, <3>4 DEF Served, ProfileServed, BindingServed
    <2>4. CASE w.kind # "binding"
      BY <2>1, <2>2, <2>4, UnchangedServed DEF Owned
    <2>5. QED
      BY <2>3, <2>4
  <1>4. QED
    BY <1>2, <1>3 DEF Carry

LEMMA EditServed ==
    ASSUME TypeOK, CreateProfile \/ EditProfile \/ DeleteProfile
    PROVE  Served
  <1>1. Typed(obj)
    BY DEF TypeOK
  <1>2. edits' = edits + 1 /\ edits' \in User \ {0}
    BY DEF CreateProfile, EditProfile, DeleteProfile, Edit, Trouble, TypeOK, User
  <1>3. ASSUME NEW o \in ProfileObject, o.user = edits', Put("profile", o) PROVE Served
    <2>1. obj'["profile"].user = edits'
      BY <1>1, <1>3, PutFields
    <2>2. rv' = rv + 1 /\ obj'["binding"] = obj["binding"]
      BY <1>1, <1>3, PutOthers
    <2>3. QED
      BY <1>2, <2>1, <2>2 DEF Served, ProfileServed, BindingServed
  <1>4. CASE CreateProfile
    <2> DEFINE o == [uid |-> edits', user |-> edits', rv |-> 0]
    <2>1. o \in ProfileObject /\ o.user = edits'
      BY <1>2 DEF ProfileObject
    <2>2. Put("profile", o)
      BY <1>4 DEF CreateProfile
    <2> HIDE DEF o
    <2>3. QED
      BY <1>3, <2>1, <2>2
  <1>5. CASE EditProfile
    <2> DEFINE o == [obj["profile"] EXCEPT !.user = edits']
    <2>1. o \in ProfileObject /\ o.user = edits'
      BY <1>1, <1>2, <1>5 DEF ProfileObject, Typed, EditProfile
    <2>2. Put("profile", o)
      BY <1>5 DEF EditProfile
    <2> HIDE DEF o
    <2>3. QED
      BY <1>3, <2>1, <2>2
  <1>6. CASE DeleteProfile
    <2>1. obj'["profile"] = None /\ obj'["binding"] = obj["binding"] /\ rv' = rv
      BY <1>1, <1>6 DEF DeleteProfile, Drop, Typed
    <2>2. QED
      BY <2>1 DEF Served, ProfileServed, BindingServed
  <1>7. QED
    BY <1>4, <1>5, <1>6

LEMMA OthersServed ==
    ASSUME TypeOK, NEW k \in Owned, Collect(k) \/ Terminate(k) \/ Tamper(k)
    PROVE  Served
  <1>1. Typed(obj)
    BY DEF TypeOK
  <1>2. CASE Delete(k) \/ Drop(k)
    BY <1>1, <1>2, DeleteServed, DropServed
  <1>3. CASE k = "role" /\ \E o : Put(k, o)
    BY <1>1, <1>3, PutOthers, UnchangedServed
  <1>4. CASE k = "binding" /\ obj[k] # None /\ Put(k, [obj[k] EXCEPT !.user = 0])
    <2> DEFINE o == [obj["binding"] EXCEPT !.user = 0]
    <2>1. o \in Binding /\ o.user = 0
      BY <1>1, <1>4 DEF Binding, Typed, User
    <2>2. Put("binding", o)
      BY <1>4
    <2> HIDE DEF o
    <2>3. /\ obj'["binding"].user = 0 /\ obj'["binding"].rv = rv + 1
          /\ rv' = rv + 1 /\ obj'["profile"] = obj["profile"]
      BY <1>1, <2>1, <2>2, PutFields, PutOthers
    <2>4. QED
      BY <2>3 DEF Served, ProfileServed, BindingServed
  <1>5. QED
    BY <1>2, <1>3, <1>4 DEF Collect, Terminate, Tamper

LEMMA StepServed == Ordered /\ [Next]_vars => Served
  <1> SUFFICES ASSUME Ordered, [Next]_vars PROVE Served
    OBVIOUS
  <1>1. CASE Reconcile
    <2>1. CASE UNCHANGED <<obj, rv>>
      BY <2>1, UnchangedServed
    <2>2. CASE pc \in Putting /\ Carry(write)
      BY <2>2, CarryServed DEF Writes
    <2>3. QED
      BY <1>1, <2>1, <2>2 DEF Reconcile, Take, GetNamespace, GetRole, GetBinding,
         CallOk, CallRefused, CallFails, GetFails
  <1>2. ASSUME NEW w \in flying, LateWrite(w) PROVE Served
    BY <1>2, UnchangedServed, CarryServed DEF LateWrite, Writes
  <1>3. CASE CreateProfile \/ EditProfile \/ DeleteProfile
    BY <1>3, EditServed DEF Ordered
  <1>4. ASSUME NEW k \in Owned, Collect(k) \/ Terminate(k) \/ Tamper(k) PROVE Served
    BY <1>4, OthersServed DEF Ordered
  <1>5. CASE Restart \/ UNCHANGED vars \/ \E k \in Kind : Sync(k)
    BY <1>5, UnchangedServed DEF Restart, Sync, vars
  <1>6. QED
    BY <1>1, <1>2, <1>3, <1>4, <1>5 DEF Next

-----------------------------------------------------------------------------
(* The invariant *)

\* What the comparisons of edits and of versions are about are numbers.
Numbers ==
    /\ rv \in Nat /\ edits \in Nat
    /\ obj["profile"] # None => obj["profile"].user \in Nat
    /\ seen["profile"] # None => seen["profile"].user \in Nat
    /\ obj["binding"] # None => obj["binding"].user \in Nat /\ obj["binding"].rv \in Int
    /\ seen["binding"] # None => seen["binding"].user \in Nat /\ seen["binding"].rv \in Int
    /\ pc # "idle" => instance.user \in Nat
    /\ \A w \in Writes : w.kind = "binding" => w.new.user \in Nat /\ w.new.rv \in Int

LEMMA NumbersTyped == TypeOK => Numbers
  <1> SUFFICES ASSUME TypeOK PROVE Numbers
    OBVIOUS
  <1>1. /\ \A o \in ProfileObject : o.user \in Nat
        /\ \A o \in Binding : o.user \in Nat /\ o.rv \in Int
    BY DEF ProfileObject, Binding, User
  <1>2. \A w \in Writes : w \in Write
    BY DEF TypeOK, Writes
  <1>3. QED
    BY <1>1, <1>2, WriteType DEF Numbers, TypeOK, Typed

\* Bound(n), of the state after the step.
BoundNext(n) ==
    /\ obj'["binding"] # None => obj'["binding"].user <= n
    /\ seen'["binding"] # None => seen'["binding"].user <= n
    /\ \A w \in Writes' : w.kind = "binding" => w.new.user <= n

\* A user that a step binds is of an edit that was there, or of n or before.
LEMMA BoundKept ==
    ASSUME Numbers, Served, NEW n \in Nat, Bound(n),
           seen'["binding"] \in {seen["binding"], obj["binding"]},
           \A w \in Writes' : w \in Writes \/ (w.kind = "binding" => w.new.user <= n)
    PROVE  BoundNext(n)
  <1>1. obj'["binding"] # None => obj'["binding"].user <= n
    BY DEF Numbers, Served, BindingServed, Bound
  <1>2. seen'["binding"] # None => seen'["binding"].user <= n
    BY DEF Bound
  <1>3. QED
    BY <1>1, <1>2 DEF Bound, BoundNext

(***************************************************************************)
(* A step that sends no binding keeps the invariant: one of the server,    *)
(* one that brings the caches up to date, and any of Reconcile but Take    *)
(* and GetBinding.                                                         *)
(***************************************************************************)
LEMMA ServerKeeps ==
    ASSUME Ordered, TypeOK', Served,
           \A k \in {"profile", "binding"} :
              \/ seen'[k] = seen[k]
              \/ seen'[k] = obj[k] /\ obj' = obj,
           \A w \in Writes' : w \in Writes \/ w.kind # "binding",
           edits' \in {edits, edits + 1},
           pc' = "idle" \/ (pc # "idle" /\ instance' = instance)
    PROVE  Ordered'
  <1>1. Numbers /\ Numbers'
    BY NumbersTyped, PTL DEF Ordered
  <1>2. \A n \in Nat : Bound(n) => BoundNext(n)
    BY <1>1, BoundKept
  <1>3. InOrder'
    <2>1. BoundNext(edits')
      <3>1. Bound(edits) /\ BoundNext(edits)
        BY <1>1, <1>2 DEF Ordered, InOrder, Numbers
      <3>2. QED
        BY <1>1, <3>1 DEF BoundNext, Numbers
    <2>2. pc' # "idle" =>
             /\ instance'.user = instance.user /\ pc # "idle"
             /\ BoundNext(instance'.user) /\ instance'.user <= edits'
      BY <1>1, <1>2 DEF Ordered, InOrder, Numbers
    <2>3. obj["profile"] # None => BoundNext(obj["profile"].user)
      BY <1>1, <1>2 DEF Ordered, InOrder, Numbers
    <2>4. obj'["profile"] # None =>
             /\ BoundNext(obj'["profile"].user) /\ obj'["profile"].user <= edits'
             /\ pc' # "idle" => instance'.user <= obj'["profile"].user
             /\ seen'["profile"] # None => seen'["profile"].user <= obj'["profile"].user
      <3>1. CASE obj'["profile"].user = edits' /\ edits' = edits + 1
        BY <1>1, <2>1, <2>2, <3>1 DEF Ordered, InOrder, Numbers
      <3>2. CASE obj["profile"] # None /\ obj'["profile"].user = obj["profile"].user
        BY <1>1, <2>2, <2>3, <3>2 DEF Ordered, InOrder, Numbers
      <3>3. QED
        BY <3>1, <3>2 DEF Served, ProfileServed
    <2>5. seen'["profile"] # None =>
             /\ BoundNext(seen'["profile"].user) /\ seen'["profile"].user <= edits'
             /\ pc' # "idle" => instance'.user <= seen'["profile"].user
      <3>1. CASE seen'["profile"] = seen["profile"]
        BY <1>1, <1>2, <2>2, <3>1 DEF Ordered, InOrder, Numbers
      <3>2. CASE seen'["profile"] = obj["profile"] /\ obj' = obj
        BY <2>4, <3>2
      <3>3. QED
        BY <3>1, <3>2
    <2>6. QED
      BY <2>1, <2>2, <2>4, <2>5 DEF InOrder, Bound, BoundNext
  <1>4. PastVersions'
    <2>1. \A n \in Int : (n \in 1 .. rv => n \in 1 .. rv') /\ (n \in 0 .. rv => n \in 0 .. rv')
      BY <1>1 DEF Numbers, Served
    <2>2. obj'["binding"] # None => obj'["binding"].rv \in 1 .. rv'
      BY <1>1, <2>1 DEF Numbers, Ordered, PastVersions, Served, BindingServed
    <2>3. seen'["binding"] # None => seen'["binding"].rv \in 1 .. rv'
      BY <1>1, <2>1, <2>2 DEF Numbers, Ordered, PastVersions
    <2>4. \A w \in Writes' : w.kind = "binding" => w.new.rv \in 0 .. rv'
      BY <2>1 DEF Ordered, PastVersions
    <2>5. QED
      BY <2>2, <2>3, <2>4 DEF PastVersions
  <1>5. NoOldWrites'
    <2> SUFFICES ASSUME obj'["binding"] # None PROVE NoOldWrites'
      BY DEF NoOldWrites
    <2>1. CASE /\ obj["binding"] # None
               /\ obj'["binding"].user = obj["binding"].user
               /\ obj'["binding"].rv = obj["binding"].rv
      BY <2>1 DEF Ordered, NoOldWrites
    <2>2. CASE obj'["binding"].rv = rv + 1
      BY <1>1, <2>2 DEF Numbers, Ordered, PastVersions, NoOldWrites
    <2>3. QED
      BY <2>1, <2>2 DEF Served, BindingServed
  <1>6. QED
    BY <1>3, <1>4, <1>5 DEF Ordered

\* Reconcile takes the profile from the cache.
LEMMA TakeKeeps == ASSUME Ordered, Take, pc' # "idle", TypeOK' PROVE Ordered'
  <1>1. Numbers /\ Served
    BY NumbersTyped, StepServed DEF Ordered, Next, Reconcile
  <1>2. /\ seen["profile"] # None /\ instance' = seen["profile"]
        /\ UNCHANGED <<obj, rv, seen, edits>>
        /\ \A w \in Writes' : w \in Writes
    BY DEF Take, Go, Writes, Putting
  <1>3. \A n \in Nat : Bound(n) => BoundNext(n)
    BY <1>1, <1>2, BoundKept
  <1>4. InOrder'
    BY <1>1, <1>2, <1>3 DEF Ordered, InOrder, Bound, BoundNext, Numbers
  <1>5. PastVersions' /\ NoOldWrites'
    BY <1>2 DEF Ordered, PastVersions, NoOldWrites
  <1>6. QED
    BY <1>4, <1>5 DEF Ordered

\* The binding is sent to the user of Reconcile's copy of the profile.
LEMMA SendKeeps ==
    ASSUME Ordered, GetBinding, pc' # "idle", TypeOK'
    PROVE  Ordered'
  <1>1. Numbers /\ Served /\ TypeOK
    BY NumbersTyped, StepServed DEF Ordered, Next, Reconcile
  <1>2. pc # "idle" /\ UNCHANGED <<obj, rv, seen, flying, edits, instance>>
    BY DEF GetBinding, Return
  <1>3. \A w \in Writes' :
           \/ w \in Writes
           \/ w.kind = "binding" /\ w.new.user = instance.user /\ w.new.rv \in 0 .. rv
    <2>1. NewBinding.user = instance.user /\ NewBinding.rv = 0
      BY DEF NewBinding
    <2>2. ASSUME seen["binding"] # None
          PROVE  /\ Rewritten(seen["binding"]).user = instance.user
                 /\ Rewritten(seen["binding"]).rv = seen["binding"].rv
      BY <1>1, <2>2 DEF Rewritten, TypeOK, Typed, Binding
    <2>3. write'.kind = "binding" /\ write'.new.user = instance.user
          /\ write'.new.rv \in 0 .. rv
      BY <1>1, <2>1, <2>2 DEF GetBinding, Send, Return, Ordered, PastVersions, Numbers
    <2>4. QED
      BY <1>2, <2>3 DEF Writes
  <1>4. Bound(instance.user) /\ instance.user <= edits
    BY <1>2 DEF Ordered, InOrder
  <1>5. \A n \in Nat : Bound(n) /\ instance.user <= n => BoundNext(n)
    BY <1>1, <1>2, <1>3, BoundKept
  <1>6. InOrder'
    <2>1. BoundNext(edits) /\ BoundNext(instance.user)
      BY <1>1, <1>2, <1>4, <1>5 DEF Ordered, InOrder, Numbers
    <2>2. seen["profile"] # None => BoundNext(seen["profile"].user)
      BY <1>1, <1>2, <1>5 DEF Ordered, InOrder, Numbers
    <2>3. obj["profile"] # None => BoundNext(obj["profile"].user)
      BY <1>1, <1>2, <1>5 DEF Ordered, InOrder, Numbers
    <2>4. QED
      BY <1>2, <2>1, <2>2, <2>3 DEF Ordered, InOrder, Bound, BoundNext
  <1>7. PastVersions'
    BY <1>2, <1>3 DEF Ordered, PastVersions
  <1>8. NoOldWrites'
    BY <1>1, <1>2, <1>3, <1>4 DEF Ordered, NoOldWrites, Numbers, Bound
  <1>9. QED
    BY <1>6, <1>7, <1>8 DEF Ordered

LEMMA ReconcileKeeps == ASSUME Ordered, Reconcile, TypeOK' PROVE Ordered'
  <1> USE DEF Go
  <1>1. Served /\ TypeOK
    BY StepServed DEF Next, Ordered
  <1>2. CASE pc' = "idle"
    <2>1. \A w \in Writes' : w \in Writes
      BY <1>2 DEF Reconcile, Take, GetNamespace, GetRole, GetBinding, Send, CallOk,
         CallRefused, CallFails, GetFails, Fails, Return, Writes, Putting
    <2>2. seen' = seen /\ edits' = edits
      BY DEF Reconcile, Take, GetNamespace, GetRole, GetBinding, CallOk, CallRefused,
         CallFails, GetFails, Fails
    <2>3. QED
      BY <1>1, <1>2, <2>1, <2>2, ServerKeeps
  <1>3. CASE Take /\ pc' # "idle"
    BY <1>3, TakeKeeps
  <1>4. CASE GetNamespace \/ GetRole
    <2>1. /\ pc # "idle" /\ instance' = instance
          /\ UNCHANGED <<seen, flying, edits>>
      BY <1>4 DEF GetNamespace, GetRole
    <2>2. \A w \in Writes' : w \in Writes \/ w.kind # "binding"
      BY <1>4 DEF GetNamespace, GetRole, Send, Writes, Putting
    <2>3. QED
      BY <1>1, <2>1, <2>2, ServerKeeps
  <1>5. CASE GetBinding /\ pc' # "idle"
    BY <1>5, SendKeeps
  <1>6. CASE CallOk /\ pc' # "idle"
    <2>1. /\ pc \in Putting /\ pc # "idle" /\ pc' \notin Putting
          /\ instance' = instance /\ UNCHANGED <<flying, seen, edits>>
      BY <1>6 DEF CallOk, AfterCreation, AfterUpdate, Return, Putting
    <2>2. \A w \in Writes' : w \in Writes
      BY <2>1 DEF Writes
    <2>3. QED
      BY <1>1, <2>1, <2>2, ServerKeeps
  <1>7. QED
    BY <1>2, <1>3, <1>4, <1>5, <1>6
    DEF Reconcile, CallRefused, CallFails, GetFails, Fails, Return

LEMMA InitInv == Init => Ordered
  <1> SUFFICES ASSUME Init PROVE Ordered
    OBVIOUS
  <1>1. /\ obj["profile"] = None /\ seen = obj
        /\ obj["binding"] # None => obj["binding"].user = 0 /\ obj["binding"].rv = 1
        /\ pc = "idle" /\ Writes = {} /\ edits = 0 /\ rv = 1
    BY DEF Init, Found, Writes, Putting
  <1>2. InOrder /\ PastVersions /\ NoOldWrites
    BY <1>1 DEF InOrder, Bound, PastVersions, NoOldWrites
  <1>3. QED
    BY <1>2, InitType DEF Ordered

LEMMA InvStep == Ordered /\ [Next]_vars => Ordered'
  <1> SUFFICES ASSUME Ordered, [Next]_vars PROVE Ordered'
    OBVIOUS
  <1>1. TypeOK' /\ TypeOK /\ Served
    BY TypeStep, StepServed DEF Ordered
  <1>2. CASE Reconcile
    BY <1>1, <1>2, ReconcileKeeps
  <1>3. CASE Restart
    <2>1. \A w \in Writes' : w \in Writes
      BY <1>3 DEF Restart, Writes, Putting
    <2>2. obj' = obj /\ seen' = obj /\ edits' = edits /\ pc' = "idle"
      BY <1>3 DEF Restart
    <2>3. QED
      BY <1>1, <2>1, <2>2, ServerKeeps
  <1>4. ASSUME NEW k \in Kind, Sync(k) PROVE Ordered'
    <2>1. \A w \in Writes' : w \in Writes
      BY <1>4 DEF Sync, Writes
    <2>2. \A j \in {"profile", "binding"} :
             seen'[j] = seen[j] \/ (seen'[j] = obj[j] /\ obj' = obj)
      BY <1>1, <1>4 DEF Sync, TypeOK, Typed
    <2>3. UNCHANGED local /\ edits' = edits
      BY <1>4 DEF Sync
    <2>4. QED
      BY <1>1, <2>1, <2>2, <2>3, ServerKeeps
  <1>5. CASE \/ \E w \in flying : LateWrite(w)
             \/ CreateProfile \/ EditProfile \/ DeleteProfile
             \/ \E k \in Owned : Collect(k) \/ Terminate(k) \/ Tamper(k)
             \/ UNCHANGED vars
    <2>1. /\ UNCHANGED <<seen, local>> /\ flying' \subseteq flying
          /\ edits' \in {edits, edits + 1}
      BY <1>5 DEF LateWrite, CreateProfile, EditProfile, DeleteProfile, Edit, Collect,
         Terminate, Tamper, Outside, vars
    <2>2. \A w \in Writes' : w \in Writes
      BY <2>1 DEF Writes
    <2>3. QED
      BY <1>1, <2>1, <2>2, ServerKeeps
  <1>6. QED
    BY <1>2, <1>3, <1>4, <1>5 DEF Next

(***************************************************************************)
(* The invariant behind NeverReverts: users are passed on in the order of  *)
(* the edits that named them, from the profile to the cache, to Reconcile, *)
(* to a write and to the binding, and no write of the binding that the     *)
(* server would still take is older than what it replaces.                 *)
(***************************************************************************)
THEOREM OrderCorrect == Spec => []Ordered
  BY InitInv, InvStep, PTL DEF Spec

(***************************************************************************)
(* A role binding is never given back to a user of an earlier edit,        *)
(* whatever the caches are behind by, whichever calls fail or come late,   *)
(* and although both binding and namespace may be deleted by others: an    *)
(* update names the version it was made from.                              *)
(***************************************************************************)
THEOREM NeverRevertsCorrect == Spec => NeverReverts
  <1>1. Ordered /\ [Next]_vars =>
          [obj["binding"] # None /\ obj'["binding"] # None /\ obj'["binding"].user # 0
             => obj'["binding"].user >= obj["binding"].user]_vars
    <2> SUFFICES ASSUME Ordered, [Next]_vars, obj["binding"] # None,
                        obj'["binding"] # None, obj'["binding"].user # 0
                 PROVE  obj'["binding"].user >= obj["binding"].user
      OBVIOUS
    <2>1. Numbers
      BY NumbersTyped DEF Ordered
    <2>2. BindingServed
      BY StepServed DEF Served
    <2>3. QED
      BY <2>1, <2>2 DEF Numbers, BindingServed
  <1>2. QED
    BY <1>1, OrderCorrect, PTL DEF Spec, NeverReverts

-----------------------------------------------------------------------------
(* What the watches tell *)

\* What a step changes on the server, the watches have an event of.
Told == (\A k \in Kind : obj'[k] = obj[k] \/ k \in news') /\ news \subseteq news'

LEMMA PutTold ==
    ASSUME Typed(obj), NEW k \in Kind, NEW o, Put(k, o)
    PROVE  Told /\ k \in news'
  BY DEF Put, Typed, Told

LEMMA DropTold ==
    ASSUME Typed(obj), NEW k \in Kind, Drop(k)
    PROVE  Told /\ k \in news' /\ obj'[k] = None
  BY DEF Drop, Typed, Told

LEMMA CarryTold ==
    ASSUME Typed(obj), NEW w \in Write, Carry(w)
    PROVE  Told /\ (obj[w.kind] = w.new \/ w.kind \in news')
  <1>1. w.kind \in Kind
    BY WriteType DEF Owned
  <1>2. QED
    BY <1>1, PutTold DEF Carry, Told

\* The steps that only the server takes part in.
Quiet ==
    \/ CreateProfile \/ EditProfile \/ DeleteProfile
    \/ \E k \in Owned : Collect(k) \/ Terminate(k) \/ Tamper(k)
    \/ \E w \in flying : LateWrite(w)

LEMMA QuietTold == ASSUME TypeOK, Quiet PROVE Told /\ UNCHANGED <<seen, queued, local>>
  <1>1. Typed(obj) /\ flying \subseteq Write
    BY DEF TypeOK
  <1>2. CASE CreateProfile \/ EditProfile \/ DeleteProfile
    BY <1>1, <1>2, PutTold, DropTold
    DEF CreateProfile, EditProfile, DeleteProfile, Outside
  <1>3. ASSUME NEW k \in Owned, Collect(k) \/ Terminate(k) \/ Tamper(k)
        PROVE  Told /\ UNCHANGED <<seen, queued, local>>
    <2>1. \/ Drop(k)
          \/ \E o : Put(k, o)
      BY <1>3 DEF Collect, Terminate, Tamper, Delete
    <2>2. UNCHANGED <<seen, queued, local>>
      BY <1>3 DEF Collect, Terminate, Tamper, Outside
    <2>3. QED
      BY <1>1, <2>1, <2>2, PutTold, DropTold DEF Owned
  <1>4. ASSUME NEW w \in flying, LateWrite(w)
        PROVE  Told /\ UNCHANGED <<seen, queued, local>>
    BY <1>1, <1>4, CarryTold DEF LateWrite, Told
  <1>5. QED
    BY <1>2, <1>3, <1>4 DEF Quiet

LEMMA ReconcileTold == ASSUME TypeOK, Reconcile PROVE Told /\ seen' = seen
  <1>1. CASE UNCHANGED <<obj, news>>
    BY <1>1 DEF Told, Reconcile, Take, GetNamespace, GetRole, GetBinding, CallOk,
       CallRefused, CallFails, GetFails, Fails
  <1>2. CASE pc \in Putting /\ Carry(write) /\ seen' = seen
    BY <1>2, CarryTold DEF TypeOK
  <1>3. QED
    BY <1>1, <1>2 DEF Reconcile, Take, GetNamespace, GetRole, GetBinding, CallOk,
       CallRefused, CallFails, GetFails, Fails

LEMMA InitFresh == Init => Fresh
  BY DEF Init, Fresh

LEMMA FreshStep == ASSUME TypeOK, Fresh, [Next]_vars PROVE Fresh'
  <1>1. CASE Told /\ seen' = seen
    BY <1>1 DEF Told, Fresh
  <1>2. CASE Restart
    BY <1>2 DEF Restart, Fresh
  <1>3. CASE \E k \in Kind : Sync(k)
    BY <1>3 DEF Sync, Fresh, TypeOK, Typed
  <1>4. CASE UNCHANGED vars
    BY <1>4 DEF vars, Fresh
  <1>5. QED
    BY <1>1, <1>2, <1>3, <1>4, QuietTold, ReconcileTold DEF Next, Quiet

-----------------------------------------------------------------------------
(* Whose the role and the binding are *)

(***************************************************************************)
(* What a step leaves on the server: nothing in a namespace that is not    *)
(* there, a role of the controller's, and a binding that is the            *)
(* controller's just when it is to the role "edit", whose owner changes    *)
(* only with its version.                                                  *)
(***************************************************************************)
KnownServed ==
    /\ obj'["ns"] = None => obj'["role"] = None /\ obj'["binding"] = None
    /\ obj'["role"] # None => obj'["role"].owner # 0
    /\ obj'["binding"] # None =>
          /\ obj'["binding"].owner = 0 <=> obj'["binding"].ref = "other"
          /\ \/ /\ obj["binding"] # None
                /\ obj'["binding"].owner = obj["binding"].owner
                /\ obj'["binding"].rv = obj["binding"].rv
             \/ obj'["binding"].rv = rv + 1

LEMMA UnchangedKnown == ASSUME Known, obj' = obj PROVE KnownServed
  BY DEF Known, KnownServed

\* What is put at kind k, in a namespace that is there.
LEMMA PutKnown ==
    ASSUME Typed(obj), rv \in Nat, Known, NEW k \in Kind, NEW o, OfKind(k, o), Put(k, o),
           k \in Inside => obj["ns"] # None,
           k = "role" => o.owner # 0,
           k = "binding" => (o.owner = 0 <=> o.ref = "other")
    PROVE  KnownServed
  <1> DEFINE n == [o EXCEPT !.rv = rv + 1]
  <1>1. obj' = [obj EXCEPT ![k] = n]
    BY DEF Put
  <1>2. /\ k = "role" => n.owner = o.owner
        /\ k = "binding" => n.owner = o.owner /\ n.ref = o.ref /\ n.rv = rv + 1
    BY DEF OfKind, Role, Binding
  <1>3. OfKind(k, n)
    BY VersionType
  <1>4. k = "ns" => n # None
    BY <1>3, NoneAssumption DEF OfKind
  <1> HIDE DEF n
  <1>5. QED
    BY <1>1, <1>2, <1>4 DEF Typed, Known, KnownServed, Inside

\* A namespace is empty when it goes.
LEMMA DropKnown ==
    ASSUME Typed(obj), Known, NEW k \in Kind, Drop(k),
           k = "ns" => obj["role"] = None /\ obj["binding"] = None
    PROVE  KnownServed
  BY DEF Typed, Drop, Known, KnownServed

LEMMA CarryKnown ==
    ASSUME Ordered, Known, NEW w \in Writes, w \in Write, Carry(w)
    PROVE  KnownServed
  <1>1. Typed(obj) /\ rv \in Nat
    BY DEF Ordered, TypeOK
  <1>2. w.kind \in Owned /\ OfKind(w.kind, w.new)
    BY WriteType DEF OfKind, Owned
  <1>3. CASE UNCHANGED obj
    BY <1>3, UnchangedKnown
  <1>4. CASE Put(w.kind, w.new)
    <2>1. w.kind \in Inside => obj["ns"] # None
      BY DEF Carry, Accepts, Known, Inside
    <2>2. w.kind = "role" => w.new.owner # 0
      BY DEF Known
    <2>3. ASSUME w.kind = "binding"
          PROVE  w.new.ref = "edit" /\ w.new.owner # 0
      <3>1. w.new.ref = "edit" /\ (w.new.rv = 0 => w.new.owner # 0)
        BY <2>3 DEF Known
      <3>2. CASE w.new.rv # 0
        <4>1. obj["binding"] # None /\ w.new.rv = obj["binding"].rv
              /\ obj["binding"].ref = "edit"
          BY <1>1, <2>3, <3>1, <3>2
          DEF Carry, Accepts, Ordered, PastVersions, Unversioned
        <4>2. w.new.owner = obj["binding"].owner /\ obj["binding"].owner # 0
          BY <2>3, <4>1 DEF Known
        <4>3. QED
          BY <3>1, <4>2
      <3>3. QED
        BY <3>1, <3>2
    <2>4. w.kind \in Kind
      BY <1>2 DEF Owned
    <2>5. QED
      BY <1>1, <1>2, <1>4, <2>1, <2>2, <2>3, <2>4, PutKnown
  <1>5. QED
    BY <1>3, <1>4 DEF Carry

LEMMA EditKnown ==
    ASSUME TypeOK, Known, CreateProfile \/ EditProfile \/ DeleteProfile
    PROVE  KnownServed
  <1>1. DOMAIN obj = Kind
    BY DEF TypeOK, Typed
  <1>2. \A k \in Owned : obj'[k] = obj[k]
    BY <1>1 DEF CreateProfile, EditProfile, DeleteProfile, Put, Drop, Owned
  <1>3. QED
    BY <1>2 DEF Known, KnownServed, Owned

LEMMA OthersKnown ==
    ASSUME TypeOK, Known, NEW k \in Owned, Collect(k) \/ Terminate(k) \/ Tamper(k)
    PROVE  KnownServed
  <1>1. Typed(obj) /\ rv \in Nat /\ k \in Kind /\ obj[k] # None
    BY DEF TypeOK, Owned, Collect, Orphan, Terminate, Tamper
  <1>2. k \in Inside => obj["ns"] # None
    BY <1>1 DEF Known, Inside
  <1>3. CASE Drop(k) /\ (k = "ns" => Terminate(k))
    BY <1>1, <1>3, DropKnown DEF Terminate, Inside
  <1>4. CASE k = "ns" /\ Put("ns", [obj["ns"] EXCEPT !.dying = TRUE])
    <2>1. OfKind("ns", [obj["ns"] EXCEPT !.dying = TRUE])
      BY <1>1, <1>4 DEF OfKind, Typed, Namespace
    <2>2. QED
      BY <1>1, <1>4, <2>1, PutKnown DEF Inside
  <1>5. CASE k = "role" /\ Put(k, [obj[k] EXCEPT !.rules = "other"])
    <2> DEFINE o == [obj["role"] EXCEPT !.rules = "other"]
    <2>1. OfKind("role", o) /\ o.owner = obj["role"].owner
      BY <1>1, <1>5 DEF OfKind, Typed, Role
    <2>2. Put("role", o) /\ obj["role"].owner # 0
      BY <1>1, <1>5 DEF Known
    <2> HIDE DEF o
    <2>3. QED
      BY <1>1, <1>2, <1>5, <2>1, <2>2, PutKnown
  <1>6. CASE k = "binding" /\ Put(k, [obj[k] EXCEPT !.user = 0])
    <2> DEFINE o == [obj["binding"] EXCEPT !.user = 0]
    <2>1. OfKind("binding", o) /\ o.owner = obj["binding"].owner /\ o.ref = obj["binding"].ref
      BY <1>1, <1>6 DEF OfKind, Typed, Binding, User
    <2>2. Put("binding", o) /\ (obj["binding"].owner = 0 <=> obj["binding"].ref = "other")
      BY <1>1, <1>6 DEF Known
    <2> HIDE DEF o
    <2>3. QED
      BY <1>1, <1>2, <1>6, <2>1, <2>2, PutKnown
  <1>7. QED
    BY <1>3, <1>4, <1>5, <1>6 DEF Collect, Terminate, Tamper, Delete

LEMMA StepKnown == ASSUME Ordered, Known, [Next]_vars PROVE KnownServed
  <1>1. TypeOK /\ \A w \in Writes : w \in Write
    BY DEF Ordered, TypeOK, Writes
  <1>2. CASE UNCHANGED obj
    BY <1>2, UnchangedKnown
  <1>3. CASE pc \in Putting /\ Carry(write)
    BY <1>1, <1>3, CarryKnown DEF Writes
  <1>4. ASSUME NEW w \in flying, Carry(w) PROVE KnownServed
    BY <1>1, <1>4, CarryKnown DEF Writes
  <1>5. CASE Reconcile \/ Restart \/ (\E k \in Kind : Sync(k)) \/ UNCHANGED vars
    BY <1>2, <1>3, <1>5 DEF Reconcile, Take, GetNamespace, GetRole, GetBinding, CallOk,
       CallRefused, CallFails, GetFails, Restart, Sync, vars
  <1>6. CASE \E w \in flying : LateWrite(w)
    BY <1>2, <1>4, <1>6 DEF LateWrite
  <1>7. QED
    BY <1>1, <1>5, <1>6, EditKnown, OthersKnown DEF Next

\* A write is made for the controller, from the binding in the cache.
Made(w) ==
    /\ w.kind = "role" => w.new.owner # 0 /\ w.new.rules = "generated"
    /\ w.kind = "binding" =>
          /\ w.new.ref = "edit"
          /\ \/ w.new.rv = 0 /\ w.new.owner # 0
             \/ /\ seen["binding"] # None /\ w.new.rv = seen["binding"].rv
                /\ w.new.owner = seen["binding"].owner

LEMMA KnownKeeps ==
    ASSUME Ordered, Known, KnownServed,
           \A k \in Inside : seen'[k] = seen[k] \/ seen'[k] = obj'[k],
           \A w \in Writes' : w \in Writes \/ (Made(w) /\ UNCHANGED <<obj, seen>>)
    PROVE  Known'
  <1>1. Numbers
    BY NumbersTyped DEF Ordered
  <1>2. PastVersions
    BY DEF Ordered
  <1>3. ASSUME NEW k \in Inside
        PROVE  seen'[k] = seen[k] \/ seen'[k] = obj'[k]
    OBVIOUS
  <1>4. /\ seen'["role"] # None => seen'["role"].owner # 0
        /\ seen'["binding"] # None =>
              (seen'["binding"].owner = 0 <=> seen'["binding"].ref = "other")
    BY <1>3 DEF Known, KnownServed, Inside
  <1>5. ASSUME NEW w \in Writes'
        PROVE  /\ w.kind = "role" => w.new.owner # 0 /\ w.new.rules = "generated"
               /\ w.kind = "binding" =>
                     /\ w.new.ref = "edit"
                     /\ w.new.rv = 0 => w.new.owner # 0
                     /\ obj'["binding"] # None /\ w.new.rv = obj'["binding"].rv
                           => w.new.owner = obj'["binding"].owner
    <2>1. CASE w \in Writes
      BY <1>1, <1>2, <2>1 DEF Known, KnownServed, PastVersions, Numbers
    <2>2. CASE Made(w) /\ UNCHANGED <<obj, seen>>
      BY <1>1, <1>2, <2>2 DEF Made, Known, PastVersions, Numbers
    <2>3. QED
      BY <2>1, <2>2
  <1>6. obj'["binding"] # None /\ seen'["binding"] # None
           /\ seen'["binding"].rv = obj'["binding"].rv
              => seen'["binding"].owner = obj'["binding"].owner
    BY <1>1, <1>2, <1>3 DEF Known, KnownServed, PastVersions, Numbers, Inside
  <1>7. QED
    BY <1>4, <1>5, <1>6 DEF Known, KnownServed

LEMMA InitKnown == Init => Known
  <1> SUFFICES ASSUME Init PROVE Known
    OBVIOUS
  <1>1. /\ obj["role"] = None /\ seen = obj /\ Writes = {}
        /\ obj["ns"] = None => obj["binding"] = None
        /\ obj["binding"] # None => obj["binding"].owner = 0 /\ obj["binding"].ref = "other"
    <2> DEFINE Ns == [owner |-> 0, dying |-> FALSE, rv |-> 1]
               Bd == [owner |-> 0, ref |-> "other", user |-> 0, rv |-> 1]
    <2>1. Bd.owner = 0 /\ Bd.ref = "other"
      OBVIOUS
    <2>2. /\ obj["role"] = None /\ seen = obj /\ Writes = {}
          /\ \/ obj["ns"] = None /\ obj["binding"] = None
             \/ obj["ns"] = Ns /\ obj["binding"] \in {None, Bd}
      BY DEF Init, Found, Writes, Putting
    <2>3. Ns # None
      <3>1. Ns \in Namespace
        BY DEF Namespace, User
      <3>2. QED
        BY <3>1, NoneAssumption
    <2> HIDE DEF Ns, Bd
    <2>4. QED
      BY <2>1, <2>2, <2>3
  <1>2. QED
    BY <1>1 DEF Known

LEMMA KnownStep == ASSUME Ordered, Known, [Next]_vars PROVE Known'
  <1>1. KnownServed /\ TypeOK /\ Typed(seen)
    BY StepKnown DEF Ordered, TypeOK
  <1>2. CASE Reconcile
    <2>1. seen' = seen
      BY <1>1, <1>2, ReconcileTold
    <2>2. CASE \A w \in Writes' : w \in Writes
      BY <1>1, <2>1, <2>2, KnownKeeps
    <2>3. CASE GetNamespace \/ GetRole \/ GetBinding
      <3>1. UNCHANGED <<obj, seen, flying>> /\ (pc' \in Putting => instance \in ProfileObject)
        BY <1>1, <2>3 DEF GetNamespace, GetRole, GetBinding, TypeOK
      <3>2. ASSUME pc' \in Putting PROVE Made(write')
        <4>1. instance.uid # 0
          BY <3>1, <3>2 DEF ProfileObject
        <4>2. CASE GetNamespace
          BY <3>2, <4>2 DEF GetNamespace, Go, Send, Putting, Made
        <4>3. CASE GetRole
          <5> DEFINE o == [seen["role"] EXCEPT !.rules = "generated"]
          <5>1. NewRole.owner # 0 /\ NewRole.rules = "generated"
            BY <4>1 DEF NewRole
          <5>2. seen["role"] # None => o.owner # 0 /\ o.rules = "generated"
            BY <1>1 DEF Typed, Role, Known
          <5>3. \/ write' = [kind |-> "role", new |-> NewRole]
                \/ seen["role"] # None /\ write' = [kind |-> "role", new |-> o]
            BY <3>2, <4>3 DEF GetRole, Go, Send, Putting
          <5> HIDE DEF o
          <5>4. write'.kind = "role" /\ write'.new.owner # 0 /\ write'.new.rules = "generated"
            BY <5>1, <5>2, <5>3
          <5>5. QED
            BY <5>4 DEF Made
        <4>4. CASE GetBinding
          <5>1. NewBinding.owner # 0 /\ NewBinding.ref = "edit" /\ NewBinding.rv = 0
            BY <4>1 DEF NewBinding
          <5>2. seen["binding"] # None =>
                   /\ Rewritten(seen["binding"]).owner = seen["binding"].owner
                   /\ Rewritten(seen["binding"]).rv = seen["binding"].rv
                   /\ Rewritten(seen["binding"]).ref = "edit"
            BY <1>1 DEF Typed, Binding, Rewritten
          <5>3. QED
            BY <3>2, <4>4, <5>1, <5>2 DEF GetBinding, Go, Send, Return, Putting, Made
        <4>5. QED
          BY <2>3, <4>2, <4>3, <4>4
      <3>3. \A w \in Writes' : w \in Writes \/ (Made(w) /\ UNCHANGED <<obj, seen>>)
        BY <3>1, <3>2 DEF Writes
      <3>4. QED
        BY <1>1, <3>1, <3>3, KnownKeeps
    <2>4. CASE Take \/ CallOk \/ CallRefused \/ CallFails \/ GetFails
      <3>1. \A w \in Writes' : w \in Writes
        BY <2>4 DEF Take, CallOk, AfterCreation, AfterUpdate, CallRefused, CallFails,
           GetFails, Fails, Return, Go, Writes, Putting
      <3>2. QED
        BY <2>2, <3>1
    <2>5. QED
      BY <1>2, <2>3, <2>4 DEF Reconcile
  <1>3. CASE Quiet
    <2>1. UNCHANGED <<seen, local>> /\ flying' \subseteq flying
      BY <1>1, <1>3, QuietTold DEF Quiet, LateWrite, CreateProfile, EditProfile,
         DeleteProfile, Collect, Terminate, Tamper, Outside
    <2>2. \A w \in Writes' : w \in Writes
      BY <2>1 DEF Writes
    <2>3. QED
      BY <1>1, <2>1, <2>2, KnownKeeps
  <1>4. CASE Restart
    <2>1. seen' = obj' /\ \A w \in Writes' : w \in Writes
      BY <1>4 DEF Restart, Writes, Putting
    <2>2. QED
      BY <1>1, <2>1, KnownKeeps
  <1>5. ASSUME NEW k \in Kind, Sync(k) PROVE Known'
    <2>1. /\ \A j \in Inside : seen'[j] = seen[j] \/ seen'[j] = obj'[j]
          /\ \A w \in Writes' : w \in Writes
      BY <1>1, <1>5 DEF Sync, Typed, Inside, Writes
    <2>2. QED
      BY <1>1, <2>1, KnownKeeps
  <1>6. CASE UNCHANGED vars
    <2>1. seen' = seen /\ \A w \in Writes' : w \in Writes
      BY <1>6 DEF vars, Writes
    <2>2. QED
      BY <1>1, <2>1, KnownKeeps
  <1>7. QED
    BY <1>2, <1>3, <1>4, <1>5, <1>6 DEF Next, Quiet

-----------------------------------------------------------------------------
(* What Reconcile leaves undone *)

\* What Watchful says of Reconcile while there is no alarm.
Attentive ==
    /\ IF pc = "idle" THEN RoleSeen /\ BindingSeen ELSE instance = seen["profile"]
    /\ pc \in {"getBinding", "putBinding"} => RoleSeen
    /\ pc = "putRole" /\ write.new.rv # 0 => seen["role"] # None
    /\ pc = "putBinding" =>
          /\ write.new.user = instance.user
          /\ write.new.rv # 0 /\ write.new.owner # 0 =>
                seen["binding"] # None /\ seen["binding"].owner # 0

LEMMA WatchfulCases == Watchful <=> (obj["profile"] # None => Alarm \/ Attentive)
  BY DEF Watchful, Attentive

\* An alarm stays while the cache does and the queue is not emptied.
LEMMA AlarmKept ==
    ASSUME Alarm, seen' = seen, queued => queued', news \subseteq news'
    PROVE  Alarm'
  BY DEF Alarm

\* An event of what is in the cache as the controller's is an alarm.
LEMMA NewsAlarm ==
    ASSUME NEW k \in Owned, seen[k] # None, seen[k].owner # 0, k \in news
    PROVE  Alarm
  BY DEF Alarm

\* A watch wakes the controller, or told it of nothing of its own.
LEMMA SyncWatchful ==
    ASSUME TypeOK, Known, Watchful, NEW k \in Kind, Sync(k)
    PROVE  Watchful'
  <1>1. /\ Typed(seen) /\ UNCHANGED <<obj, local>> /\ queued' \in BOOLEAN
        /\ seen' = [seen EXCEPT ![k] = obj[k]] /\ news' = news \ {k}
        /\ queued \/ Wakes(k, seen[k]) \/ Wakes(k, obj[k]) => queued'
    BY DEF Sync, TypeOK
  <1>2. CASE queued'
    BY <1>2 DEF Watchful, Alarm
  <1>3. CASE ~ queued'
    <2>1. k \in Owned /\ ~ queued
      BY <1>1, <1>3 DEF Wakes, Owned
    <2>2. /\ seen[k] = None \/ seen[k].owner = 0
          /\ obj[k] = None \/ obj[k].owner = 0
      BY <1>1, <1>3 DEF Wakes
    <2>3. \A j \in Kind \ {k} : seen'[j] = seen[j] /\ (j \in news => j \in news')
      BY <1>1 DEF Typed
    <2>4. Alarm => Alarm'
      BY <2>1, <2>2, <2>3 DEF Alarm, Owned
    <2>5. ASSUME Attentive PROVE Attentive'
      <3>1. seen'["profile"] = seen["profile"]
        BY <2>1, <2>3 DEF Owned
      <3>2. seen'["role"] = seen["role"]
        BY <1>1, <2>2, <2>3 DEF Known, Typed
      <3>3. \/ seen'["binding"] = seen["binding"]
            \/ seen["binding"] = None \/ seen["binding"].owner = 0
        BY <2>2, <2>3
      <3>4. QED
        BY <1>1, <2>5, <3>1, <3>2, <3>3 DEF Attentive, RoleSeen, BindingSeen
    <2>6. QED
      BY <1>1, <2>4, <2>5 DEF Watchful, Attentive
  <1>4. QED
    BY <1>2, <1>3

\* A call that is answered: an update of what is in the cache as the
\* controller's has an event, unless it changed nothing.
LEMMA CallWatchful ==
    ASSUME Ordered, Fresh, Known, Attentive, CallOk
    PROVE  Alarm' \/ Attentive'
  <1>1. /\ pc \in Putting /\ Carry(write) /\ UNCHANGED seen
        /\ write \in Write /\ write \in Writes
        /\ write.kind = [putNs |-> "ns", putRole |-> "role", putBinding |-> "binding"][pc]
        /\ Typed(obj)
    BY DEF CallOk, Ordered, TypeOK, Writes
  <1>2. Told /\ (obj[write.kind] = write.new \/ write.kind \in news')
    BY <1>1, CarryTold
  <1>3. CASE Return(TRUE)
    BY <1>3 DEF Return, Alarm
  <1>4. CASE pc = "putNs"
    <2>1. pc' = "getRole" /\ UNCHANGED instance
      BY <1>4 DEF CallOk, AfterCreation, AfterUpdate, Go
    <2>2. QED
      BY <1>1, <1>4, <2>1 DEF Attentive
  <1>5. CASE pc = "putRole" /\ ~ Return(TRUE)
    <2>1. pc' = "getBinding" /\ UNCHANGED instance /\ write.new.rv # 0
      BY <1>5 DEF CallOk, AfterCreation, AfterUpdate, Go
    <2>2. seen["role"] # None /\ seen["role"].owner # 0 /\ write.new.rules = "generated"
      BY <1>1, <1>5, <2>1 DEF Attentive, Known
    <2>3. CASE "role" \in news'
      BY <1>1, <2>2, <2>3 DEF Alarm, Owned
    <2>4. CASE "role" \notin news'
      <3>1. obj["role"] = write.new /\ seen["role"] = obj["role"]
        BY <1>1, <1>2, <1>5, <2>4 DEF Told, Fresh
      <3>2. QED
        BY <1>1, <1>5, <2>1, <2>2, <3>1 DEF Attentive, RoleSeen
    <2>5. QED
      BY <2>3, <2>4
  <1>6. CASE pc = "putBinding" /\ ~ Return(TRUE)
    <2>1. Return(FALSE) /\ write.new.rv # 0
      BY <1>6 DEF CallOk, AfterCreation, AfterUpdate
    <2>2. obj["binding"] # None /\ write.new.rv = obj["binding"].rv
          /\ obj["binding"].ref = write.new.ref /\ write.new.ref = "edit"
      BY <1>1, <1>6, <2>1
      DEF Carry, Accepts, Known, Ordered, PastVersions, TypeOK, Unversioned
    <2>3. write.new.owner # 0
      BY <1>1, <1>6, <2>2 DEF Known
    <2>4. seen["binding"] # None /\ seen["binding"].owner # 0 /\ RoleSeen
          /\ write.new.user = instance.user /\ instance = seen["profile"]
      BY <1>6, <2>1, <2>3 DEF Attentive
    <2>5. CASE "binding" \in news'
      BY <1>1, <2>4, <2>5 DEF Alarm, Owned
    <2>6. CASE "binding" \notin news'
      <3>1. obj["binding"] = write.new /\ seen["binding"] = obj["binding"]
        BY <1>1, <1>2, <1>6, <2>6 DEF Told, Fresh
      <3>2. QED
        BY <1>1, <2>1, <2>4, <3>1 DEF Attentive, RoleSeen, BindingSeen, Return
    <2>7. QED
      BY <2>5, <2>6
  <1>7. QED
    BY <1>1, <1>3, <1>4, <1>5, <1>6 DEF Putting

LEMMA ReconcileWatchful ==
    ASSUME Ordered, Fresh, Known, Watchful, Reconcile
    PROVE  Watchful'
  <1> USE DEF Go
  <1>1. TypeOK /\ Told /\ seen' = seen
    BY ReconcileTold DEF Ordered
  <1>2. obj'["profile"] = obj["profile"]
    <2>1. pc \in Putting => write.kind # "profile" /\ write.kind \in Kind
      BY <1>1, WriteType DEF TypeOK, Owned
    <2>2. QED
      BY <1>1, <2>1 DEF Reconcile, Take, GetNamespace, GetRole, GetBinding, CallOk,
         CallRefused, CallFails, GetFails, Carry, Put, TypeOK, Typed
  <1> SUFFICES ASSUME obj["profile"] # None PROVE Alarm' \/ Attentive'
    BY <1>2 DEF Watchful, Attentive
  <1>3. Alarm \/ Attentive
    BY WatchfulCases
  <1>4. CASE Take
    <2>1. CASE seen["profile"] = None
      <3>1. "profile" \in news
        BY <2>1 DEF Fresh
      <3>2. QED
        BY <1>1, <3>1 DEF Told, Alarm
    <2>2. CASE seen["profile"] # None
      <3>1. pc' = "getNs" /\ instance' = seen["profile"]
        BY <1>4, <2>2 DEF Take
      <3>2. QED
        BY <1>1, <3>1 DEF Attentive
    <2>3. QED
      BY <2>1, <2>2
  <1>5. CASE Return(TRUE)
    BY <1>5 DEF Return, Alarm
  <1>6. CASE Alarm /\ ~ Take
    <2>1. queued => queued'
      BY <1>1, <1>6 DEF Reconcile, GetNamespace, GetRole, GetBinding, CallOk, AfterCreation,
         AfterUpdate, CallRefused, CallFails, GetFails, Fails, Return, TypeOK
    <2>2. QED
      BY <1>1, <1>6, <2>1, AlarmKept DEF Told
  <1>7. CASE Attentive /\ GetNamespace
    BY <1>1, <1>7 DEF Attentive, GetNamespace, Send
  <1>8. CASE Attentive /\ GetRole
    <2>1. /\ instance' = seen'["profile"]
          /\ \/ pc' = "putRole" /\ (write'.new.rv # 0 => seen["role"] # None)
             \/ pc' = "getBinding" /\ RoleSeen
      BY <1>1, <1>8 DEF Attentive, GetRole, Send, NewRole, RoleSeen, RoleDiffers
    <2>2. QED
      BY <1>1, <2>1 DEF Attentive, RoleSeen
  <1>9. CASE Attentive /\ GetBinding
    <2>1. RoleSeen /\ RoleSeen' /\ instance = seen["profile"]
      BY <1>1, <1>9 DEF Attentive, GetBinding, RoleSeen
    <2>2. CASE Return(FALSE) /\ pc' = "idle"
      <3>1. seen["binding"] # None /\ seen["binding"].ref = "edit"
            /\ seen["binding"].user = instance.user
        BY <1>9, <2>2 DEF GetBinding, Send
      <3>2. BindingSeen
        BY <2>1, <3>1 DEF BindingSeen, Known
      <3>3. QED
        BY <1>1, <2>1, <2>2, <3>2 DEF Attentive, BindingSeen
    <2>3. CASE pc' = "putBinding" /\ seen["binding"] = None
      <3>1. write' = [kind |-> "binding", new |-> NewBinding] /\ instance' = instance
        BY <1>9, <2>3 DEF GetBinding, Send, Return
      <3>2. write'.new.user = instance'.user /\ write'.new.rv = 0
        BY <3>1 DEF NewBinding
      <3>3. QED
        BY <1>1, <2>1, <2>3, <3>1, <3>2 DEF Attentive
    <2>4. CASE pc' = "putBinding" /\ seen["binding"] # None
      <3>1. /\ write' = [kind |-> "binding", new |-> Rewritten(seen["binding"])]
            /\ instance' = instance
        BY <1>9, <2>4 DEF GetBinding, Send, Return
      <3>2. write'.new.user = instance'.user /\ write'.new.owner = seen["binding"].owner
        BY <1>1, <2>4, <3>1 DEF Rewritten, TypeOK, Typed, Binding
      <3>3. QED
        BY <1>1, <2>1, <2>4, <3>1, <3>2 DEF Attentive
    <2>5. QED
      BY <1>9, <2>2, <2>3, <2>4 DEF GetBinding, Send, Return
  <1>10. CASE Attentive /\ CallOk
    BY <1>10, CallWatchful
  <1>11. QED
    BY <1>3, <1>4, <1>5, <1>6, <1>7, <1>8, <1>9, <1>10
    DEF Reconcile, CallRefused, CallFails, GetFails, Fails

LEMMA QuietWatchful ==
    ASSUME TypeOK, Watchful, Quiet
    PROVE  Watchful'
  <1>1. Told /\ UNCHANGED <<seen, queued, local>>
    BY QuietTold
  <1>2. Alarm => Alarm'
    BY <1>1, AlarmKept DEF Told
  <1>3. Attentive => Attentive'
    BY <1>1 DEF Attentive, RoleSeen, BindingSeen
  <1>4. obj'["profile"] = obj["profile"] \/ "profile" \in news'
    BY <1>1 DEF Told
  <1>5. "profile" \in news' => Alarm'
    BY DEF Alarm
  <1>6. (obj["profile"] # None => Alarm \/ Attentive)
           => (obj'["profile"] # None => Alarm' \/ Attentive')
    BY <1>2, <1>3, <1>4, <1>5
  <1>7. QED
    BY <1>6 DEF Watchful, Attentive

LEMMA WatchfulStep ==
    ASSUME Ordered, Fresh, Known, Watchful, [Next]_vars
    PROVE  Watchful'
  <1>1. TypeOK
    BY DEF Ordered
  <1>2. CASE Reconcile
    BY <1>2, ReconcileWatchful
  <1>3. CASE Quiet
    BY <1>1, <1>3, QuietWatchful
  <1>4. CASE \E k \in Kind : Sync(k)
    BY <1>1, <1>4, SyncWatchful
  <1>5. CASE Restart
    BY <1>5 DEF Restart, Watchful, Alarm, Wakes
  <1>6. CASE UNCHANGED vars
    BY <1>6 DEF vars, Watchful, Alarm, RoleSeen, BindingSeen
  <1>7. QED
    BY <1>2, <1>3, <1>4, <1>5, <1>6 DEF Next, Quiet

(***************************************************************************)
(* The invariant behind RestsWhenDone: with the order of OrderCorrect, the *)
(* caches differ from the server only in what a watch has an event of, the *)
(* controller's own creations and updates never end without an error or an *)
(* event of what it owns, and so no step takes the controller to rest, or  *)
(* past a stage, without what is wanted in the cache or an alarm left.     *)
(***************************************************************************)
THEOREM Invariant == Spec => []IndInv
  <1>1. Init => IndInv
    BY InitInv, InitFresh, InitKnown DEF IndInv, Init, Found, Watchful
  <1>2. IndInv /\ [Next]_vars => IndInv'
    <2> SUFFICES ASSUME IndInv, [Next]_vars PROVE IndInv'
      OBVIOUS
    <2>1. Ordered /\ Fresh /\ Known /\ Watchful /\ TypeOK
      BY DEF IndInv, Ordered
    <2>2. Ordered'
      BY <2>1, InvStep
    <2>3. QED
      BY <2>1, <2>2, FreshStep, KnownStep, WatchfulStep DEF IndInv
  <1>3. QED
    BY <1>1, <1>2, PTL DEF Spec

(***************************************************************************)
(* When Reconcile is idle, nothing is queued and no watch has an event,    *)
(* the cluster matches the profile, whatever calls failed or came late,    *)
(* whatever others changed, and whenever the controller was restarted.     *)
(***************************************************************************)
THEOREM RestsCorrect == Spec => []RestsWhenDone
  <1>1. IndInv => RestsWhenDone
    <2> SUFFICES ASSUME IndInv, ~ Pending PROVE Mirrors
      BY DEF RestsWhenDone
    <2>1. /\ TypeOK /\ Fresh /\ Known /\ Watchful
          /\ pc = "idle" /\ ~ queued /\ news = {}
          /\ \A k \in Owned : ~ Orphan(obj[k])
          /\ obj["ns"] # None => ~ obj["ns"].dying
      BY DEF IndInv, Ordered, Pending
    <2>2. /\ DOMAIN obj = Kind /\ DOMAIN seen = Kind
          /\ \A k \in Kind : seen[k] = obj[k]
      BY <2>1 DEF Fresh, TypeOK, Typed
    <2>3. CASE obj["profile"] = None
      BY <2>1, <2>3 DEF Mirrors, Orphan
    <2>4. CASE obj["profile"] # None
      <3>1. RoleSeen /\ BindingSeen
        BY <2>1, <2>4 DEF Watchful, Alarm
      <3>2. /\ obj["role"] # None /\ obj["role"].rules = "generated"
            /\ obj["binding"] # None
            /\ obj["binding"].user = obj["profile"].user
            /\ obj["binding"].owner # 0
        BY <2>2, <3>1 DEF RoleSeen, BindingSeen
      <3>3. obj["ns"] # None /\ ~ obj["ns"].dying
        BY <2>1, <3>2 DEF Known
      <3>4. obj["binding"].ref = "edit"
        BY <2>1, <3>2 DEF Known, TypeOK, Typed, Binding
      <3>5. \A k \in Owned : obj[k].owner \in {0, obj["profile"].uid}
        BY <2>1, <2>4, <3>2, <3>3 DEF Orphan, Owned
      <3>6. QED
        BY <2>4, <3>2, <3>3, <3>4, <3>5 DEF Mirrors, Owned
    <2>5. QED
      BY <2>3, <2>4
  <1>2. QED
    BY <1>1, Invariant, PTL

=============================================================================
