-------------------------- MODULE UvmServicesProofs --------------------------
(***************************************************************************)
(* Proofs about UvmServices, for any scripts, names and ports and any      *)
(* bounds.                                                                 *)
(***************************************************************************)
EXTENDS UvmServices, SequenceTheorems, WellFoundedInduction, TLAPS

(***************************************************************************)
(* The inductive invariant.  Every list has an object of its own, counted  *)
(* and filled (Listed), and a write that walks has taken no node that its  *)
(* port does not reach, has one pending for each connection it has still   *)
(* to follow, and holds the leaves it took once each (Walked).             *)
(***************************************************************************)
Listed ==
  /\ \A q \in DOMAIN lists :
       /\ Counted(store, lists[q]) /\ Size(store, lists[q]) \in Nat
       /\ \A i \in 0..Size(store, lists[q]) - 1 :
            i \in DOMAIN store[lists[q]].items /\ store[lists[q]].items[i] \in Items
       /\ \A r \in DOMAIN lists : lists[q] = lists[r] => q = r
  /\ \A h \in Live : created[h] = "list" => h \in ListObjects

Among(s) == {s[i] : i \in 1..Len(s)}
LeavesOf(S) == {n \in S : IsLeaf(n)}
CallsOf(S) == UNION {{<<n, i>> : i \in 1..subscribers[n]} : n \in LeavesOf(S)}

Walked(w) ==
  /\ \A S \in SUBSET Ports :
       w.port \in S /\ Closed(S) => w.visited \subseteq S /\ Among(w.pending) \subseteq S
  /\ w.port \in w.visited \cup Among(w.pending)
  /\ \A n \in w.visited : \A i \in 1..Len(links[n]) :
       links[n][i] \in w.visited \cup Among(w.pending)
  /\ EachOnce(w.fifos, LeavesOf(w.visited) \cap FifoPorts)
  /\ EachOnce(w.calls, CallsOf(w.visited))

\* Only the innermost write goes on; the others are in a subscriber.
WritesNested ==
  /\ \A i \in 1..Len(writes) - 1 : writes[i].stage = "callback"
  /\ Writing("walk") => Walked(Top)

ServicesInv == ServicesTypeOK /\ Listed /\ WritesNested

(***************************************************************************)
(* What a step may do to the objects: the kinds that the actions come in.  *)
(***************************************************************************)
Alike(h) ==
  /\ DOMAIN store'[h] = {"type", "fields", "locals", "items"}
  /\ store'[h].type = store[h].type
  /\ created[h] = "process" =>
       /\ DOMAIN store[h].fields \subseteq DOMAIN store'[h].fields
       /\ Field(store', h, "owner") = Field(store, h, "owner")
  /\ created[h] = "list" => store'[h] = store[h]

Touched ==
  /\ UNCHANGED <<created, lists, processes>>
  /\ DOMAIN store' = Live /\ \A h \in Live : Alike(h)

Grown(kind) ==
  /\ Room /\ created' = Append(created, kind)
  /\ DOMAIN store' = Live \cup {NextId} /\ \A h \in Live : store'[h] = store[h]
  /\ DOMAIN store'[NextId] = {"type", "fields", "locals", "items"}

GrownObject ==
  /\ Grown("object") /\ UNCHANGED <<lists, processes>>
  /\ store'[NextId].type \in ClassTypes

GrownProcess ==
  /\ Grown("process") /\ UNCHANGED lists
  /\ processes' = Append(processes, NextId)
  /\ store'[NextId].type = "uvm_process_state"
  /\ {"pc", "status", "event", "owner"} \subseteq DOMAIN store'[NextId].fields
  /\ Field(store', NextId, "owner") \in Items

Plain == Touched \/ GrownObject \/ GrownProcess

\* Nothing is said of the lists, and no connection is made.
Quiet == Abstract!Silent /\ UNCHANGED graphVars /\ writes' \in {writes, <<>>}

-----------------------------------------------------------------------------
(* Helpers.                                                                *)

LEMMA SetFieldFacts ==
  ASSUME NEW s, NEW h \in DOMAIN s, NEW f, NEW v,
         DOMAIN s[h] = {"type", "fields", "locals", "items"}
  PROVE  /\ DOMAIN SetField(s, h, f, v) = DOMAIN s
         /\ \A g \in DOMAIN s : g # h => SetField(s, h, f, v)[g] = s[g]
         /\ DOMAIN SetField(s, h, f, v)[h] = DOMAIN s[h]
         /\ SetField(s, h, f, v)[h].type = s[h].type
         /\ SetField(s, h, f, v)[h].locals = s[h].locals
         /\ SetField(s, h, f, v)[h].items = s[h].items
         /\ SetField(s, h, f, v)[h].fields = Put(s[h].fields, f, v)
  BY DEF SetField

LEMMA SetLocalFacts ==
  ASSUME NEW s, NEW h \in DOMAIN s, NEW n, NEW v,
         DOMAIN s[h] = {"type", "fields", "locals", "items"}
  PROVE  /\ DOMAIN SetLocal(s, h, n, v) = DOMAIN s
         /\ \A g \in DOMAIN s : g # h => SetLocal(s, h, n, v)[g] = s[g]
         /\ DOMAIN SetLocal(s, h, n, v)[h] = DOMAIN s[h]
         /\ SetLocal(s, h, n, v)[h].type = s[h].type
         /\ SetLocal(s, h, n, v)[h].fields = s[h].fields
  BY DEF SetLocal

LEMMA Givens ==
  ASSUME ServicesTypeOK
  PROVE  /\ created \in Seq(Kinds) /\ Len(created) \in Nat /\ DOMAIN created = 1..Len(created)
         /\ NextId \in Nat \ {0} /\ NextId \notin DOMAIN created /\ NextId \notin Live
         /\ \A h \in Objs : h # 0 => h \in DOMAIN created /\ created[h] = "object"
         /\ \A h \in Procs : h # 0 => h \in DOMAIN created /\ created[h] = "process"
         /\ \A h \in Objs \cup Procs : h \in 0..MaxHandles /\ Pointer(h) \in Items
         /\ 0 \notin Live
<1>1. created \in Seq(Kinds) /\ Len(created) \in Nat /\ DOMAIN created = 1..Len(created)
  BY LenProperties DEF ServicesTypeOK
<1> QED
  BY <1>1, SizesAssumption DEF ServicesTypeOK, NextId, Objs, Procs, Given, Items

LEMMA TouchedBySame ==
  ASSUME ServicesTypeOK, UNCHANGED <<store, created, lists, processes>>
  PROVE  Touched
  BY DEF ServicesTypeOK, ObjectsOK, Touched, Alike, Live

LEMMA TouchedByField ==
  ASSUME ServicesTypeOK, NEW h \in Live, NEW f, NEW v, created[h] # "list",
         created[h] = "process" => f # "owner",
         store' = SetField(store, h, f, v), UNCHANGED <<created, lists, processes>>
  PROVE  Touched
<1> USE DEF Live
<1>1. \A g \in Live : DOMAIN store[g] = {"type", "fields", "locals", "items"}
  BY DEF ServicesTypeOK, ObjectsOK
<1>2. DOMAIN store' = DOMAIN store
  BY <1>1, SetFieldFacts
<1>3. ASSUME NEW g \in Live, g # h PROVE Alike(g)
  BY <1>1, <1>3, SetFieldFacts DEF Alike, Field
<1>4. Alike(h)
  <2>1. store'[h].fields = Put(store[h].fields, f, v) /\ store'[h].type = store[h].type
        /\ DOMAIN store'[h] = {"type", "fields", "locals", "items"}
    BY <1>1, SetFieldFacts
  <2>2. created[h] = "process" => "owner" \in DOMAIN store[h].fields
    BY DEF ServicesTypeOK, ObjectsOK
  <2>3. DOMAIN store'[h].fields = DOMAIN store[h].fields \cup {f}
    BY <2>1 DEF Put
  <2>4. created[h] = "process" => store'[h].fields["owner"] = store[h].fields["owner"]
    BY <2>1, <2>2 DEF Put
  <2> QED BY <2>1, <2>3, <2>4 DEF Alike, Field
<1> QED BY <1>2, <1>3, <1>4 DEF Touched

LEMMA TouchedByLocal ==
  ASSUME ServicesTypeOK, NEW h \in Live, NEW n, NEW v, created[h] # "list",
         store' = SetLocal(store, h, n, v), UNCHANGED <<created, lists, processes>>
  PROVE  Touched
<1> USE DEF Live
<1>1. \A g \in Live : DOMAIN store[g] = {"type", "fields", "locals", "items"}
  BY DEF ServicesTypeOK, ObjectsOK
<1> QED BY <1>1, SetLocalFacts DEF Touched, Alike, Field

\* Processes that are notified change their status and nothing else.
LEMMA NotifiedFacts ==
  ASSUME NEW s, NEW events, \A h \in DOMAIN s : DOMAIN s[h] = {"type", "fields", "locals", "items"}
  PROVE  /\ DOMAIN Notified(s, events) = DOMAIN s
         /\ \A h \in DOMAIN s :
              /\ DOMAIN Notified(s, events)[h] = DOMAIN s[h]
              /\ Notified(s, events)[h].type = s[h].type
              /\ DOMAIN s[h].fields \subseteq DOMAIN Notified(s, events)[h].fields
              /\ \A f \in DOMAIN s[h].fields :
                   f # "status" => Notified(s, events)[h].fields[f] = s[h].fields[f]
              /\ h \notin Handles => Notified(s, events)[h] = s[h]
<1>1. DOMAIN Notified(s, events) = DOMAIN s
  BY DEF Notified
<1>2. ASSUME NEW h \in DOMAIN s, Notified(s, events)[h] = s[h]
      PROVE  /\ DOMAIN Notified(s, events)[h] = DOMAIN s[h]
             /\ Notified(s, events)[h].type = s[h].type
             /\ DOMAIN s[h].fields \subseteq DOMAIN Notified(s, events)[h].fields
             /\ \A f \in DOMAIN s[h].fields : Notified(s, events)[h].fields[f] = s[h].fields[f]
  BY <1>2
<1>3. ASSUME NEW h \in DOMAIN s,
             Notified(s, events)[h] = [s[h] EXCEPT !.fields = Put(@, "status", Text("ready"))]
      PROVE  /\ DOMAIN Notified(s, events)[h] = DOMAIN s[h]
             /\ Notified(s, events)[h].type = s[h].type
             /\ DOMAIN s[h].fields \subseteq DOMAIN Notified(s, events)[h].fields
             /\ \A f \in DOMAIN s[h].fields :
                  f # "status" => Notified(s, events)[h].fields[f] = s[h].fields[f]
  <2>1. Notified(s, events)[h].fields = Put(s[h].fields, "status", Text("ready"))
    BY <1>3
  <2>2. DOMAIN Notified(s, events)[h].fields = DOMAIN s[h].fields \cup {"status"}
    BY <2>1 DEF Put
  <2>3. \A f \in DOMAIN s[h].fields :
          f # "status" => Notified(s, events)[h].fields[f] = s[h].fields[f]
    BY <2>1 DEF Put
  <2> QED BY <1>3, <2>2, <2>3
<1>4. \A h \in DOMAIN s :
        \/ Notified(s, events)[h] = s[h]
        \/ h \in Handles
           /\ Notified(s, events)[h] = [s[h] EXCEPT !.fields = Put(@, "status", Text("ready"))]
  BY DEF Notified
<1> QED BY <1>1, <1>2, <1>3, <1>4

-----------------------------------------------------------------------------
(* The kind that each action is of.                                        *)

\* Answers that are not about a list, and exceptions.
LEMMA Answered ==
  ASSUME NEW a, ~Abstract!About(a)
  PROVE  (Answers(a) => Abstract!Silent /\ writes' = writes)
         /\ (Throws => Abstract!Silent /\ writes' = <<>>)
  BY DEF Answers, Throws, Abstract!Silent, Abstract!About

LEMMA PlainAnswers ==
  /\ \A b : ~Abstract!About(Truth(b))
  /\ \A v : IsU64(v) \/ IsPointer(v) => ~Abstract!About(v)
  /\ \A n : ~Abstract!About(U64(n)) /\ ~Abstract!About(Pointer(n))
  /\ ~Abstract!About(Done)
  /\ \A n, m : ~Abstract!About(<<"percent", n, m>>)
  BY DEF Truth, U64, Pointer, Done, IsU64, IsPointer, Abstract!About

LEMMA ObjectCalls ==
  ASSUME ServicesTypeOK, ObjectCall
  PROVE  Touched /\ Quiet /\ UNCHANGED <<script, treeVars, entries, channels, steps, countVars>>
<1> USE DEF heapVars, unlessHeap, unlessLists, taskVars, graphVars
<1>1. PICK h \in Objs :
        \/ Randomize(h)
        \/ \E t \in script.types : IsType(h, t)
        \/ \E f \in script.names :
             \/ LoadU64(h, f) \/ LoadPointer(h, f)
             \/ \E n \in Numbers : StoreField("store_u64", h, f, U64(n))
             \/ \E other \in Objs : StoreField("store_ptr", h, f, Pointer(other))
  BY DEF ObjectCall
<1>2. h \in Live => created[h] = "object"
  BY Givens
<1>3. CASE Randomize(h)
  <2>1. Quiet
    BY <1>3, PlainAnswers, Answered DEF Randomize, Quiet
  <2>2. Touched
    BY <1>2, <1>3, TouchedBySame, TouchedByField DEF Randomize
  <2> QED BY <1>3, <2>1, <2>2 DEF Randomize
<1>4. CASE \E t \in script.types : IsType(h, t)
  BY <1>4, PlainAnswers, Answered, TouchedBySame DEF IsType, Quiet
<1>5. ASSUME NEW f, LoadU64(h, f) PROVE Quiet /\ Touched
  BY <1>5, PlainAnswers, Answered, TouchedBySame DEF LoadU64, Quiet
<1>6. ASSUME NEW f, LoadPointer(h, f) PROVE Quiet /\ Touched
  BY <1>6, PlainAnswers, Answered, TouchedBySame DEF LoadPointer, Quiet
<1>7. ASSUME NEW e, NEW f, NEW v, StoreField(e, h, f, v) PROVE Quiet /\ Touched
  <2>1. Quiet
    BY <1>7, PlainAnswers, Answered DEF StoreField, Quiet
  <2>2. Touched
    BY <1>2, <1>7, TouchedBySame, TouchedByField DEF StoreField
  <2> QED BY <2>1, <2>2
<1>8. CASE \E f \in script.names :
             \/ LoadU64(h, f) \/ LoadPointer(h, f)
             \/ \E n \in Numbers : StoreField("store_u64", h, f, U64(n))
             \/ \E other \in Objs : StoreField("store_ptr", h, f, Pointer(other))
  BY <1>5, <1>6, <1>7, <1>8 DEF LoadU64, LoadPointer, StoreField
<1> QED BY <1>1, <1>3, <1>4, <1>8

LEMMA FactoryCalls ==
  ASSUME ServicesTypeOK, FactoryCall
  PROVE  /\ Plain /\ Quiet /\ UNCHANGED <<script, entries, channels, steps, countVars>>
         /\ \A t \in DOMAIN overrides' : overrides'[t] \in ClassTypes
<1> USE DEF heapVars, unlessTree, taskVars, graphVars
<1>1. script.types \subseteq ClassTypes
  BY ScriptsAssumption DEF ServicesTypeOK
<1>2. ASSUME NEW t \in script.types, NEW r \in script.types, Override(t, r)
      PROVE  /\ Touched /\ Quiet /\ UNCHANGED <<script, entries, channels, steps, countVars>>
             /\ \A u \in DOMAIN overrides' : overrides'[u] \in ClassTypes
  <2>1. Quiet
    BY <1>2, PlainAnswers, Answered DEF Override, Quiet
  <2>2. \A u \in DOMAIN overrides' : overrides'[u] \in ClassTypes
    BY <1>1, <1>2 DEF Override, Put, ServicesTypeOK
  <2> QED BY <1>2, <2>1, <2>2, TouchedBySame DEF Override
<1>3. ASSUME NEW t \in script.types, NEW n, NEW parent, FactoryCreate(t, n, parent)
      PROVE  /\ Plain /\ Quiet /\ UNCHANGED <<script, overrides, entries, channels, steps, countVars>>
  <2>1. Quiet
    BY <1>3, PlainAnswers, Answered DEF FactoryCreate, Quiet
  <2>2. ASSUME Selected(t) = "" PROVE Plain
    BY <1>3, <2>2, TouchedBySame DEF FactoryCreate, Plain
  <2>3. ASSUME Selected(t) # "" PROVE Plain
    <3>1. Selected(t) \in ClassTypes
      BY <1>1 DEF Selected, ServicesTypeOK
    <3>2. PICK fields : Adds("object", Object(Selected(t), fields))
      BY <1>3, <2>3 DEF FactoryCreate
    <3>3. GrownObject
      BY <1>3, <2>3, <3>1, <3>2, Givens
      DEF FactoryCreate, Adds, Object, GrownObject, Grown, Put, Live
    <3> QED BY <3>3 DEF Plain
  <2> QED BY <1>3, <2>1, <2>2, <2>3 DEF FactoryCreate
<1> QED BY <1>2, <1>3 DEF FactoryCall, Plain, ServicesTypeOK

LEMMA ConfigCalls ==
  ASSUME ServicesTypeOK, ConfigCall
  PROVE  Touched /\ Quiet /\ UNCHANGED <<script, treeVars, channels, steps, countVars>>
<1> USE DEF heapVars, unlessHeap, unlessLists, taskVars, graphVars
<1>1. ASSUME NEW scope, NEW field, NEW v, ConfigSet(scope, field, v)
      PROVE  Touched /\ Quiet /\ UNCHANGED <<script, treeVars, channels, steps, countVars>>
  BY <1>1, PlainAnswers, Answered, TouchedBySame DEF ConfigSet, Quiet
<1>2. ASSUME NEW instance, NEW field, ConfigGet(instance, field)
      PROVE  Touched /\ Quiet /\ UNCHANGED <<script, treeVars, channels, steps, countVars>>
  BY <1>2, PlainAnswers, Answered, TouchedBySame DEF ConfigGet, Quiet
<1> QED BY <1>1, <1>2 DEF ConfigCall

LEMMA SequencerCalls ==
  ASSUME ServicesTypeOK, SequencerCall
  PROVE  Touched /\ Quiet /\ UNCHANGED <<script, treeVars, entries, steps, countVars>>
<1> USE DEF unlessChannels, taskVars, graphVars
<1>1. CASE TryGetItem
  BY <1>1, PlainAnswers, Answered, TouchedBySame DEF TryGetItem, Quiet
<1>2. ASSUME NEW n, SequencerTryNext(n)
      PROVE  Touched /\ Quiet /\ UNCHANGED <<script, treeVars, entries, steps, countVars>>
  BY <1>2, PlainAnswers, Answered, TouchedBySame DEF SequencerTryNext, Quiet
<1>3. ASSUME NEW n, NEW i, SequencerStart(n, i)
      PROVE  Touched /\ Quiet /\ UNCHANGED <<script, treeVars, entries, steps, countVars>>
  BY <1>3, PlainAnswers, Answered, TouchedBySame DEF SequencerStart, Quiet
<1> QED BY <1>1, <1>2, <1>3 DEF SequencerCall

LEMMA CountCalls ==
  ASSUME ServicesTypeOK, CountCall
  PROVE  /\ Touched /\ Quiet /\ UNCHANGED <<script, treeVars, entries, channels, steps>>
         /\ bins' \subseteq Bins /\ hits' \in [Bins -> Nat]
         /\ reported' \in [Severities \ {"info"} -> Nat] /\ objections' \in Nat
<1> USE DEF heapVars, unlessCounts, countVars, taskVars, graphVars
<1> DEFINE Counts == /\ bins' \subseteq Bins /\ hits' \in [Bins -> Nat]
                     /\ reported' \in [Severities \ {"info"} -> Nat] /\ objections' \in Nat
           Same == Touched /\ Quiet /\ UNCHANGED <<script, treeVars, entries, channels, steps>>
<1>1. /\ bins \subseteq Bins /\ hits \in [Bins -> Nat]
      /\ reported \in [Severities \ {"info"} -> Nat] /\ objections \in Nat
  BY DEF ServicesTypeOK
<1>2. ASSUME NEW b \in Bins, RegisterBin(b) PROVE Counts /\ Same
  BY <1>1, <1>2, PlainAnswers, Answered, TouchedBySame DEF RegisterBin, Quiet
<1>3. ASSUME NEW b \in Bins, Sample(b) PROVE Counts /\ Same
  BY <1>1, <1>3, PlainAnswers, Answered, TouchedBySame DEF Sample, Quiet
<1>4. ASSUME NEW b \in Bins, NEW n, NEW low, NEW high, SampleRange(b, n, low, high)
      PROVE  Counts /\ Same
  <2>1. CASE ~(low <= n /\ n <= high)
    BY <1>1, <1>4, <2>1, PlainAnswers, Answered, TouchedBySame DEF SampleRange, Quiet
  <2> QED BY <1>3, <1>4, <2>1 DEF SampleRange
<1>5. CASE Percentage
  BY <1>1, <1>5, PlainAnswers, Answered, TouchedBySame DEF Percentage, Quiet
<1>6. CASE ErrorCount
  BY <1>1, <1>6, PlainAnswers, Answered, TouchedBySame DEF ErrorCount, Quiet
<1>7. CASE RaiseObjection
  BY <1>1, <1>7, PlainAnswers, Answered, TouchedBySame DEF RaiseObjection, Quiet
<1>8. CASE DropObjection
  BY <1>1, <1>8, PlainAnswers, Answered, TouchedBySame DEF DropObjection, Quiet
<1>9. ASSUME NEW severity, Emit(severity) PROVE Counts /\ Same
  <2>1. Same
    BY <1>9, PlainAnswers, Answered, TouchedBySame DEF Emit, Quiet
  <2>2. reported' \in [Severities \ {"info"} -> Nat]
    BY <1>1, <1>9 DEF Emit
  <2> QED BY <1>1, <1>9, <2>1, <2>2 DEF Emit
<1> QED BY <1>2, <1>3, <1>4, <1>5, <1>6, <1>7, <1>8, <1>9 DEF CountCall

LEMMA OwnersTyped ==
  ASSUME ServicesTypeOK, NEW h \in Objs \cup Procs
  PROVE  Normalize(h) \in 0..MaxHandles /\ Pointer(Normalize(h)) \in Items
<1>1. h \in 0..MaxHandles
  BY Givens
<1>2. ASSUME IsProcess(h) PROVE OwnerOf(h) \in 0..MaxHandles
  <2>1. h \in Live /\ created[h] \in Kinds
    BY <1>2, Givens, ElementOfSeq DEF IsProcess, ServicesTypeOK
  <2>2. created[h] = "process"
    BY <1>2, <2>1, ClassesAssumption DEF IsProcess, ServicesTypeOK, ObjectsOK, Kinds
  <2> QED BY <2>1, <2>2 DEF ServicesTypeOK, ObjectsOK, OwnerOf, Field, Items, Pointer
<1> QED BY <1>1, <1>2 DEF Normalize, Items

LEMMA TouchedByNotice ==
  ASSUME ServicesTypeOK, NEW events, store' = Notified(store, events),
         UNCHANGED <<created, lists, processes>>
  PROVE  Touched
<1>1. \A h \in Live : DOMAIN store[h] = {"type", "fields", "locals", "items"}
  BY DEF ServicesTypeOK, ObjectsOK
<1>2. \A h \in Handles : created[h] = "process"
  BY ElementOfSeq DEF ServicesTypeOK, Handles, Given
<1>3. DOMAIN store' = Live
  BY <1>1, NotifiedFacts DEF Live
<1>4. ASSUME NEW h \in Live PROVE Alike(h)
  <2>1. created[h] = "process" => "owner" \in DOMAIN store[h].fields
    BY DEF ServicesTypeOK, ObjectsOK
  <2>2. /\ DOMAIN store'[h] = DOMAIN store[h] /\ store'[h].type = store[h].type
        /\ DOMAIN store[h].fields \subseteq DOMAIN store'[h].fields
        /\ \A f \in DOMAIN store[h].fields : f # "status" => store'[h].fields[f] = store[h].fields[f]
        /\ h \notin Handles => store'[h] = store[h]
    BY <1>1, NotifiedFacts DEF Live
  <2> QED BY <1>1, <1>2, <2>1, <2>2 DEF Alike, Field
<1> QED BY <1>3, <1>4 DEF Touched

LEMMA NewProcessTyped ==
  ASSUME NEW owner, Pointer(owner) \in Items
  PROVE  /\ DOMAIN NewProcess(owner) = {"type", "fields", "locals", "items"}
         /\ NewProcess(owner).type = "uvm_process_state"
         /\ DOMAIN NewProcess(owner).fields = {"pc", "status", "event", "owner"}
         /\ NewProcess(owner).fields["owner"] = Pointer(owner)
  BY DEF NewProcess, Object, Put, Empty

LEMMA Spawned ==
  ASSUME ServicesTypeOK, NEW n, NEW owner, NEW locals, Spawns(n, owner, locals),
         Pointer(owner) \in Items, UNCHANGED lists
  PROVE  Plain
<1>1. CASE UNCHANGED <<heapVars, processes>>
  BY <1>1, TouchedBySame DEF heapVars, Plain
<1>2. ASSUME NEW i \in 1..Len(processes), UNCHANGED <<created, processes>>,
             store' = [store EXCEPT ![processes[i]].locals = Over(locals, @)]
      PROVE  Plain
  <2>1. \A h \in Live : DOMAIN store[h] = {"type", "fields", "locals", "items"}
    BY DEF ServicesTypeOK, ObjectsOK
  <2>2. created[processes[i]] = "process"
    BY ElementOfSeq DEF ServicesTypeOK, Given
  <2>3. DOMAIN store' = Live
    BY <1>2 DEF Live
  <2>4. \A h \in Live : Alike(h)
    BY <1>2, <2>1, <2>2 DEF Alike, Field, Live
  <2> QED BY <1>2, <2>3, <2>4 DEF Touched, Plain
<1>3. ASSUME Room, processes' = Append(processes, NextId),
             Adds("process", [NewProcess(owner) EXCEPT !.fields = Put(@, "name", Text(n)), !.locals = locals])
      PROVE  Plain
  <2> DEFINE made == [NewProcess(owner) EXCEPT !.fields = Put(@, "name", Text(n)), !.locals = locals]
             from == NewProcess(owner)
  <2>1. /\ DOMAIN from = {"type", "fields", "locals", "items"} /\ from.type = "uvm_process_state"
        /\ DOMAIN from.fields = {"pc", "status", "event", "owner"}
        /\ from.fields["owner"] = Pointer(owner)
    BY NewProcessTyped
  <2> HIDE DEF from
  <2>2. made = [from EXCEPT !.fields = Put(@, "name", Text(n)), !.locals = locals]
    BY DEF from
  <2>3. DOMAIN made = DOMAIN from /\ made.type = from.type /\ made.fields = Put(from.fields, "name", Text(n))
    BY <2>1, <2>2
  <2>4. {"pc", "status", "event", "owner"} \subseteq DOMAIN made.fields /\ made.fields["owner"] = Pointer(owner)
    BY <2>1, <2>3 DEF Put
  <2>5. store' = Put(store, NextId, made) /\ created' = Append(created, "process")
    BY <1>3 DEF Adds
  <2> HIDE DEF made
  <2>6. DOMAIN store' = Live \cup {NextId} /\ store'[NextId] = made
        /\ \A h \in Live : store'[h] = store[h]
    BY <2>5, Givens DEF Put, Live
  <2> QED BY <1>3, <2>1, <2>3, <2>4, <2>5, <2>6 DEF Grown, GrownProcess, Field, Plain
<1> QED BY <1>1, <1>2, <1>3 DEF Spawns, Joinable

LEMMA TaskCalls ==
  ASSUME ServicesTypeOK, TaskCall
  PROVE  /\ Plain /\ Quiet /\ UNCHANGED <<script, treeVars, entries, countVars>>
         /\ steps' \subseteq Names
<1> USE DEF heapVars, unlessHeap, unlessLists, unlessTasks, unlessChannels, taskVars, graphVars
<1> DEFINE Same == UNCHANGED <<script, treeVars, entries, countVars>>
           Goal == Plain /\ Quiet /\ Same /\ steps' \subseteq Names
<1>1. steps \subseteq Names /\ script.names \subseteq Names
  BY ScriptsAssumption DEF ServicesTypeOK
<1>2. ASSUME NEW owner \in Objs, ProcessCreate(owner) PROVE Goal
  <2>1. Quiet /\ Same /\ steps' \subseteq Names
    BY <1>1, <1>2, PlainAnswers, Answered DEF ProcessCreate, Quiet
  <2>2. GrownProcess
    <3>1. Pointer(owner) \in Items
      BY Givens
    <3>2. DOMAIN store' = Live \cup {NextId} /\ store'[NextId] = NewProcess(owner)
          /\ \A h \in Live : store'[h] = store[h]
      BY <1>2, Givens DEF ProcessCreate, Adds, Put, Live
    <3> QED BY <1>2, <3>1, <3>2, NewProcessTyped DEF ProcessCreate, Adds, Grown, GrownProcess, Field
  <2> QED BY <2>1, <2>2 DEF Plain
<1>3. ASSUME NEW n \in script.names, Register(n) PROVE Goal
  <2>1. Quiet /\ Same
    BY <1>3, PlainAnswers, Answered DEF Register, Quiet
  <2>3. steps' \subseteq Names
    <3>1. steps' = steps \/ steps' = steps \cup {n}
      BY <1>3 DEF Register
    <3> QED BY <1>1, <3>1
  <2>2. Touched
    BY <1>3, TouchedBySame DEF Register
  <2> QED BY <2>1, <2>2, <2>3 DEF Plain
<1>4. ASSUME NEW n, NEW owner, NEW locals, Spawns(n, owner, locals) PROVE Abstract!Silent /\ writes' \in {writes, <<>>}
  BY <1>4, PlainAnswers, Answered DEF Spawns
<1>5. ASSUME NEW n, NEW h \in Objs \cup Procs, SpawnTask(n, h) PROVE Goal
  BY <1>1, <1>4, <1>5, OwnersTyped, Spawned DEF SpawnTask, Quiet
<1>6. ASSUME NEW h \in Objs, NEW sequencer, SequenceStart(h, sequencer) PROVE Goal
  BY <1>1, <1>4, <1>6, OwnersTyped, Spawned DEF SequenceStart, Quiet
<1>7. \A h \in Procs : h \in Live => created[h] = "process"
  BY Givens
<1>8. ASSUME NEW h \in Procs, NEW e, NEW f, f # "owner", NEW v, SetProcess(e, h, f, v) PROVE Goal
  <2>1. Quiet /\ Same /\ steps' \subseteq Names
    BY <1>1, <1>8, PlainAnswers, Answered DEF SetProcess, Quiet
  <2>2. Touched
    BY <1>7, <1>8, TouchedBySame, TouchedByField DEF SetProcess
  <2> QED BY <2>1, <2>2 DEF Plain
<1>9. ASSUME NEW h \in Procs, NEW event, WaitFor(h, event) PROVE Goal
  <2>1. Quiet /\ Same /\ steps' \subseteq Names
    BY <1>1, <1>9, PlainAnswers, Answered DEF WaitFor, Quiet
  <2>2. CASE h \notin Live
    BY <1>9, <2>1, <2>2, TouchedBySame DEF WaitFor, Plain
  <2>3. ASSUME h \in Live PROVE Touched
    <3> DEFINE s == SetField(store, h, "event", event)
    <3>1. \A g \in Live : DOMAIN store[g] = {"type", "fields", "locals", "items"}
      BY DEF ServicesTypeOK, ObjectsOK
    <3>2. /\ DOMAIN s = Live /\ \A g \in Live : g # h => s[g] = store[g]
          /\ DOMAIN s[h] = {"type", "fields", "locals", "items"} /\ s[h].type = store[h].type
          /\ s[h].fields = Put(store[h].fields, "event", event)
      BY <2>3, <3>1, SetFieldFacts DEF Live
    <3>3. store' = SetField(s, h, "status", Text("waiting"))
      BY <1>9, <2>3 DEF WaitFor
    <3> HIDE DEF s
    <3>4. /\ DOMAIN store' = Live /\ \A g \in Live : g # h => store'[g] = s[g]
          /\ DOMAIN store'[h] = {"type", "fields", "locals", "items"} /\ store'[h].type = s[h].type
          /\ store'[h].fields = Put(s[h].fields, "status", Text("waiting"))
      BY <2>3, <3>2, <3>3, SetFieldFacts DEF Live
    <3>5. ASSUME NEW g \in Live, g # h PROVE Alike(g)
      BY <3>1, <3>2, <3>4, <3>5 DEF Alike, Field
    <3>6. "owner" \in DOMAIN store[h].fields
      BY <1>7, <2>3 DEF ServicesTypeOK, ObjectsOK
    <3>7. DOMAIN store[h].fields \subseteq DOMAIN store'[h].fields
          /\ store'[h].fields["owner"] = store[h].fields["owner"]
      BY <3>2, <3>4, <3>6 DEF Put
    <3>8. Alike(h)
      BY <1>7, <2>3, <3>2, <3>4, <3>7 DEF Alike, Field
    <3> QED BY <1>9, <3>4, <3>5, <3>8 DEF WaitFor, Touched
  <2> QED BY <2>1, <2>2, <2>3 DEF Plain
<1>10. ASSUME NEW h, NEW n, NEW kind \in {"u64", "handle"}, LocalLoad(h, n, kind) PROVE Goal
  BY <1>1, <1>10, PlainAnswers, Answered, TouchedBySame DEF LocalLoad, Quiet, Plain, IsU64, IsPointer
<1>11. ASSUME NEW h \in Procs, NEW n, NEW v, LocalStore(h, n, v) PROVE Goal
  <2>1. Quiet /\ Same /\ steps' \subseteq Names
    BY <1>1, <1>11, PlainAnswers, Answered DEF LocalStore, Quiet
  <2>2. Touched
    BY <1>7, <1>11, TouchedBySame, TouchedByLocal DEF LocalStore
  <2> QED BY <2>1, <2>2 DEF Plain
<1>12. ASSUME NEW h, NEW item, SendItem(h, item) PROVE Goal
  <2>1. Quiet /\ Same /\ steps' \subseteq Names
    BY <1>1, <1>12, PlainAnswers, Answered DEF SendItem, Quiet
  <2>2. Touched
    BY <1>12, TouchedBySame, TouchedByNotice DEF SendItem
  <2> QED BY <2>1, <2>2 DEF Plain
<1>13. ASSUME NEW event, NotifyEvent(event) PROVE Goal
  BY <1>1, <1>13, PlainAnswers, Answered, TouchedByNotice DEF NotifyEvent, Quiet, Plain
<1> QED BY <1>2, <1>3, <1>5, <1>6, <1>8, <1>9, <1>10, <1>11, <1>12, <1>13 DEF TaskCall

-----------------------------------------------------------------------------
(* Steps on the object of one list.                                        *)

\* h is in the store s the object of a list, with every place it has filled.
Filled(s, h) ==
  /\ DOMAIN s[h] = {"type", "fields", "locals", "items"}
  /\ s[h].type \in {"uvm_tlm_fifo", "uvm_collection"}
  /\ Counted(s, h) /\ Size(s, h) \in Nat
  /\ \A i \in 0..Size(s, h) - 1 : i \in DOMAIN s[h].items /\ s[h].items[i] \in Items

\* What that list holds.
HeldBy(s, h) == [i \in 1..Size(s, h) |-> s[h].items[i - 1]]

\* A step that resolves q, and changes no other list.
Reshaped(q) ==
  /\ q \in FifoIds \cup CollectionIds /\ Resolves(q) /\ UNCHANGED processes
  /\ DOMAIN store' = Live \cup {ObjectOf(q)} /\ Filled(store', ObjectOf(q))
  /\ \A h \in Live : h # ObjectOf(q) => Alike(h)

IInvHeap == ServicesTypeOK /\ Listed

LEMMA ResolvedFacts ==
  ASSUME IInvHeap, NEW q, q \in DOMAIN lists \/ Room
  PROVE  /\ DOMAIN Resolved(q) = Live \cup {ObjectOf(q)}
         /\ \A h \in Live : Resolved(q)[h] = store[h]
         /\ Filled(Resolved(q), ObjectOf(q))
         /\ Counted(Resolved(q), ObjectOf(q)) /\ Size(Resolved(q), ObjectOf(q)) \in Nat
         /\ q \in DOMAIN lists => ObjectOf(q) = lists[q] /\ lists[q] \in Live
         /\ q \notin DOMAIN lists => /\ ObjectOf(q) = NextId /\ NextId \notin Live
                                     /\ Size(Resolved(q), ObjectOf(q)) = 0
<1>1. CASE q \in DOMAIN lists
  <2>1. lists[q] \in Live /\ created[lists[q]] = "list"
    BY <1>1 DEF IInvHeap, ServicesTypeOK
  <2>2. /\ DOMAIN store[lists[q]] = {"type", "fields", "locals", "items"}
        /\ store[lists[q]].type \in {"uvm_tlm_fifo", "uvm_collection"}
    BY <2>1 DEF IInvHeap, ServicesTypeOK, ObjectsOK
  <2>3. /\ Counted(store, lists[q]) /\ Size(store, lists[q]) \in Nat
        /\ \A i \in 0..Size(store, lists[q]) - 1 :
             i \in DOMAIN store[lists[q]].items /\ store[lists[q]].items[i] \in Items
    BY <1>1 DEF IInvHeap, Listed
  <2>4. Resolved(q) = store /\ ObjectOf(q) = lists[q]
    BY <1>1 DEF Resolved, ObjectOf
  <2> QED BY <1>1, <2>1, <2>2, <2>3, <2>4 DEF Filled, Live
<1>2. CASE q \notin DOMAIN lists
  <2> DEFINE new == Object(TypeOfList(q), Put(Empty, "size", U64(0)))
  <2>1. NextId \notin Live
    BY Givens DEF IInvHeap
  <2>2. Resolved(q) = Put(store, NextId, new) /\ ObjectOf(q) = NextId
    BY <1>2 DEF Resolved, ObjectOf
  <2>3. /\ DOMAIN new = {"type", "fields", "locals", "items"}
        /\ new.type \in {"uvm_tlm_fifo", "uvm_collection"} /\ new.fields = Put(Empty, "size", U64(0))
    BY DEF Object, TypeOfList
  <2>4. DOMAIN new.fields = {"size"} /\ new.fields["size"] = U64(0)
    BY <2>3 DEF Put, Empty
  <2> HIDE DEF new
  <2>5. /\ DOMAIN Resolved(q) = Live \cup {NextId} /\ Resolved(q)[NextId] = new
        /\ \A h \in Live : Resolved(q)[h] = store[h]
    BY <2>1, <2>2 DEF Put, Live
  <2>6. Counted(Resolved(q), NextId) /\ Size(Resolved(q), NextId) = 0
    BY <2>4, <2>5 DEF Counted, Size, Has, Field, U64, IsU64
  <2> QED BY <1>2, <2>1, <2>2, <2>3, <2>5, <2>6 DEF Filled
<1> QED BY <1>1, <1>2

\* The object gets one more item, at the end.
LEMMA PushedFacts ==
  ASSUME NEW s, NEW h \in DOMAIN s, Filled(s, h), NEW v \in Items
  PROVE  /\ DOMAIN Pushed(s, h, v) = DOMAIN s
         /\ \A g \in DOMAIN s : g # h => Pushed(s, h, v)[g] = s[g]
         /\ Filled(Pushed(s, h, v), h)
         /\ HeldBy(Pushed(s, h, v), h) = Append(HeldBy(s, h), v)
<1> DEFINE n == Size(s, h)
           t == [s EXCEPT ![h].items = Put(@, n, v)]
<1>1. /\ n \in Nat /\ DOMAIN s[h] = {"type", "fields", "locals", "items"}
      /\ \A i \in 0..n - 1 : i \in DOMAIN s[h].items /\ s[h].items[i] \in Items
  BY DEF Filled
<1> HIDE DEF n
<1>2. /\ DOMAIN t = DOMAIN s /\ \A g \in DOMAIN s : g # h => t[g] = s[g]
      /\ DOMAIN t[h] = {"type", "fields", "locals", "items"} /\ t[h].type = s[h].type
      /\ t[h].items = Put(s[h].items, n, v)
  BY <1>1
<1>3. Pushed(s, h, v) = SetField(t, h, "size", U64(n + 1))
  BY DEF Pushed, Resized, n
<1> HIDE DEF t
<1> DEFINE u == SetField(t, h, "size", U64(n + 1))
<1>4. /\ DOMAIN u = DOMAIN s /\ \A g \in DOMAIN s : g # h => u[g] = s[g]
      /\ DOMAIN u[h] = {"type", "fields", "locals", "items"} /\ u[h].type = s[h].type
      /\ u[h].items = Put(s[h].items, n, v) /\ u[h].fields = Put(t[h].fields, "size", U64(n + 1))
  BY <1>2, SetFieldFacts
<1> HIDE DEF u
<1>5. Counted(u, h) /\ Size(u, h) = n + 1
  BY <1>4 DEF Counted, Has, Field, Size, Put, U64, IsU64
<1>6. /\ \A i \in 0..n - 1 : i \in DOMAIN u[h].items /\ u[h].items[i] = s[h].items[i]
      /\ n \in DOMAIN u[h].items /\ u[h].items[n] = v
  BY <1>1, <1>4 DEF Put
<1>7. Filled(u, h)
  <2>1. s[h].type \in {"uvm_tlm_fifo", "uvm_collection"}
    BY DEF Filled
  <2>2. \A i \in 0..n : i \in DOMAIN u[h].items /\ u[h].items[i] \in Items
    BY <1>1, <1>6
  <2> QED BY <1>1, <1>4, <1>5, <2>1, <2>2 DEF Filled
<1>8. HeldBy(u, h) = Append(HeldBy(s, h), v)
  <2>1. HeldBy(s, h) = [i \in 1..n |-> s[h].items[i - 1]] /\ HeldBy(s, h) \in Seq(Items)
        /\ Len(HeldBy(s, h)) = n
    BY <1>1 DEF HeldBy, n
  <2>2. HeldBy(u, h) = [i \in 1..n + 1 |-> u[h].items[i - 1]]
    BY <1>5 DEF HeldBy
  <2>3. HeldBy(u, h) \in Seq(Items) /\ Len(HeldBy(u, h)) = n + 1
    BY <1>1, <1>6, <2>2
  <2>4. ASSUME NEW i \in 1..n + 1 PROVE HeldBy(u, h)[i] = Append(HeldBy(s, h), v)[i]
    <3>1. /\ \A j \in 1..n : Append(HeldBy(s, h), v)[j] = HeldBy(s, h)[j]
          /\ Append(HeldBy(s, h), v)[n + 1] = v
      BY <1>1, <2>1, AppendProperties
    <3>2. CASE i = n + 1
      <4>1. n + 1 \in 1..n + 1 /\ (n + 1) - 1 = n
        BY <1>1
      <4>2. HeldBy(u, h)[n + 1] = u[h].items[n]
        BY <2>2, <4>1
      <4> QED BY <1>6, <3>1, <3>2, <4>2
    <3>3. CASE i \in 1..n
      BY <1>1, <1>6, <2>1, <2>2, <3>1, <3>3
    <3>4. i = n + 1 \/ i \in 1..n
      BY <1>1
    <3> QED BY <3>2, <3>3, <3>4
  <2> QED BY <1>1, <2>1, <2>3, <2>4, SeqEqual, AppendProperties
<1> QED BY <1>3, <1>4, <1>7, <1>8 DEF u

\* Item i is taken out, and those above it move down.
LEMMA RemovedFacts ==
  ASSUME NEW s, NEW h \in DOMAIN s, Filled(s, h), NEW i \in Nat, i < Size(s, h)
  PROVE  /\ Whole(s, h, i)
         /\ DOMAIN Removed(s, h, i) = DOMAIN s
         /\ \A g \in DOMAIN s : g # h => Removed(s, h, i)[g] = s[g]
         /\ Filled(Removed(s, h, i), h)
         /\ HeldBy(s, h) \in Seq(Items) /\ Len(HeldBy(s, h)) = Size(s, h)
         /\ HeldBy(Removed(s, h, i), h) \in Seq(Items)
         /\ Len(HeldBy(Removed(s, h, i), h)) = Size(s, h) - 1
         /\ \A j \in 1..Size(s, h) - 1 :
              HeldBy(Removed(s, h, i), h)[j] = HeldBy(s, h)[IF j <= i THEN j ELSE j + 1]
<1> DEFINE n == Size(s, h)
           items == s[h].items
           gaps == {k \in i + 1..n : k = n \/ k \notin DOMAIN items}
           t == Moved(s, h, i)
           u == SetField(t, h, "size", U64(n - 1))
<1>1. /\ n \in Nat /\ DOMAIN s[h] = {"type", "fields", "locals", "items"}
      /\ s[h].type \in {"uvm_tlm_fifo", "uvm_collection"}
      /\ \A k \in 0..n - 1 : k \in DOMAIN items /\ items[k] \in Items
  BY DEF Filled
<1>2. i + 1 <= n /\ Whole(s, h, i)
  BY <1>1 DEF Whole
<1>3. (CHOOSE k \in gaps : \A j \in gaps : k <= j) = n
  <2>1. gaps = {n}
    BY <1>1, <1>2
  <2> QED BY <1>1, <2>1
<1>4. t = [s EXCEPT ![h].items =
             [k \in DOMAIN items \cup i..n - 2 |-> IF k \in i..n - 2 THEN items[k + 1] ELSE items[k]]]
  BY <1>3 DEF Moved
<1>5. Removed(s, h, i) = u
  BY DEF Removed, Resized
<1>6. \A v : [s EXCEPT ![h].items = v][h].items = v
  BY <1>1
<1>7. /\ DOMAIN t = DOMAIN s /\ \A g \in DOMAIN s : g # h => t[g] = s[g]
      /\ DOMAIN t[h] = {"type", "fields", "locals", "items"} /\ t[h].type = s[h].type
      /\ t[h].items = [k \in DOMAIN items \cup i..n - 2 |->
                         IF k \in i..n - 2 THEN items[k + 1] ELSE items[k]]
  BY <1>1, <1>4, <1>6
<1> HIDE DEF n, t, items, gaps
<1>8. /\ DOMAIN u = DOMAIN s /\ \A g \in DOMAIN s : g # h => u[g] = s[g]
      /\ DOMAIN u[h] = {"type", "fields", "locals", "items"} /\ u[h].type = s[h].type
      /\ u[h].items = t[h].items /\ u[h].fields = Put(t[h].fields, "size", U64(n - 1))
  <2>1. h \in DOMAIN t /\ DOMAIN t[h] = {"type", "fields", "locals", "items"}
    BY <1>7
  <2>2. /\ DOMAIN u = DOMAIN t /\ \A g \in DOMAIN t : g # h => u[g] = t[g]
        /\ DOMAIN u[h] = DOMAIN t[h] /\ u[h].type = t[h].type /\ u[h].items = t[h].items
        /\ u[h].fields = Put(t[h].fields, "size", U64(n - 1))
    BY <2>1, SetFieldFacts
  <2> HIDE DEF u
  <2> QED BY <1>7, <2>1, <2>2
<1> HIDE DEF u
<1>9. Counted(u, h) /\ Size(u, h) = n - 1 /\ n - 1 \in Nat
  BY <1>1, <1>2, <1>8 DEF Counted, Has, Field, Size, Put, U64, IsU64
<1>10. \A k \in 0..n - 2 : k \in DOMAIN u[h].items /\ u[h].items[k] = items[IF k < i THEN k ELSE k + 1]
  BY <1>1, <1>2, <1>7, <1>8
<1>11. \A k \in 0..n - 2 : u[h].items[k] \in Items
  BY <1>1, <1>2, <1>10
<1>12. Filled(u, h)
  BY <1>1, <1>8, <1>9, <1>10, <1>11 DEF Filled
<1>13. HeldBy(s, h) = [k \in 1..n |-> items[k - 1]]
  BY DEF HeldBy, n, items
<1>14. HeldBy(u, h) = [k \in 1..n - 1 |-> u[h].items[k - 1]]
  BY <1>9 DEF HeldBy
<1>15. HeldBy(s, h) \in Seq(Items) /\ Len(HeldBy(s, h)) = n
  BY <1>1, <1>13
<1>16. HeldBy(u, h) \in Seq(Items) /\ Len(HeldBy(u, h)) = n - 1
  BY <1>1, <1>2, <1>11, <1>14
<1>17. ASSUME NEW j \in 1..n - 1 PROVE HeldBy(u, h)[j] = HeldBy(s, h)[IF j <= i THEN j ELSE j + 1]
  <2>1. j - 1 \in 0..n - 2
    BY <1>1, <1>2
  <2>2. HeldBy(u, h)[j] = items[IF j - 1 < i THEN j - 1 ELSE (j - 1) + 1]
    BY <1>10, <1>14, <2>1
  <2>3. CASE j <= i
    BY <1>1, <1>2, <1>13, <2>2, <2>3
  <2>4. CASE ~(j <= i)
    BY <1>1, <1>2, <1>13, <2>2, <2>4
  <2> QED BY <2>3, <2>4
<1> QED BY <1>2, <1>5, <1>8, <1>12, <1>15, <1>16, <1>17 DEF n

\* A step whose store is an edited one, or that with processes notified.
LEMMA Edits ==
  ASSUME IInvHeap, NEW q \in FifoIds \cup CollectionIds, Resolves(q), UNCHANGED processes,
         NEW s, NEW events, store' = s \/ store' = Notified(s, events),
         DOMAIN s = Live \cup {ObjectOf(q)}, Filled(s, ObjectOf(q)),
         \A h \in Live : h # ObjectOf(q) => s[h] = store[h]
  PROVE  Reshaped(q) /\ store'[ObjectOf(q)] = s[ObjectOf(q)]
<1>1. \A h \in Live : DOMAIN store[h] = {"type", "fields", "locals", "items"}
  BY DEF IInvHeap, ServicesTypeOK, ObjectsOK
<1>2. \A g \in DOMAIN s : DOMAIN s[g] = {"type", "fields", "locals", "items"}
  BY <1>1 DEF Filled
<1>3. \A g \in Handles : g \in DOMAIN created /\ created[g] = "process"
  BY ElementOfSeq DEF IInvHeap, ServicesTypeOK, Handles, Given
<1>4. ObjectOf(q) \notin Handles
  <2>1. q \in DOMAIN lists => created[ObjectOf(q)] = "list"
    BY DEF IInvHeap, ServicesTypeOK, ObjectOf
  <2>2. q \notin DOMAIN lists => ObjectOf(q) \notin DOMAIN created
    BY Givens DEF IInvHeap, ObjectOf
  <2> QED BY <1>3, <2>1, <2>2
<1>5. /\ DOMAIN store' = DOMAIN s
      /\ \A h \in DOMAIN s :
           /\ DOMAIN store'[h] = DOMAIN s[h] /\ store'[h].type = s[h].type
           /\ DOMAIN s[h].fields \subseteq DOMAIN store'[h].fields
           /\ \A f \in DOMAIN s[h].fields : f # "status" => store'[h].fields[f] = s[h].fields[f]
           /\ h \notin Handles => store'[h] = s[h]
  BY <1>2, NotifiedFacts
<1>6. store'[ObjectOf(q)] = s[ObjectOf(q)]
  BY <1>4, <1>5
<1>7. Filled(store', ObjectOf(q))
  BY <1>5, <1>6 DEF Filled, Counted, Has, Size, Field
<1>8. ASSUME NEW h \in Live, h # ObjectOf(q) PROVE Alike(h)
  <2>1. created[h] = "process" => "owner" \in DOMAIN store[h].fields
    BY DEF IInvHeap, ServicesTypeOK, ObjectsOK
  <2>2. s[h] = store[h] /\ h \in DOMAIN s
    BY <1>8
  <2>3. /\ DOMAIN store'[h] = DOMAIN store[h] /\ store'[h].type = store[h].type
        /\ DOMAIN store[h].fields \subseteq DOMAIN store'[h].fields
        /\ \A f \in DOMAIN store[h].fields : f # "status" => store'[h].fields[f] = store[h].fields[f]
        /\ h \notin Handles => store'[h] = store[h]
    BY <1>5, <2>2
  <2> QED BY <1>1, <1>3, <2>1, <2>3 DEF Alike, Field
<1> QED BY <1>5, <1>6, <1>7, <1>8 DEF Reshaped

-----------------------------------------------------------------------------
(* The queues.                                                             *)

Queues == FifoIds \cup CollectionIds
AllContents == [q \in Queues |-> Contents(q)]

LEMMA TouchedContents ==
  ASSUME IInvHeap, Touched
  PROVE  AllContents' = AllContents
<1>1. \A q \in DOMAIN lists : lists[q] \in Live /\ created[lists[q]] = "list"
  BY DEF IInvHeap, ServicesTypeOK
<1>2. \A q \in DOMAIN lists : store'[lists[q]] = store[lists[q]]
  BY <1>1 DEF Touched, Alike
<1>3. ASSUME NEW q \in Queues PROVE Contents(q)' = Contents(q)
  BY <1>2 DEF Contents, Size, Field, Touched
<1>4. Queues' = Queues
  BY DEF Queues, FifoIds, CollectionIds, FifoId
<1> QED BY <1>3, <1>4 DEF AllContents

LEMMA GrownContents ==
  ASSUME IInvHeap, GrownObject \/ GrownProcess
  PROVE  AllContents' = AllContents
<1>1. \A q \in DOMAIN lists : lists[q] \in Live
  BY DEF IInvHeap, ServicesTypeOK
<1>2. lists' = lists /\ \A q \in DOMAIN lists : store'[lists[q]] = store[lists[q]]
  BY <1>1 DEF GrownObject, GrownProcess, Grown
<1>3. ASSUME NEW q \in Queues PROVE Contents(q)' = Contents(q)
  BY <1>2 DEF Contents, Size, Field
<1>4. Queues' = Queues
  BY DEF Queues, FifoIds, CollectionIds, FifoId
<1> QED BY <1>3, <1>4 DEF AllContents

LEMMA ReshapedContents ==
  ASSUME IInvHeap, NEW q, Reshaped(q)
  PROVE  /\ AllContents[q] = HeldBy(Resolved(q), ObjectOf(q))
         /\ AllContents' = [AllContents EXCEPT ![q] = HeldBy(store', ObjectOf(q))]
<1>1. q \in Queues
  BY DEF Reshaped, Queues
<1>2. q \in DOMAIN lists \/ Room
  BY DEF Reshaped, Resolves
<1>3. Contents(q) = HeldBy(Resolved(q), ObjectOf(q))
  <2>1. CASE q \in DOMAIN lists
    BY <2>1 DEF Contents, HeldBy, Resolved, ObjectOf
  <2>2. CASE q \notin DOMAIN lists
    <3>1. Size(Resolved(q), ObjectOf(q)) = 0
      BY <1>2, <2>2, ResolvedFacts
    <3>2. HeldBy(Resolved(q), ObjectOf(q)) = <<>>
      BY <3>1 DEF HeldBy
    <3> QED BY <2>2, <3>2 DEF Contents
  <2> QED BY <2>1, <2>2
<1>4. /\ DOMAIN lists' = DOMAIN lists \cup {q} /\ lists'[q] = ObjectOf(q)
      /\ \A r \in DOMAIN lists : r # q => lists'[r] = lists[r]
  BY DEF Reshaped, Resolves, ObjectOf, Put
<1>5. Contents(q)' = HeldBy(store', ObjectOf(q))
  BY <1>4 DEF Contents, HeldBy, Size, Field
<1>6. ASSUME NEW r \in DOMAIN lists, r # q PROVE store'[lists[r]] = store[lists[r]]
  <2>1. lists[r] \in Live /\ created[lists[r]] = "list"
    BY <1>6 DEF IInvHeap, ServicesTypeOK
  <2>2. lists[r] # ObjectOf(q)
    BY <1>2, <1>6, <2>1, Givens DEF IInvHeap, Listed, ObjectOf
  <2> QED BY <2>1, <2>2 DEF Reshaped, Alike
<1>7. ASSUME NEW r \in Queues, r # q PROVE Contents(r)' = Contents(r)
  BY <1>4, <1>6, <1>7 DEF Contents, Size, Field
<1>8. Queues' = Queues
  BY DEF Queues, FifoIds, CollectionIds, FifoId
<1> QED BY <1>1, <1>3, <1>5, <1>7, <1>8 DEF AllContents

-----------------------------------------------------------------------------
(* Each step on a list is a step of the abstract queues.                   *)

\* The steps of the abstract queues, with the contents as the queues.
Pushes(q, v) == Reshaped(q) /\ AllContents' = [AllContents EXCEPT ![q] = Append(@, v)]
Drops(q, i) ==
  /\ Reshaped(q) /\ i \in 1..Len(AllContents[q])
  /\ AllContents' = [AllContents EXCEPT ![q] = Abstract!Without(@, i)]
Looks(q) == Reshaped(q) /\ AllContents' = AllContents

LEMMA ContentsTyped ==
  ASSUME IInvHeap
  PROVE  /\ DOMAIN AllContents = Queues
         /\ \A q \in Queues : AllContents[q] \in Seq(Items)
<1>1. ASSUME NEW q \in DOMAIN lists
      PROVE  [i \in 1..Size(store, lists[q]) |-> store[lists[q]].items[i - 1]] \in Seq(Items)
  <2>1. Size(store, lists[q]) \in Nat
        /\ \A i \in 0..Size(store, lists[q]) - 1 : store[lists[q]].items[i] \in Items
    BY DEF IInvHeap, Listed
  <2>2. \A i \in 1..Size(store, lists[q]) : store[lists[q]].items[i - 1] \in Items
    BY <2>1
  <2> QED BY <2>1, <2>2, IsASeq
<1>2. <<>> \in Seq(Items)
  BY EmptySeq
<1> QED BY <1>1, <1>2 DEF AllContents, Contents

LEMMA PushStep ==
  ASSUME IInvHeap, NEW q \in Queues, Resolves(q), UNCHANGED processes, NEW v \in Items, NEW events,
         LET s == Pushed(Resolved(q), ObjectOf(q), v) IN store' = s \/ store' = Notified(s, events)
  PROVE  Pushes(q, v)
<1> DEFINE h == ObjectOf(q)
           r == Resolved(q)
           s == Pushed(r, h, v)
<1>1. q \in DOMAIN lists \/ Room
  BY DEF Resolves
<1>2. DOMAIN r = Live \cup {h} /\ Filled(r, h) /\ \A g \in Live : r[g] = store[g]
  BY <1>1, ResolvedFacts
<1>3. store' = s \/ store' = Notified(s, events)
  OBVIOUS
<1> HIDE DEF r, h
<1>4. /\ DOMAIN s = DOMAIN r /\ \A g \in DOMAIN r : g # h => s[g] = r[g]
      /\ Filled(s, h) /\ HeldBy(s, h) = Append(HeldBy(r, h), v)
  BY <1>2, PushedFacts
<1> HIDE DEF s
<1>5. Reshaped(q) /\ store'[h] = s[h]
  BY <1>2, <1>3, <1>4, Edits DEF h, Queues
<1>6. HeldBy(store', h) = HeldBy(s, h)
  BY <1>5 DEF HeldBy, Size, Field
<1>7. AllContents[q] = HeldBy(r, h) /\ AllContents' = [AllContents EXCEPT ![q] = HeldBy(store', h)]
  BY <1>5, ReshapedContents DEF r, h
<1> QED BY <1>4, <1>5, <1>6, <1>7 DEF Pushes

LEMMA LookStep ==
  ASSUME IInvHeap, NEW q \in Queues, Resolves(q), UNCHANGED processes, store' = Resolved(q)
  PROVE  /\ Looks(q)
         /\ Len(AllContents[q]) = Size(Resolved(q), ObjectOf(q))
         /\ \A i \in 0..Size(Resolved(q), ObjectOf(q)) - 1 :
              AllContents[q][i + 1] = Resolved(q)[ObjectOf(q)].items[i]
<1> DEFINE h == ObjectOf(q)
           r == Resolved(q)
<1>1. q \in DOMAIN lists \/ Room
  BY DEF Resolves
<1>2. /\ DOMAIN r = Live \cup {h} /\ Filled(r, h) /\ Size(r, h) \in Nat
      /\ \A g \in Live : r[g] = store[g]
  BY <1>1, ResolvedFacts
<1> HIDE DEF r, h
<1>3. Reshaped(q)
  BY <1>2, Edits DEF r, h, Queues
<1>4. AllContents[q] = HeldBy(r, h) /\ AllContents' = [AllContents EXCEPT ![q] = HeldBy(r, h)]
  BY <1>3, ReshapedContents DEF r, h
<1>5. AllContents' = AllContents
  <2> DEFINE c == AllContents
  <2>1. c = [x \in Queues |-> c[x]]
    BY DEF AllContents
  <2>2. AllContents' = [c EXCEPT ![q] = c[q]]
    BY <1>4
  <2> HIDE DEF c
  <2>3. [c EXCEPT ![q] = c[q]] = c
    BY <2>1
  <2> QED BY <2>2, <2>3 DEF c
<1>6. AllContents[q] = [i \in 1..Size(r, h) |-> r[h].items[i - 1]]
  BY <1>4 DEF HeldBy
<1>7. Len(AllContents[q]) = Size(r, h)
  BY <1>2, <1>6
<1>8. ASSUME NEW i \in 0..Size(r, h) - 1 PROVE AllContents[q][i + 1] = r[h].items[i]
  <2>1. i + 1 \in 1..Size(r, h) /\ (i + 1) - 1 = i
    BY <1>2
  <2> QED BY <1>6, <2>1
<1> QED BY <1>3, <1>5, <1>7, <1>8 DEF Looks, r, h

LEMMA WithoutFacts ==
  ASSUME NEW S, NEW s \in Seq(S), NEW i \in 1..Len(s)
  PROVE  /\ Abstract!Without(s, i) \in Seq(S) /\ Len(Abstract!Without(s, i)) = Len(s) - 1
         /\ \A j \in 1..Len(s) - 1 : Abstract!Without(s, i)[j] = s[IF j < i THEN j ELSE j + 1]
         /\ i = 1 => Abstract!Without(s, i) = Tail(s)
<1> DEFINE a == SubSeq(s, 1, i - 1)
           b == SubSeq(s, i + 1, Len(s))
<1>1. Len(s) \in Nat /\ \A j \in 1..Len(s) : s[j] \in S
  BY LenProperties, ElementOfSeq
<1>2. a \in Seq(S) /\ Len(a) = i - 1 /\ \A j \in 1..i - 1 : a[j] = s[j]
  <2>1. \A j \in 1..i - 1 : s[j] \in S
    BY <1>1
  <2> QED BY <1>1, <2>1, SubSeqProperties
<1>3. b \in Seq(S) /\ Len(b) = Len(s) - i /\ \A j \in 1..Len(s) - i : b[j] = s[j + i]
  <2>1. \A j \in i + 1..Len(s) : s[j] \in S
    BY <1>1
  <2>2. /\ b \in Seq(S) /\ Len(b) = IF i + 1 <= Len(s) THEN Len(s) - (i + 1) + 1 ELSE 0
        /\ \A j \in 1..Len(s) - (i + 1) + 1 : b[j] = s[(i + 1) + j - 1]
    BY <1>1, <2>1, SubSeqProperties
  <2> HIDE DEF b
  <2> QED BY <1>1, <2>2
<1>4. Abstract!Without(s, i) = a \o b
  BY DEF Abstract!Without
<1> HIDE DEF a, b
<1>5. /\ a \o b \in Seq(S) /\ Len(a \o b) = Len(a) + Len(b)
      /\ \A j \in 1..Len(a) + Len(b) : (a \o b)[j] = IF j <= Len(a) THEN a[j] ELSE b[j - Len(a)]
  BY <1>2, <1>3, ConcatProperties
<1>6. Len(a) + Len(b) = Len(s) - 1
  BY <1>1, <1>2, <1>3
<1>7. ASSUME NEW j \in 1..Len(s) - 1 PROVE (a \o b)[j] = s[IF j < i THEN j ELSE j + 1]
  <2>1. CASE j < i
    BY <1>1, <1>2, <1>5, <1>6, <2>1
  <2>2. CASE ~(j < i)
    <3>1. (a \o b)[j] = b[j - (i - 1)] /\ j - (i - 1) \in 1..Len(s) - i
      BY <1>1, <1>2, <1>5, <1>6, <2>2
    <3>2. (j - (i - 1)) + i = j + 1
      BY <1>1
    <3> QED BY <1>3, <2>2, <3>1, <3>2
  <2> QED BY <2>1, <2>2
<1>8. ASSUME i = 1 PROVE a \o b = Tail(s)
  <2>1. s # <<>>
    BY <1>1
  <2>2. Tail(s) \in Seq(S) /\ Len(Tail(s)) = Len(s) - 1
        /\ \A j \in 1..Len(Tail(s)) : Tail(s)[j] = s[j + 1]
    BY <2>1, HeadTailProperties
  <2>3. ASSUME NEW j \in 1..Len(s) - 1 PROVE (a \o b)[j] = Tail(s)[j]
    <3>1. ~(j < i)
      BY <1>1, <1>8
    <3>2. (a \o b)[j] = s[j + 1]
      BY <1>7, <3>1
    <3> QED BY <2>2, <3>2
  <2> QED BY <1>5, <1>6, <2>2, <2>3, SeqEqual
<1> QED BY <1>4, <1>5, <1>6, <1>7, <1>8

LEMMA DropStep ==
  ASSUME IInvHeap, NEW q \in Queues, Resolves(q), UNCHANGED processes, NEW i \in Nat,
         i < Size(Resolved(q), ObjectOf(q)), store' = Removed(Resolved(q), ObjectOf(q), i)
  PROVE  Drops(q, i + 1)
<1> DEFINE h == ObjectOf(q)
           r == Resolved(q)
           s == Removed(r, h, i)
<1>1. q \in DOMAIN lists \/ Room
  BY DEF Resolves
<1>2. /\ DOMAIN r = Live \cup {h} /\ Filled(r, h) /\ Size(r, h) \in Nat
      /\ \A g \in Live : r[g] = store[g]
  BY <1>1, ResolvedFacts
<1>3. i < Size(r, h) /\ store' = s
  OBVIOUS
<1> HIDE DEF r, h
<1>4. /\ DOMAIN s = DOMAIN r /\ \A g \in DOMAIN r : g # h => s[g] = r[g]
      /\ Filled(s, h)
      /\ HeldBy(r, h) \in Seq(Items) /\ Len(HeldBy(r, h)) = Size(r, h)
      /\ HeldBy(s, h) \in Seq(Items) /\ Len(HeldBy(s, h)) = Size(r, h) - 1
      /\ \A j \in 1..Size(r, h) - 1 : HeldBy(s, h)[j] = HeldBy(r, h)[IF j <= i THEN j ELSE j + 1]
  BY <1>2, <1>3, RemovedFacts
<1> HIDE DEF s
<1>5. Reshaped(q) /\ store'[h] = s[h]
  BY <1>2, <1>3, <1>4, Edits DEF h, Queues
<1>6. HeldBy(store', h) = HeldBy(s, h)
  BY <1>5 DEF HeldBy, Size, Field
<1>7. AllContents[q] = HeldBy(r, h) /\ AllContents' = [AllContents EXCEPT ![q] = HeldBy(store', h)]
  BY <1>5, ReshapedContents DEF r, h
<1>8. i + 1 \in 1..Len(HeldBy(r, h))
  BY <1>2, <1>3, <1>4
<1>9. HeldBy(s, h) = Abstract!Without(HeldBy(r, h), i + 1)
  <2> DEFINE w == Abstract!Without(HeldBy(r, h), i + 1)
             n == Size(r, h)
  <2>1. /\ w \in Seq(Items) /\ Len(w) = n - 1
        /\ \A j \in 1..n - 1 : w[j] = HeldBy(r, h)[IF j < i + 1 THEN j ELSE j + 1]
    <3> DEFINE c == HeldBy(r, h)
    <3>1. c \in Seq(Items) /\ i + 1 \in 1..Len(c) /\ Len(c) = n
      BY <1>4, <1>8
    <3> HIDE DEF c
    <3>2. /\ Abstract!Without(c, i + 1) \in Seq(Items)
          /\ Len(Abstract!Without(c, i + 1)) = Len(c) - 1
          /\ \A j \in 1..Len(c) - 1 :
               Abstract!Without(c, i + 1)[j] = c[IF j < i + 1 THEN j ELSE j + 1]
      BY <3>1, WithoutFacts
    <3> QED BY <3>1, <3>2 DEF c
  <2> HIDE DEF w, n
  <2>2. /\ HeldBy(s, h) \in Seq(Items) /\ Len(HeldBy(s, h)) = n - 1 /\ n \in Nat
        /\ \A j \in 1..n - 1 : HeldBy(s, h)[j] = HeldBy(r, h)[IF j <= i THEN j ELSE j + 1]
    BY <1>2, <1>4 DEF n
  <2>3. \A j \in 1..n - 1 : HeldBy(s, h)[j] = w[j]
    BY <2>1, <2>2
  <2>4. HeldBy(s, h) = w
    BY <2>1, <2>2, <2>3, SeqEqual
  <2> QED BY <2>4 DEF w
<1> QED BY <1>5, <1>6, <1>7, <1>8, <1>9 DEF Drops

\* What a call about a list comes to.
ListStep ==
  \/ Touched /\ Abstract!Silent
  \/ \E q \in Queues :
       \/ \E v \in Items : Pushes(q, v) /\ Abstract!Silent
       \/ \E i \in Nat : Drops(q, i) /\ Abstract!Silent
       \/ Drops(q, 1) /\ answer' = <<"item", q, 0, AllContents[q][1]>>
       \/ Looks(q) /\ Abstract!Silent
       \/ Looks(q) /\ answer' = <<"size", q, Len(AllContents[q])>>
       \/ Looks(q) /\ \E i \in 1..Len(AllContents[q]) :
                        answer' = <<"item", q, i - 1, AllContents[q][i]>>
       \/ Touched /\ AllContents[q] = <<>> /\ answer' = <<"empty", q>>

LEMMA NeverBroken ==
  ASSUME IInvHeap, NEW q, Resolves(q)
  PROVE  /\ Counted(Resolved(q), ObjectOf(q)) /\ Size(Resolved(q), ObjectOf(q)) \in Nat
         /\ \A i \in Nat : i < Size(Resolved(q), ObjectOf(q)) =>
              /\ i \in DOMAIN Resolved(q)[ObjectOf(q)].items
              /\ Whole(Resolved(q), ObjectOf(q), i)
<1>1. q \in DOMAIN lists \/ Room
  BY DEF Resolves
<1>2. /\ Counted(Resolved(q), ObjectOf(q)) /\ Size(Resolved(q), ObjectOf(q)) \in Nat
      /\ Filled(Resolved(q), ObjectOf(q)) /\ ObjectOf(q) \in DOMAIN Resolved(q)
  BY <1>1, ResolvedFacts
<1> QED BY <1>2, RemovedFacts DEF Filled

LEMMA CollectionCalls ==
  ASSUME IInvHeap, CollectionCall
  PROVE  /\ ListStep /\ UNCHANGED <<script, treeVars, entries, channels, steps, countVars>>
         /\ UNCHANGED graphVars /\ writes' \in {writes, <<>>}
<1> USE DEF heapVars, unlessLists, taskVars, graphVars
<1> DEFINE Same == UNCHANGED <<script, treeVars, entries, channels, steps, countVars, graphVars, processes>>
           Goal == ListStep /\ Same /\ writes' \in {writes, <<>>}
<1>1. ASSUME NEW h \in Objs \cup Procs, NEW n \in script.names
      PROVE  CollectionId(h, n) \in Queues
  <2>1. n \in Names
    BY <1>1, ScriptsAssumption DEF IInvHeap, ServicesTypeOK
  <2>2. Normalize(h) \in 0..MaxHandles
    BY <1>1, OwnersTyped DEF IInvHeap
  <2> QED BY <2>1, <2>2 DEF CollectionId, CollectionIds, Queues
<1>2. ASSUME Refuses, UNCHANGED processes
      PROVE  Touched /\ Abstract!Silent /\ writes' \in {writes, <<>>}
  BY <1>2, TouchedBySame, PlainAnswers, Answered DEF Refuses, IInvHeap
<1>3. ASSUME NEW h \in Objs \cup Procs, NEW n \in script.names, CollectionSize(h, n) PROVE Goal
  <2> DEFINE q == CollectionId(h, n)
  <2>1. q \in Queues /\ Same
    BY <1>1, <1>3 DEF CollectionSize
  <2> HIDE DEF q
  <2>2. CASE ~Identified(q)
    BY <1>2, <1>3, <2>1, <2>2 DEF CollectionSize, ListStep, q
  <2>3. CASE Identified(q)
    <3>1. Resolves(q) /\ store' = Resolved(q)
      BY <1>3, <2>3 DEF CollectionSize, q
    <3>2. Answers(<<"size", q, Size(Resolved(q), ObjectOf(q))>>)
      BY <1>3, <2>3, <3>1, NeverBroken DEF CollectionSize, q
    <3>3. Looks(q) /\ Len(AllContents[q]) = Size(Resolved(q), ObjectOf(q))
      BY <2>1, <3>1, LookStep
    <3> QED BY <2>1, <3>2, <3>3 DEF ListStep, Answers
  <2> QED BY <2>2, <2>3
<1>4. ASSUME NEW h \in Objs \cup Procs, NEW n \in script.names, NEW v \in Items, CollectionPush(h, n, v)
      PROVE  Goal
  <2> DEFINE q == CollectionId(h, n)
  <2>1. q \in Queues /\ Same
    BY <1>1, <1>4 DEF CollectionPush
  <2> HIDE DEF q
  <2>2. CASE ~Identified(q)
    BY <1>2, <1>4, <2>1, <2>2 DEF CollectionPush, ListStep, q
  <2>3. CASE Identified(q)
    <3>1. Resolves(q)
      BY <1>4, <2>3 DEF CollectionPush, q
    <3>2. store' = Pushed(Resolved(q), ObjectOf(q), v) /\ Answers(Done)
      BY <1>4, <2>3, <3>1, NeverBroken DEF CollectionPush, q
    <3>3. Pushes(q, v)
      BY <2>1, <3>1, <3>2, PushStep
    <3>4. Abstract!Silent /\ writes' = writes
      BY <3>2, PlainAnswers, Answered
    <3> QED BY <2>1, <3>3, <3>4 DEF ListStep
  <2> QED BY <2>2, <2>3
<1>5. ASSUME NEW q \in Queues, Resolves(q), Broken(q), UNCHANGED processes
      PROVE  ListStep /\ writes' \in {writes, <<>>}
  <2>1. Looks(q)
    BY <1>5, LookStep DEF Broken
  <2>2. Abstract!Silent /\ writes' = <<>>
    BY <1>5, PlainAnswers, Answered DEF Broken
  <2> QED BY <2>1, <2>2 DEF ListStep
<1>6. ASSUME NEW h \in Objs \cup Procs, NEW n \in script.names, NEW i \in Nat, CollectionGet(h, n, i)
      PROVE  Goal
  <2> DEFINE q == CollectionId(h, n)
  <2>1. q \in Queues /\ Same
    BY <1>1, <1>6 DEF CollectionGet
  <2> HIDE DEF q
  <2>2. CASE ~Identified(q)
    BY <1>2, <1>6, <2>1, <2>2 DEF CollectionGet, ListStep, q
  <2>3. CASE Identified(q)
    <3>1. Resolves(q)
      BY <1>6, <2>3 DEF CollectionGet, q
    <3>2. CASE Broken(q)
      BY <1>5, <2>1, <3>1, <3>2
    <3>3. CASE ~Broken(q)
      <4>1. /\ i < Size(Resolved(q), ObjectOf(q)) /\ store' = Resolved(q)
            /\ Answers(<<"item", q, i, Resolved(q)[ObjectOf(q)].items[i]>>)
        BY <1>6, <2>3, <3>3 DEF CollectionGet, q
      <4>2. /\ Looks(q) /\ Len(AllContents[q]) = Size(Resolved(q), ObjectOf(q))
            /\ \A k \in 0..Size(Resolved(q), ObjectOf(q)) - 1 :
                 AllContents[q][k + 1] = Resolved(q)[ObjectOf(q)].items[k]
        BY <2>1, <3>1, <4>1, LookStep
      <4>3. Size(Resolved(q), ObjectOf(q)) \in Nat
        BY <3>1, NeverBroken
      <4>4. i + 1 \in 1..Len(AllContents[q]) /\ (i + 1) - 1 = i
            /\ AllContents[q][i + 1] = Resolved(q)[ObjectOf(q)].items[i]
        BY <4>1, <4>2, <4>3
      <4>5. answer' = <<"item", q, (i + 1) - 1, AllContents[q][i + 1]>> /\ writes' = writes
        BY <4>1, <4>4 DEF Answers
      <4> QED BY <2>1, <4>2, <4>4, <4>5 DEF ListStep
    <3> QED BY <3>2, <3>3
  <2> QED BY <2>2, <2>3
<1>7. ASSUME NEW h \in Objs \cup Procs, NEW n \in script.names, NEW i \in Nat, CollectionErase(h, n, i)
      PROVE  Goal
  <2> DEFINE q == CollectionId(h, n)
  <2>1. q \in Queues /\ Same
    BY <1>1, <1>7 DEF CollectionErase
  <2> HIDE DEF q
  <2>2. CASE ~Identified(q)
    BY <1>2, <1>7, <2>1, <2>2 DEF CollectionErase, ListStep, q
  <2>3. CASE Identified(q)
    <3>1. Resolves(q)
      BY <1>7, <2>3 DEF CollectionErase, q
    <3>2. CASE Broken(q)
      BY <1>5, <2>1, <3>1, <3>2
    <3>3. CASE ~Broken(q)
      <4>1. i < Size(Resolved(q), ObjectOf(q))
        BY <1>7, <2>3, <3>3 DEF CollectionErase, q
      <4>2. store' = Removed(Resolved(q), ObjectOf(q), i) /\ Answers(Done)
        BY <1>7, <2>3, <3>1, <4>1, NeverBroken DEF CollectionErase, q
      <4>3. Drops(q, i + 1)
        BY <2>1, <3>1, <4>1, <4>2, DropStep
      <4>4. Abstract!Silent /\ writes' = writes
        BY <4>2, PlainAnswers, Answered
      <4> QED BY <2>1, <4>3, <4>4 DEF ListStep
    <3> QED BY <3>2, <3>3
  <2> QED BY <2>2, <2>3
<1>8. \A item \in Objs : Pointer(item) \in Items
  BY Givens DEF IInvHeap
<1> QED BY <1>3, <1>4, <1>6, <1>7, <1>8, NamesAssumption DEF CollectionCall

LEMMA FifoCalls ==
  ASSUME IInvHeap, NEW p \in Ports, FifoTryGet(p) \/ \E v \in Items : FifoPush(p, v)
  PROVE  /\ ListStep /\ writes' \in {writes, <<>>}
         /\ UNCHANGED <<script, treeVars, entries, channels, steps, countVars, graphVars>>
<1> USE DEF heapVars, unlessLists, unlessHeap, taskVars, graphVars
<1> DEFINE q == FifoId(p)
           Same == UNCHANGED <<script, treeVars, entries, channels, steps, countVars, graphVars, processes>>
           Goal == ListStep /\ Same /\ writes' \in {writes, <<>>}
<1>1. q \in Queues
  BY DEF FifoIds, Queues
<1>2. ASSUME NEW v \in Items, FifoPush(p, v) PROVE Goal
  <2>1. Resolves(q) /\ Same
    BY <1>2 DEF FifoPush
  <2>2. store' = Notified(Pushed(Resolved(q), ObjectOf(q), v), {q}) /\ Answers(Done)
    BY <1>2, <2>1, NeverBroken DEF FifoPush
  <2> HIDE DEF q
  <2>3. Pushes(q, v)
    BY <1>1, <2>1, <2>2, PushStep
  <2>4. Abstract!Silent /\ writes' = writes
    BY <2>2, PlainAnswers, Answered
  <2> QED BY <1>1, <2>1, <2>3, <2>4 DEF ListStep
<1>3. ASSUME FifoTryGet(p) PROVE Goal
  <2> DEFINE h == lists[q]
  <2>1. Same /\ UNCHANGED <<created, lists>>
    BY <1>3 DEF FifoTryGet
  <2>2. CASE q \notin DOMAIN lists
    <3>1. answer' = <<"empty", q>> /\ UNCHANGED <<store, writes>>
      BY <1>3, <2>2 DEF FifoTryGet, Answers
    <3>2. AllContents[q] = <<>>
      BY <1>1, <2>2 DEF AllContents, Contents
    <3>3. Touched
      BY <2>1, <3>1, TouchedBySame DEF IInvHeap
    <3> QED BY <1>1, <2>1, <3>1, <3>2, <3>3 DEF ListStep
  <2>3. CASE q \in DOMAIN lists
    <3>1. Resolves(q) /\ Resolved(q) = store /\ ObjectOf(q) = h
      BY <2>1, <2>3 DEF Resolves, Resolved, ObjectOf
    <3>2. /\ Counted(store, h) /\ Size(store, h) \in Nat
          /\ 0 < Size(store, h) => 0 \in DOMAIN store[h].items /\ Whole(store, h, 0)
      BY <3>1, NeverBroken
    <3>3. CASE Size(store, h) = 0
      <4>1. answer' = <<"empty", q>> /\ UNCHANGED <<store, writes>>
        BY <1>3, <2>3, <3>2, <3>3 DEF FifoTryGet, Answers
      <4>2. AllContents[q] = <<>>
        BY <1>1, <2>3, <3>3 DEF AllContents, Contents
      <4>3. Touched
        BY <2>1, <4>1, TouchedBySame DEF IInvHeap
      <4> QED BY <1>1, <2>1, <4>1, <4>2, <4>3 DEF ListStep
    <3>4. CASE Size(store, h) # 0
      <4>1. store' = Removed(store, h, 0) /\ Answers(<<"item", q, 0, store[h].items[0]>>)
        BY <1>3, <2>3, <3>2, <3>4 DEF FifoTryGet
      <4>2. 0 < Size(store, h)
        BY <3>2, <3>4
      <4> HIDE DEF q, h
      <4>3. Drops(q, 1)
        <5>1. Drops(q, 0 + 1)
          BY <1>1, <2>1, <3>1, <4>1, <4>2, DropStep
        <5> QED BY <5>1
      <4>4. AllContents[q][1] = store[h].items[0]
        <5>1. AllContents[q] = [i \in 1..Size(store, h) |-> store[h].items[i - 1]]
          BY <1>1, <2>3 DEF AllContents, Contents, h
        <5>2. 1 \in 1..Size(store, h) /\ 1 - 1 = 0
          BY <3>2, <4>2
        <5> QED BY <5>1, <5>2
      <4> QED BY <1>1, <2>1, <4>1, <4>3, <4>4 DEF ListStep, Answers
    <3> QED BY <3>3, <3>4
  <2> QED BY <2>2, <2>3
<1> QED BY <1>2, <1>3

LEMMA TopTyped ==
  ASSUME ServicesTypeOK, writes # <<>>
  PROVE  /\ Len(writes) \in 1..Len(writes) /\ Len(writes) \in Nat /\ Top \in Frames
         /\ Front(writes) \in Seq(Frames) /\ Len(Front(writes)) = Len(writes) - 1
         /\ \A i \in 1..Len(writes) - 1 : Front(writes)[i] = writes[i]
<1>1. writes \in Seq(Frames) /\ Len(writes) \in Nat \ {0}
  BY EmptySeq, LenProperties DEF ServicesTypeOK
<1>2. \A i \in 1..Len(writes) : writes[i] \in Frames
  BY <1>1, ElementOfSeq
<1>3. \A i \in 1..Len(writes) - 1 : writes[i] \in Frames
  BY <1>1, <1>2
<1>4. /\ Front(writes) \in Seq(Frames) /\ Len(Front(writes)) = Len(writes) - 1
      /\ \A i \in 1..Len(writes) - 1 : Front(writes)[i] = writes[i]
  <2>1. /\ Front(writes) \in Seq(Frames)
        /\ Len(Front(writes)) = IF 1 <= Len(writes) - 1 THEN (Len(writes) - 1) - 1 + 1 ELSE 0
        /\ \A i \in 1..(Len(writes) - 1) - 1 + 1 : Front(writes)[i] = writes[1 + i - 1]
    BY <1>1, <1>3, SubSeqProperties DEF Front
  <2> DEFINE f == Front(writes)
             n == Len(writes)
  <2>2. n \in Nat \ {0} /\ Len(f) = (IF 1 <= n - 1 THEN (n - 1) - 1 + 1 ELSE 0)
        /\ \A i \in 1..(n - 1) - 1 + 1 : f[i] = writes[1 + i - 1]
    BY <1>1, <2>1
  <2> HIDE DEF f, n
  <2>3. Len(f) = n - 1 /\ \A i \in 1..n - 1 : f[i] = writes[i]
    BY <2>2
  <2> QED BY <2>1, <2>3 DEF f, n
<1> QED BY <1>1, <1>2, <1>4 DEF Top

\* A write puts its value into a FIFO, or wakes who waits, or touches no object.
LEMMA WriteSteps ==
  ASSUME IInvHeap, WriteStep
  PROVE  ListStep /\ UNCHANGED <<script, treeVars, entries, channels, steps, countVars, graphVars>>
<1> USE DEF heapVars, unlessLists, unlessHeap, unlessGraph, taskVars, graphVars
<1> DEFINE Same == UNCHANGED <<script, treeVars, entries, channels, steps, countVars, graphVars, processes>>
<1>1. ASSUME Deliver PROVE ListStep /\ Same
  <2> DEFINE q == FifoId(Top.fifos[Top.pushed + 1])
  <2>1. Top \in Frames /\ Top.pushed < Len(Top.fifos)
    BY <1>1, TopTyped DEF Deliver, Writing, IInvHeap
  <2>2. Top.value \in Items /\ Top.pushed + 1 \in 1..Len(Top.fifos) /\ Top.fifos \in Seq(FifoPorts)
    BY <2>1, LenProperties DEF Frames
  <2>3. Top.fifos[Top.pushed + 1] \in Ports
    BY <2>2, ElementOfSeq, NamesAssumption
  <2>4. q \in Queues
    BY <2>3 DEF Queues, FifoIds
  <2>5. Resolves(q) /\ Same
    BY <1>1 DEF Deliver
  <2>6. store' = Pushed(Resolved(q), ObjectOf(q), Top.value) /\ answer' = answer
    BY <1>1, <2>5, NeverBroken DEF Deliver, Becomes
  <2> HIDE DEF q
  <2>7. Pushes(q, Top.value)
    BY <2>2, <2>4, <2>5, <2>6, PushStep
  <2>8. Abstract!Silent
    BY <2>6 DEF Abstract!Silent
  <2> QED BY <2>2, <2>4, <2>5, <2>7, <2>8 DEF ListStep
<1>2. ASSUME WriteReturns PROVE ListStep /\ Same
  <2>1. Touched
    BY <1>2, TouchedByNotice DEF WriteReturns, IInvHeap
  <2>2. Abstract!Silent
    BY <1>2, PlainAnswers DEF WriteReturns, Abstract!Silent
  <2> QED BY <1>2, <2>1, <2>2 DEF WriteReturns, ListStep
<1>3. ASSUME Walk \/ WalkEnds \/ CallSubscriber \/ SubscriberReturns
      PROVE  ListStep /\ Same
  <2>1. Same /\ UNCHANGED <<store, created, lists, answer>>
    BY <1>3 DEF Walk, WalkEnds, CallSubscriber, SubscriberReturns, Becomes
  <2>2. Touched
    BY <2>1, TouchedBySame DEF IInvHeap
  <2> QED BY <2>1, <2>2 DEF ListStep, Abstract!Silent
<1> QED BY <1>1, <1>2, <1>3 DEF WriteStep

LEMMA TlmCalls ==
  ASSUME IInvHeap, TlmCall
  PROVE  ListStep /\ UNCHANGED <<script, treeVars, entries, channels, steps, countVars>>
<1> USE DEF heapVars, unlessGraph, taskVars
<1>1. script.ports \subseteq Ports
  BY ScriptsAssumption DEF IInvHeap, ServicesTypeOK
<1>2. PICK p \in script.ports :
        \/ Subscribe(p) \/ FifoTryGet(p)
        \/ \E endpoint \in script.ports : Connect(p, endpoint)
        \/ \E item \in Objs : WritePort(p, Pointer(item)) \/ FifoPush(p, Pointer(item))
  BY DEF TlmCall
<1>3. \A item \in Objs : Pointer(item) \in Items
  BY Givens DEF IInvHeap
<1>4. CASE FifoTryGet(p) \/ \E item \in Objs : FifoPush(p, Pointer(item))
  BY <1>1, <1>3, <1>4, FifoCalls
<1>5. CASE Subscribe(p) \/ (\E endpoint \in script.ports : Connect(p, endpoint))
           \/ \E item \in Objs : WritePort(p, Pointer(item))
  <2>1. Touched /\ UNCHANGED <<script, treeVars, entries, channels, steps, countVars>>
    BY <1>5, TouchedBySame DEF Subscribe, Connect, WritePort, IInvHeap
  <2>2. Abstract!Silent
    BY <1>5, PlainAnswers, Answered DEF Subscribe, Connect, WritePort, Abstract!Silent
  <2> QED BY <2>1, <2>2 DEF ListStep
<1> QED BY <1>2, <1>4, <1>5

-----------------------------------------------------------------------------
(* The objects stay as the invariant has them.                             *)

HeapOK ==
  /\ created \in Seq(Kinds) /\ Len(created) <= MaxHandles
  /\ Live \subseteq DOMAIN created /\ ObjectsOK
  /\ DOMAIN lists \subseteq FifoIds \cup CollectionIds
  /\ \A q \in DOMAIN lists : lists[q] \in Live /\ created[lists[q]] = "list"
  /\ processes \in Seq(Given("process")) /\ Listed

RestOK ==
  /\ script \in Scripts /\ steps \subseteq Names
  /\ \A t \in DOMAIN overrides : overrides[t] \in ClassTypes
  /\ bins \subseteq Bins /\ hits \in [Bins -> Nat]
  /\ reported \in [Severities \ {"info"} -> Nat] /\ objections \in Nat

GraphOK ==
  /\ links \in [Ports -> Seq(Ports)] /\ subscribers \in [Ports -> Nat]
  /\ writes \in Seq(Frames) /\ Len(writes) <= MaxWrites

LEMMA Parts == IInvHeap <=> HeapOK /\ RestOK /\ GraphOK
  BY DEF IInvHeap, HeapOK, RestOK, GraphOK, ServicesTypeOK

LEMMA TouchedHeap ==
  ASSUME IInvHeap, Touched
  PROVE  HeapOK'
<1>1. HeapOK
  BY Parts
<1>2. Live' = Live /\ UNCHANGED <<created, lists, processes>>
  BY DEF Touched, Live
<1>3. \A h \in Live : created[h] \in Kinds
  BY <1>1, ElementOfSeq, LenProperties DEF HeapOK
<1>4. ObjectsOK'
  <2>1. ASSUME NEW h \in Live
        PROVE  /\ DOMAIN store'[h] = {"type", "fields", "locals", "items"}
               /\ created[h] = "object" => store'[h].type \in ClassTypes
               /\ created[h] = "process" =>
                    /\ store'[h].type = "uvm_process_state"
                    /\ {"pc", "status", "event", "owner"} \subseteq DOMAIN store'[h].fields
                    /\ Field(store', h, "owner") \in Items
               /\ created[h] = "list" => store'[h].type \in {"uvm_tlm_fifo", "uvm_collection"}
    BY <1>1 DEF Touched, Alike, HeapOK, ObjectsOK
  <2> QED BY <1>2, <2>1 DEF ObjectsOK, Items
<1>5. \A q \in DOMAIN lists : store'[lists[q]] = store[lists[q]]
  BY <1>1 DEF Touched, Alike, HeapOK
<1>6. Listed'
  BY <1>1, <1>2, <1>5 DEF HeapOK, Listed, Counted, Has, Size, Field, ListObjects, Live
<1> QED BY <1>1, <1>2, <1>4, <1>6 DEF HeapOK, FifoIds, CollectionIds, FifoId, Given

\* A new handle, of one of the kinds.
LEMMA AppendedKind ==
  ASSUME HeapOK, NEW kind \in Kinds, Room, created' = Append(created, kind)
  PROVE  /\ created' \in Seq(Kinds) /\ Len(created') <= MaxHandles
         /\ DOMAIN created' = DOMAIN created \cup {NextId} /\ NextId \notin DOMAIN created
         /\ created'[NextId] = kind /\ \A h \in DOMAIN created : created'[h] = created[h]
         /\ processes \in Seq(Given("process")')
         /\ kind = "process" => NextId \in Given("process")'
<1>1. created \in Seq(Kinds) /\ Len(created) \in Nat /\ DOMAIN created = 1..Len(created)
  BY LenProperties DEF HeapOK
<1>2. /\ created' \in Seq(Kinds) /\ Len(created') = Len(created) + 1
      /\ \A h \in 1..Len(created) : created'[h] = created[h]
      /\ created'[Len(created) + 1] = kind
  BY <1>1, AppendProperties
<1>3. DOMAIN created' = 1..Len(created) + 1
  BY <1>2, LenProperties
<1>4. 1..Len(created) + 1 = 1..Len(created) \cup {Len(created) + 1}
  BY <1>1
<1>5. Len(created) + 1 <= MaxHandles
  BY DEF Room, NextId
<1>6. Given("process") \subseteq Given("process")'
  BY <1>1, <1>2, <1>3, <1>4 DEF Given
<1>7. processes \in Seq(Given("process")')
  BY <1>6, SeqMonotonic DEF HeapOK
<1> QED BY <1>1, <1>2, <1>3, <1>4, <1>5, <1>7 DEF NextId, Given

LEMMA GrownHeap ==
  ASSUME IInvHeap, GrownObject \/ GrownProcess
  PROVE  HeapOK'
<1>1. HeapOK
  BY Parts
<1>2. PICK kind \in Kinds :
        /\ kind \in {"object", "process"} /\ Grown(kind) /\ UNCHANGED lists
        /\ kind = "object" => GrownObject
        /\ kind = "process" => GrownProcess
  BY DEF GrownObject, GrownProcess, Kinds
<1>3. /\ created' \in Seq(Kinds) /\ Len(created') <= MaxHandles
      /\ DOMAIN created' = DOMAIN created \cup {NextId} /\ NextId \notin DOMAIN created
      /\ created'[NextId] = kind /\ \A h \in DOMAIN created : created'[h] = created[h]
      /\ processes \in Seq(Given("process")')
      /\ kind = "process" => NextId \in Given("process")'
  BY <1>1, <1>2, AppendedKind DEF Grown
<1>4. Live' = Live \cup {NextId} /\ \A h \in Live : store'[h] = store[h]
  BY <1>2 DEF Grown, Live
<1>5. Live' \subseteq DOMAIN created' /\ NextId \notin Live
  BY <1>1, <1>3, <1>4 DEF HeapOK
<1>6. ObjectsOK'
  <2>1. ASSUME NEW h \in Live
        PROVE  /\ DOMAIN store'[h] = {"type", "fields", "locals", "items"}
               /\ created'[h] = "object" => store'[h].type \in ClassTypes
               /\ created'[h] = "process" =>
                    /\ store'[h].type = "uvm_process_state"
                    /\ {"pc", "status", "event", "owner"} \subseteq DOMAIN store'[h].fields
                    /\ Field(store', h, "owner") \in Items
               /\ created'[h] = "list" => store'[h].type \in {"uvm_tlm_fifo", "uvm_collection"}
    BY <1>1, <1>3, <1>4 DEF HeapOK, ObjectsOK, Field
  <2>2. /\ DOMAIN store'[NextId] = {"type", "fields", "locals", "items"}
        /\ created'[NextId] = "object" => store'[NextId].type \in ClassTypes
        /\ created'[NextId] = "process" =>
             /\ store'[NextId].type = "uvm_process_state"
             /\ {"pc", "status", "event", "owner"} \subseteq DOMAIN store'[NextId].fields
             /\ Field(store', NextId, "owner") \in Items
        /\ created'[NextId] # "list"
    BY <1>2, <1>3 DEF Grown, GrownObject, GrownProcess
  <2>3. ASSUME NEW h \in Live'
        PROVE  /\ DOMAIN store'[h] = {"type", "fields", "locals", "items"}
               /\ created'[h] = "object" => store'[h].type \in ClassTypes
               /\ created'[h] = "process" =>
                    /\ store'[h].type = "uvm_process_state"
                    /\ {"pc", "status", "event", "owner"} \subseteq DOMAIN store'[h].fields
                    /\ Field(store', h, "owner") \in Items
               /\ created'[h] = "list" => store'[h].type \in {"uvm_tlm_fifo", "uvm_collection"}
    BY <1>4, <2>1, <2>2
  <2> QED BY <2>3 DEF ObjectsOK, Items
<1>7. \A q \in DOMAIN lists : /\ lists[q] \in Live' /\ created'[lists[q]] = "list"
                              /\ store'[lists[q]] = store[lists[q]]
  BY <1>1, <1>3, <1>4 DEF HeapOK
<1>8. Listed'
  <2>1. \A h \in Live' : created'[h] = "list" => h \in ListObjects
    BY <1>1, <1>2, <1>3, <1>4 DEF HeapOK, Listed
  <2>2. ListObjects' = ListObjects
    BY <1>2 DEF ListObjects
  <2>3. \A q \in DOMAIN lists :
          /\ Counted(store', lists[q]) /\ Size(store', lists[q]) \in Nat
          /\ \A i \in 0..Size(store', lists[q]) - 1 :
               i \in DOMAIN store'[lists[q]].items /\ store'[lists[q]].items[i] \in Items
          /\ \A r \in DOMAIN lists : lists[q] = lists[r] => q = r
    BY <1>1, <1>7 DEF HeapOK, Listed, Counted, Has, Size, Field, Live
  <2> QED BY <1>2, <2>1, <2>2, <2>3 DEF Listed, Counted, Has, Size, Field, Items
<1>9. processes' \in Seq(Given("process")')
  <2>1. CASE kind = "object"
    BY <1>2, <1>3, <2>1 DEF GrownObject
  <2>2. CASE kind = "process"
    BY <1>2, <1>3, <2>2, AppendProperties DEF GrownProcess
  <2> QED BY <1>2, <2>1, <2>2
<1> QED BY <1>1, <1>2, <1>3, <1>5, <1>6, <1>7, <1>8, <1>9 DEF HeapOK, FifoIds, CollectionIds, FifoId

LEMMA ReshapedHeap ==
  ASSUME IInvHeap, NEW q, Reshaped(q)
  PROVE  HeapOK'
<1> DEFINE o == ObjectOf(q)
<1>1. HeapOK
  BY Parts
<1>2. q \in DOMAIN lists \/ Room
  BY DEF Reshaped, Resolves
<1>3. /\ created' \in Seq(Kinds) /\ Len(created') <= MaxHandles
      /\ DOMAIN created' = DOMAIN created \cup {o}
      /\ created'[o] = "list" /\ \A h \in DOMAIN created : created'[h] = created[h]
      /\ processes \in Seq(Given("process")')
  <2>1. CASE q \in DOMAIN lists
    <3>1. created' = created /\ o \in DOMAIN created /\ created[o] = "list"
      BY <1>1, <2>1 DEF Reshaped, Resolves, ObjectOf, HeapOK
    <3> QED BY <1>1, <3>1 DEF HeapOK, Given
  <2>2. CASE q \notin DOMAIN lists
    <3>1. o = NextId /\ Room /\ created' = Append(created, "list") /\ "list" \in Kinds
      BY <2>2 DEF Reshaped, Resolves, ObjectOf, Kinds
    <3> HIDE DEF o
    <3> QED BY <1>1, <3>1, AppendedKind
  <2> QED BY <2>1, <2>2
<1>4. /\ DOMAIN lists' = DOMAIN lists \cup {q} /\ lists'[q] = o
      /\ \A r \in DOMAIN lists : r # q => lists'[r] = lists[r] /\ lists[r] # o
  <2>1. CASE q \in DOMAIN lists
    BY <1>1, <2>1 DEF Reshaped, Resolves, ObjectOf, HeapOK, Listed
  <2>2. CASE q \notin DOMAIN lists
    <3>1. lists' = Put(lists, q, NextId) /\ o = NextId
      BY <2>2 DEF Reshaped, Resolves, ObjectOf
    <3>2. \A r \in DOMAIN lists : lists[r] # NextId
      BY <1>1, Givens DEF HeapOK, IInvHeap
    <3> QED BY <3>1, <3>2 DEF Put
  <2> QED BY <2>1, <2>2
<1>5. /\ DOMAIN store' = Live \cup {o} /\ Filled(store', o)
      /\ \A h \in Live : h # o => Alike(h)
  BY DEF Reshaped
<1>6. q \in FifoIds \cup CollectionIds /\ processes' = processes
  BY DEF Reshaped
<1>7. \A h \in Live : h \in DOMAIN created
  BY <1>1 DEF HeapOK
<1> HIDE DEF o
<1>8. ObjectsOK'
  <2>1. ASSUME NEW h \in DOMAIN store'
        PROVE  /\ DOMAIN store'[h] = {"type", "fields", "locals", "items"}
               /\ created'[h] = "object" => store'[h].type \in ClassTypes
               /\ created'[h] = "process" =>
                    /\ store'[h].type = "uvm_process_state"
                    /\ {"pc", "status", "event", "owner"} \subseteq DOMAIN store'[h].fields
                    /\ Field(store', h, "owner") \in Items
               /\ created'[h] = "list" => store'[h].type \in {"uvm_tlm_fifo", "uvm_collection"}
    <3>1. CASE h = o
      BY <1>3, <1>5, <3>1 DEF Filled
    <3>2. CASE h # o
      <4>1. h \in Live /\ created'[h] = created[h] /\ Alike(h)
        BY <1>3, <1>5, <1>7, <3>2
      <4> QED BY <1>1, <4>1 DEF Alike, HeapOK, ObjectsOK
    <3> QED BY <3>1, <3>2
  <2> QED BY <2>1 DEF ObjectsOK, Items, Live
<1>9. \A r \in DOMAIN lists' : lists'[r] \in DOMAIN store' /\ created'[lists'[r]] = "list"
  BY <1>1, <1>3, <1>4, <1>5, <1>7 DEF HeapOK
<1>10. Listed'
  <2>1. \A h \in DOMAIN store' : created'[h] = "list" => \E r \in DOMAIN lists' : lists'[r] = h
    <3>1. \A h \in Live : created[h] = "list" => \E r \in DOMAIN lists : lists[r] = h
      BY <1>1 DEF HeapOK, Listed, ListObjects
    <3>2. q \in DOMAIN lists => lists[q] = o
      BY DEF o, ObjectOf
    <3> QED BY <1>3, <1>4, <1>5, <1>7, <3>1, <3>2
  <2>2. ASSUME NEW r \in DOMAIN lists'
        PROVE  /\ Counted(store', lists'[r]) /\ Size(store', lists'[r]) \in Nat
               /\ \A i \in 0..Size(store', lists'[r]) - 1 :
                    i \in DOMAIN store'[lists'[r]].items /\ store'[lists'[r]].items[i] \in Items
               /\ \A p \in DOMAIN lists' : lists'[r] = lists'[p] => r = p
    <3>1. CASE r = q
      BY <1>4, <1>5, <3>1 DEF Filled
    <3>2. CASE r # q
      <4>1. r \in DOMAIN lists /\ lists'[r] = lists[r] /\ lists[r] # o
        BY <1>4, <3>2
      <4>2. store'[lists[r]] = store[lists[r]] /\ lists[r] \in DOMAIN store'
        BY <1>1, <1>5, <4>1 DEF Alike, HeapOK
      <4>3. /\ Counted(store', lists[r]) /\ Size(store', lists[r]) \in Nat
            /\ \A i \in 0..Size(store', lists[r]) - 1 :
                 i \in DOMAIN store'[lists[r]].items /\ store'[lists[r]].items[i] \in Items
        BY <1>1, <4>1, <4>2 DEF HeapOK, Listed, Counted, Has, Size, Field
      <4>4. \A p \in DOMAIN lists : lists[r] = lists[p] => r = p
        BY <1>1, <4>1 DEF HeapOK, Listed
      <4> QED BY <1>4, <4>1, <4>3, <4>4
    <3> QED BY <3>1, <3>2
  <2> QED BY <2>1, <2>2 DEF Listed, Counted, Has, Size, Field, Items, ListObjects, Live
<1> QED BY <1>1, <1>3, <1>4, <1>5, <1>6, <1>7, <1>8, <1>9, <1>10
  DEF HeapOK, FifoIds, CollectionIds, FifoId, Live

LEMMA ResetHeap ==
  ASSUME IInvHeap, ResetServices
  PROVE  HeapOK'
<1>1. HeapOK
  BY Parts
<1>2. /\ DOMAIN store' = Live \ (Handles \cup ListObjects)
      /\ \A h \in DOMAIN store' : store'[h] = store[h]
      /\ DOMAIN lists' = {} /\ processes' = <<>> /\ created' = created
  BY DEF ResetServices, Empty
<1>3. ObjectsOK'
  <2>1. ASSUME NEW h \in DOMAIN store'
        PROVE  /\ DOMAIN store'[h] = {"type", "fields", "locals", "items"}
               /\ created[h] = "object" => store'[h].type \in ClassTypes
               /\ created[h] = "process" =>
                    /\ store'[h].type = "uvm_process_state"
                    /\ {"pc", "status", "event", "owner"} \subseteq DOMAIN store'[h].fields
                    /\ Field(store', h, "owner") \in Items
               /\ created[h] = "list" => store'[h].type \in {"uvm_tlm_fifo", "uvm_collection"}
    BY <1>1, <1>2 DEF HeapOK, ObjectsOK, Field
  <2> QED BY <1>2, <2>1 DEF ObjectsOK, Items, Live
<1>4. Listed'
  <2>1. \A h \in DOMAIN store' : created[h] # "list"
    BY <1>1, <1>2 DEF HeapOK, Listed
  <2> QED BY <1>2, <2>1 DEF Listed, Live
<1>5. processes' \in Seq(Given("process")')
  BY <1>2, EmptySeq
<1> QED BY <1>1, <1>2, <1>3, <1>4, <1>5 DEF HeapOK, FifoIds, CollectionIds, FifoId, Live

LEMMA ListStepHeap ==
  ASSUME IInvHeap, ListStep
  PROVE  HeapOK'
  BY TouchedHeap, ReshapedHeap DEF ListStep, Pushes, Drops, Looks

-----------------------------------------------------------------------------
(* The walk of a write.                                                    *)

LEMMA AmongAppend ==
  ASSUME NEW S, NEW s \in Seq(S), NEW e \in S
  PROVE  Among(Append(s, e)) = Among(s) \cup {e}
<1>1. /\ Len(s) \in Nat /\ Len(Append(s, e)) = Len(s) + 1
      /\ \A i \in 1..Len(s) : Append(s, e)[i] = s[i]
      /\ Append(s, e)[Len(s) + 1] = e
  BY AppendProperties, LenProperties
<1>2. 1..Len(s) + 1 = 1..Len(s) \cup {Len(s) + 1}
  BY <1>1
<1> QED BY <1>1, <1>2 DEF Among

LEMMA AmongConcat ==
  ASSUME NEW S, NEW s \in Seq(S), NEW t \in Seq(S)
  PROVE  Among(s \o t) = Among(s) \cup Among(t)
<1>1. Range(s) = Among(s) /\ Range(t) = Among(t) /\ Range(s \o t) = Among(s \o t)
  <2>1. ASSUME NEW u \in Seq(S) PROVE Range(u) = Among(u)
    BY RangeEquality DEF Among
  <2> QED BY <2>1, ConcatProperties
<1> QED BY <1>1, RangeConcatenation

LEMMA AmongFront ==
  ASSUME NEW S, NEW s \in Seq(S), s # <<>>
  PROVE  /\ Front(s) \in Seq(S) /\ Last(s) \in S
         /\ Among(s) = Among(Front(s)) \cup {Last(s)}
<1> DEFINE n == Len(s)
           f == Front(s)
<1>1. n \in Nat \ {0} /\ \A i \in 1..n : s[i] \in S
  BY EmptySeq, ElementOfSeq
<1>2. /\ f \in Seq(S) /\ Len(f) = IF 1 <= n - 1 THEN (n - 1) - 1 + 1 ELSE 0
      /\ \A i \in 1..(n - 1) - 1 + 1 : f[i] = s[1 + i - 1]
  <2>1. \A i \in 1..n - 1 : s[i] \in S
    BY <1>1
  <2> QED BY <1>1, <2>1, SubSeqProperties DEF Front
<1>3. Among(s) = {s[i] : i \in 1..n} /\ Last(s) = s[n] /\ Among(f) = {f[i] : i \in 1..Len(f)}
  BY DEF Among, Last
<1> HIDE DEF n, f
<1>4. Len(f) = n - 1 /\ \A i \in 1..n - 1 : f[i] = s[i]
  BY <1>1, <1>2
<1>5. 1..n = 1..n - 1 \cup {n}
  BY <1>1
<1>6. Among(s) = Among(f) \cup {s[n]}
  BY <1>3, <1>4, <1>5
<1> QED BY <1>1, <1>2, <1>3, <1>6 DEF n, f

LEMMA OnceAppend ==
  ASSUME NEW S, NEW T, NEW s \in Seq(T), NEW e \in T, EachOnce(s, S), e \notin S
  PROVE  EachOnce(Append(s, e), S \cup {e})
<1>1. /\ Len(s) \in Nat /\ Len(Append(s, e)) = Len(s) + 1
      /\ \A i \in 1..Len(s) : Append(s, e)[i] = s[i]
      /\ Append(s, e)[Len(s) + 1] = e
  BY AppendProperties, LenProperties
<1>2. Among(s) = S /\ \A i, j \in 1..Len(s) : s[i] = s[j] => i = j
  BY DEF EachOnce, Among
<1>3. \A i \in 1..Len(s) : s[i] # e
  BY <1>2 DEF Among
<1>4. \A i, j \in 1..Len(s) + 1 : Append(s, e)[i] = Append(s, e)[j] => i = j
  BY <1>1, <1>2, <1>3
<1>5. Among(Append(s, e)) = S \cup {e}
  BY <1>2, AmongAppend
<1> QED BY <1>1, <1>4, <1>5 DEF EachOnce, Among

LEMMA OnceConcat ==
  ASSUME NEW S, NEW R, NEW T, NEW s \in Seq(T), NEW t \in Seq(T),
         EachOnce(s, S), EachOnce(t, R), S \cap R = {}
  PROVE  EachOnce(s \o t, S \cup R)
<1>1. /\ Len(s) \in Nat /\ Len(t) \in Nat /\ Len(s \o t) = Len(s) + Len(t)
      /\ \A i \in 1..Len(s) + Len(t) : (s \o t)[i] = IF i <= Len(s) THEN s[i] ELSE t[i - Len(s)]
  BY ConcatProperties, LenProperties
<1>2. /\ Among(s) = S /\ \A i, j \in 1..Len(s) : s[i] = s[j] => i = j
      /\ Among(t) = R /\ \A i, j \in 1..Len(t) : t[i] = t[j] => i = j
  BY DEF EachOnce, Among
<1>3. \A i \in 1..Len(s), j \in 1..Len(t) : s[i] # t[j]
  <2>1. ASSUME NEW i \in 1..Len(s), NEW j \in 1..Len(t) PROVE s[i] \in S /\ t[j] \in R
    BY <1>2 DEF Among
  <2> QED BY <2>1
<1>4. ASSUME NEW i \in 1..Len(s) + Len(t), NEW j \in 1..Len(s) + Len(t), (s \o t)[i] = (s \o t)[j]
      PROVE  i = j
  <2>1. CASE i <= Len(s) /\ j <= Len(s)
    BY <1>1, <1>2, <1>4, <2>1
  <2>2. CASE i <= Len(s) /\ ~(j <= Len(s))
    <3>1. i \in 1..Len(s) /\ j - Len(s) \in 1..Len(t)
      BY <1>1, <2>2
    <3> QED BY <1>1, <1>3, <1>4, <2>2, <3>1
  <2>3. CASE ~(i <= Len(s)) /\ j <= Len(s)
    <3>1. j \in 1..Len(s) /\ i - Len(s) \in 1..Len(t)
      BY <1>1, <2>3
    <3> QED BY <1>1, <1>3, <1>4, <2>3, <3>1
  <2>4. CASE ~(i <= Len(s)) /\ ~(j <= Len(s))
    <3>1. i - Len(s) \in 1..Len(t) /\ j - Len(s) \in 1..Len(t)
      BY <1>1, <2>4
    <3>2. i - Len(s) = j - Len(s)
      BY <1>1, <1>2, <1>4, <2>4, <3>1
    <3> QED BY <1>1, <3>2
  <2> QED BY <2>1, <2>2, <2>3, <2>4
<1>5. Among(s \o t) = S \cup R
  BY <1>2, AmongConcat
<1> QED BY <1>1, <1>4, <1>5 DEF EachOnce, Among

LEMMA SubscribersOnce ==
  ASSUME GraphOK, NEW n \in Ports
  PROVE  /\ Subscribers(n) \in Seq(Ports \X (Nat \ {0}))
         /\ EachOnce(Subscribers(n), {<<n, i>> : i \in 1..subscribers[n]})
<1>1. subscribers[n] \in Nat
  BY DEF GraphOK
<1>2. Subscribers(n) = [i \in 1..subscribers[n] |-> <<n, i>>]
  BY DEF Subscribers
<1>3. \A i \in 1..subscribers[n] : <<n, i>> \in Ports \X (Nat \ {0})
  BY <1>1
<1>4. Subscribers(n) \in Seq(Ports \X (Nat \ {0})) /\ Len(Subscribers(n)) = subscribers[n]
  BY <1>1, <1>2, <1>3
<1>5. \A i \in 1..subscribers[n] : Subscribers(n)[i] = <<n, i>>
  BY <1>2
<1> HIDE DEF Subscribers
<1>6. \A i, j \in 1..subscribers[n] : Subscribers(n)[i] = Subscribers(n)[j] => i = j
  BY <1>5
<1>7. {Subscribers(n)[i] : i \in 1..subscribers[n]} = {<<n, i>> : i \in 1..subscribers[n]}
  BY <1>5
<1> QED BY <1>4, <1>6, <1>7 DEF EachOnce

\* The fields of a frame, by name.
LEMMA FrameFacts ==
  ASSUME NEW w
  PROVE  w \in Frames <=>
         /\ w = [port |-> w.port, value |-> w.value, stage |-> w.stage, pending |-> w.pending,
                 visited |-> w.visited, calls |-> w.calls, fifos |-> w.fifos, pushed |-> w.pushed]
         /\ w.port \in Ports /\ w.value \in Items /\ w.stage \in {"walk", "deliver", "callback"}
         /\ w.pending \in Seq(Ports) /\ w.visited \subseteq Ports
         /\ w.calls \in Seq(Ports \X (Nat \ {0})) /\ w.fifos \in Seq(FifoPorts) /\ w.pushed \in Nat
  BY DEF Frames

\* Taking a node keeps what is true of a walk: what joins is taken once, and
\* what leads back ends.
LEMMA VisitKeeps ==
  ASSUME GraphOK, NEW w \in Frames, w.pending # <<>>, Walked(w)
  PROVE  LET u == Visited(w, Last(w.pending))
         IN  u \in Frames /\ u.stage = w.stage /\ u.port = w.port /\ Walked(u)
<1> DEFINE n == Last(w.pending)
           u == Visited(w, n)
           front == Front(w.pending)
           rest == [w EXCEPT !.pending = front]
<1>1. /\ w.port \in Ports /\ w.value \in Items /\ w.stage \in {"walk", "deliver", "callback"}
      /\ w.pending \in Seq(Ports) /\ w.visited \subseteq Ports
      /\ w.calls \in Seq(Ports \X (Nat \ {0})) /\ w.fifos \in Seq(FifoPorts) /\ w.pushed \in Nat
      /\ w = [port |-> w.port, value |-> w.value, stage |-> w.stage, pending |-> w.pending,
              visited |-> w.visited, calls |-> w.calls, fifos |-> w.fifos, pushed |-> w.pushed]
  BY FrameFacts
<1>2. front \in Seq(Ports) /\ n \in Ports /\ Among(w.pending) = Among(front) \cup {n}
  BY <1>1, AmongFront
<1>3. links[n] \in Seq(Ports) /\ Among(links[n]) \subseteq Ports
  <2>1. links[n] \in Seq(Ports)
    BY <1>2 DEF GraphOK
  <2> QED BY <2>1, ElementOfSeq DEF Among
<1>4. /\ \A S \in SUBSET Ports :
           w.port \in S /\ Closed(S) => w.visited \subseteq S /\ Among(front) \subseteq S /\ n \in S
      /\ w.port \in w.visited \cup Among(front) \cup {n}
      /\ \A m \in w.visited : \A i \in 1..Len(links[m]) :
           links[m][i] \in w.visited \cup Among(front) \cup {n}
      /\ EachOnce(w.fifos, LeavesOf(w.visited) \cap FifoPorts)
      /\ EachOnce(w.calls, CallsOf(w.visited))
  BY <1>2 DEF Walked
<1> HIDE DEF n, front
<1>5. ASSUME n \in w.visited PROVE u \in Frames /\ u.stage = w.stage /\ u.port = w.port /\ Walked(u)
  <2>1. u = [w EXCEPT !.pending = front]
    BY <1>5 DEF Visited, front
  <2>2. /\ u.port = w.port /\ u.stage = w.stage /\ u.pending = front /\ u.visited = w.visited
        /\ u.calls = w.calls /\ u.fifos = w.fifos
    BY <1>1, <2>1
  <2>3. u \in Frames
    BY <1>1, <1>2, <2>1 DEF Frames
  <2> HIDE DEF u
  <2>4. Walked(u)
    BY <1>4, <1>5, <2>2 DEF Walked
  <2> QED BY <2>2, <2>3, <2>4
<1>6. ASSUME n \notin w.visited, ~IsLeaf(n)
      PROVE  u \in Frames /\ u.stage = w.stage /\ u.port = w.port /\ Walked(u)
  <2>1. u = [[w EXCEPT !.pending = front] EXCEPT !.pending = @ \o links[n], !.visited = @ \cup {n}]
    BY <1>6 DEF Visited, front
  <2> DEFINE all == front \o links[n]
  <2>2. all \in Seq(Ports) /\ Among(all) = Among(front) \cup Among(links[n])
    BY <1>2, <1>3, ConcatProperties, AmongConcat
  <2>3. [w EXCEPT !.pending = front].pending = front /\ [w EXCEPT !.pending = front].visited = w.visited
    BY <1>1
  <2>4. u = [w EXCEPT !.pending = all, !.visited = w.visited \cup {n}]
    BY <1>1, <2>1, <2>3
  <2> HIDE DEF all, u
  <2>5. /\ u.port = w.port /\ u.stage = w.stage /\ u.pending = all /\ u.visited = w.visited \cup {n}
        /\ u.calls = w.calls /\ u.fifos = w.fifos
    BY <1>1, <2>4
  <2>6. u \in Frames
    BY <1>1, <1>2, <2>2, <2>4 DEF Frames
  <2>7. ASSUME NEW S \in SUBSET Ports, w.port \in S, Closed(S)
        PROVE  u.visited \subseteq S /\ Among(u.pending) \subseteq S
    <3>1. n \in S /\ Among(links[n]) \subseteq S
      BY <1>4, <2>7 DEF Closed, Among
    <3> QED BY <1>4, <2>2, <2>5, <2>7, <3>1
  <2>8. LeavesOf(u.visited) = LeavesOf(w.visited)
    BY <1>6, <2>5 DEF LeavesOf
  <2>9. CallsOf(u.visited) = CallsOf(w.visited)
    BY <2>8 DEF CallsOf
  <2>10. \A m \in u.visited : \A i \in 1..Len(links[m]) : links[m][i] \in u.visited \cup Among(u.pending)
    <3>1. \A i \in 1..Len(links[n]) : links[n][i] \in Among(links[n])
      BY DEF Among
    <3> QED BY <1>4, <2>2, <2>5, <3>1
  <2>11. u.port \in u.visited \cup Among(u.pending)
    BY <1>4, <2>2, <2>5
  <2>12. Walked(u)
    BY <1>4, <2>5, <2>7, <2>8, <2>9, <2>10, <2>11 DEF Walked
  <2> QED BY <2>5, <2>6, <2>12
<1>7. ASSUME n \notin w.visited, IsLeaf(n)
      PROVE  u \in Frames /\ u.stage = w.stage /\ u.port = w.port /\ Walked(u)
  <2> DEFINE fifos == IF n \in FifoPorts THEN Append(w.fifos, n) ELSE w.fifos
             calls == w.calls \o Subscribers(n)
  <2>1. u = [[w EXCEPT !.pending = front] EXCEPT !.visited = @ \cup {n},
               !.fifos = IF n \in FifoPorts THEN Append(@, n) ELSE @, !.calls = @ \o Subscribers(n)]
    BY <1>7 DEF Visited, front
  <2>2. /\ [w EXCEPT !.pending = front].fifos = w.fifos /\ [w EXCEPT !.pending = front].visited = w.visited
        /\ [w EXCEPT !.pending = front].calls = w.calls
    BY <1>1
  <2>3. u = [w EXCEPT !.pending = front, !.visited = w.visited \cup {n}, !.fifos = fifos, !.calls = calls]
    BY <1>1, <2>1, <2>2
  <2>4. LeavesOf(w.visited \cup {n}) = LeavesOf(w.visited) \cup {n} /\ n \notin LeavesOf(w.visited)
    BY <1>7 DEF LeavesOf
  <2>5. fifos \in Seq(FifoPorts) /\ EachOnce(fifos, LeavesOf(w.visited \cup {n}) \cap FifoPorts)
    <3>1. CASE n \in FifoPorts
      <4>1. fifos = Append(w.fifos, n) /\ Append(w.fifos, n) \in Seq(FifoPorts)
        BY <1>1, <3>1, AppendProperties
      <4>2. (LeavesOf(w.visited) \cap FifoPorts) \cup {n} = LeavesOf(w.visited \cup {n}) \cap FifoPorts
        BY <2>4, <3>1
      <4>3. n \notin LeavesOf(w.visited) \cap FifoPorts
        BY <2>4
      <4>4. EachOnce(Append(w.fifos, n), (LeavesOf(w.visited) \cap FifoPorts) \cup {n})
        BY <1>1, <1>4, <3>1, <4>3, OnceAppend
      <4> QED BY <4>1, <4>2, <4>4
    <3>2. CASE n \notin FifoPorts
      <4>1. LeavesOf(w.visited) \cap FifoPorts = LeavesOf(w.visited \cup {n}) \cap FifoPorts
        BY <2>4, <3>2
      <4> QED BY <1>1, <1>4, <3>2, <4>1
    <3> QED BY <3>1, <3>2
  <2>6. calls \in Seq(Ports \X (Nat \ {0})) /\ EachOnce(calls, CallsOf(w.visited \cup {n}))
    <3> DEFINE new == {<<n, i>> : i \in 1..subscribers[n]}
    <3>1. Subscribers(n) \in Seq(Ports \X (Nat \ {0})) /\ EachOnce(Subscribers(n), new)
      BY <1>2, SubscribersOnce
    <3>2. CallsOf(w.visited \cup {n}) = CallsOf(w.visited) \cup new
      <4> DEFINE CallsAt(m) == {<<m, i>> : i \in 1..subscribers[m]}
      <4>1. /\ CallsOf(w.visited \cup {n}) = UNION {CallsAt(m) : m \in LeavesOf(w.visited) \cup {n}}
            /\ CallsOf(w.visited) = UNION {CallsAt(m) : m \in LeavesOf(w.visited)}
            /\ new = CallsAt(n)
        BY <2>4 DEF CallsOf
      <4> HIDE DEF CallsAt
      <4> QED BY <4>1
    <3>3. CallsOf(w.visited) \cap new = {}
      BY <2>4 DEF CallsOf
    <3> HIDE DEF new
    <3>4. EachOnce(w.calls \o Subscribers(n), CallsOf(w.visited) \cup new)
      BY <1>1, <1>4, <3>1, <3>3, OnceConcat
    <3>5. calls \in Seq(Ports \X (Nat \ {0}))
      BY <1>1, <3>1, ConcatProperties
    <3> QED BY <3>2, <3>4, <3>5
  <2> HIDE DEF fifos, calls, u
  <2>7. /\ u.port = w.port /\ u.stage = w.stage /\ u.pending = front /\ u.visited = w.visited \cup {n}
        /\ u.calls = calls /\ u.fifos = fifos
    BY <1>1, <2>3
  <2>8. u \in Frames
    <3>1. w.visited \cup {n} \subseteq Ports
      BY <1>1, <1>2
    <3> QED BY <1>1, <1>2, <2>3, <2>5, <2>6, <3>1 DEF Frames
  <2>9. \A i \in 1..Len(links[n]) : FALSE
    BY <1>7 DEF IsLeaf
  <2>10. \A m \in u.visited : \A i \in 1..Len(links[m]) : links[m][i] \in u.visited \cup Among(u.pending)
    BY <1>4, <2>7, <2>9
  <2>11. u.port \in u.visited \cup Among(u.pending)
    BY <1>4, <2>7
  <2>12. \A S \in SUBSET Ports :
           u.port \in S /\ Closed(S) => u.visited \subseteq S /\ Among(u.pending) \subseteq S
    BY <1>4, <2>7
  <2>13. Walked(u)
    BY <2>5, <2>6, <2>7, <2>10, <2>11, <2>12 DEF Walked
  <2> QED BY <2>7, <2>8, <2>13
<1> QED BY <1>5, <1>6, <1>7 DEF n

WritesOK == GraphOK /\ WritesNested

LEMMA InvParts == ServicesInv <=> HeapOK /\ RestOK /\ WritesOK
  BY Parts DEF ServicesInv, IInvHeap, WritesOK

LEMMA InvNext == HeapOK' /\ RestOK' /\ WritesOK' => ServicesInv'
  BY DEF ServicesInv, ServicesTypeOK, HeapOK, RestOK, WritesOK, GraphOK

\* What is true of a frame stays so while the graph does.
LEMMA WalkedKept ==
  ASSUME NEW w, UNCHANGED graphVars, Walked(w), Top' = w
  PROVE  Walked(Top)'
<1>1. \A S : Closed(S)' = Closed(S) /\ LeavesOf(S)' = LeavesOf(S) /\ CallsOf(S)' = CallsOf(S)
  BY DEF Closed, LeavesOf, CallsOf, IsLeaf, graphVars
<1>2. links' = links
  BY DEF graphVars
<1>3. /\ \A S \in SUBSET Ports :
           w.port \in S /\ Closed(S)' => w.visited \subseteq S /\ Among(w.pending) \subseteq S
      /\ w.port \in w.visited \cup Among(w.pending)
      /\ \A n \in w.visited : \A i \in 1..Len(links'[n]) :
           links'[n][i] \in w.visited \cup Among(w.pending)
      /\ EachOnce(w.fifos, LeavesOf(w.visited)' \cap FifoPorts)
      /\ EachOnce(w.calls, CallsOf(w.visited)')
  BY <1>1, <1>2 DEF Walked
<1> QED BY <1>3 DEF Walked, Closed, LeavesOf, CallsOf, IsLeaf, EachOnce, Among

\* When no write is under way nothing is asked of one.
LEMMA NoWrites ==
  ASSUME WritesOK, writes' = <<>>,
         links' \in [Ports -> Seq(Ports)], subscribers' \in [Ports -> Nat]
  PROVE  WritesOK'
<1>1. writes' \in Seq(Frames) /\ Len(writes') = 0
  BY EmptySeq
<1>2. Len(writes') <= MaxWrites
  BY <1>1, SizesAssumption
<1>3. \A i \in 1..Len(writes') - 1 : FALSE
  BY <1>1
<1>4. ~Writing("walk")'
  BY DEF Writing
<1> QED BY <1>1, <1>2, <1>3, <1>4 DEF WritesOK, WritesNested, GraphOK, Frames, Items

LEMMA CalmWrites ==
  ASSUME WritesOK, UNCHANGED graphVars, writes' \in {writes, <<>>}
  PROVE  WritesOK'
<1>1. links' \in [Ports -> Seq(Ports)] /\ subscribers' \in [Ports -> Nat]
  BY DEF WritesOK, GraphOK, graphVars
<1>2. CASE writes' = writes
  <2>1. Writing("walk")' => Writing("walk") /\ Top' = Top
    BY <1>2 DEF Writing, Top
  <2>2. Writing("walk")' => Walked(Top)'
    BY <2>1, WalkedKept DEF WritesOK, WritesNested
  <2> QED BY <1>1, <1>2, <2>2 DEF WritesOK, WritesNested, GraphOK, Frames, Items
<1>3. CASE writes' = <<>>
  BY <1>1, <1>3, NoWrites
<1> QED BY <1>2, <1>3

\* The program calls while no write walks, and writes stay, or end, or one starts.
LEMMA EnteredWrites ==
  ASSUME WritesOK, NEW e, Enters(e), writes' \in {writes, <<>>},
         links' \in [Ports -> Seq(Ports)], subscribers' \in [Ports -> Nat]
  PROVE  WritesOK'
<1>1. CASE writes' = writes
  <2>1. ~Writing("walk")'
    BY <1>1 DEF Writing, Top, Enters
  <2> QED BY <1>1, <2>1 DEF WritesOK, WritesNested, GraphOK, Frames, Items
<1>2. CASE writes' = <<>>
  BY <1>2, NoWrites
<1> QED BY <1>1, <1>2

LEMMA BecomesWrites ==
  ASSUME WritesOK, writes # <<>>, NEW w \in Frames, w.stage = "walk" => Walked(w),
         writes' = [writes EXCEPT ![Len(writes)] = w], UNCHANGED graphVars
  PROVE  WritesOK'
<1>1. writes \in Seq(Frames) /\ Len(writes) \in Nat \ {0} /\ Len(writes) \in 1..Len(writes)
  BY EmptySeq DEF WritesOK, GraphOK
<1>2. /\ writes' \in Seq(Frames) /\ Len(writes') = Len(writes)
      /\ \A j \in 1..Len(writes) : writes'[j] = IF j = Len(writes) THEN w ELSE writes[j]
  BY <1>1, ExceptSeq
<1>3. Top' = w /\ \A i \in 1..Len(writes') - 1 : writes'[i].stage = "callback"
  <2>1. \A i \in 1..Len(writes) - 1 : writes[i].stage = "callback" /\ i \in 1..Len(writes) /\ i # Len(writes)
    BY <1>1 DEF WritesOK, WritesNested
  <2>2. \A i \in 1..Len(writes) - 1 : writes'[i] = writes[i]
    BY <1>2, <2>1
  <2> QED BY <1>1, <1>2, <2>1, <2>2 DEF Top
<1>4. Writing("walk")' => Walked(Top)'
  BY <1>3, WalkedKept DEF Writing
<1> QED BY <1>1, <1>2, <1>3, <1>4 DEF WritesOK, WritesNested, GraphOK, graphVars, Frames, Items

LEMMA WriteStepWrites ==
  ASSUME ServicesInv, WriteStep
  PROVE  WritesOK'
<1>1. WritesOK /\ ServicesTypeOK
  BY InvParts DEF ServicesInv
<1>2. UNCHANGED graphVars /\ writes # <<>>
  BY DEF WriteStep, Walk, WalkEnds, CallSubscriber, SubscriberReturns, Deliver, WriteReturns,
         Writing, unlessGraph, unlessLists, unlessHeap
<1>3. Top \in Frames
  BY <1>1, <1>2, TopTyped
<1>4. /\ Top = [port |-> Top.port, value |-> Top.value, stage |-> Top.stage, pending |-> Top.pending,
                visited |-> Top.visited, calls |-> Top.calls, fifos |-> Top.fifos, pushed |-> Top.pushed]
      /\ Top.calls \in Seq(Ports \X (Nat \ {0})) /\ Top.pushed \in Nat
  BY <1>3, FrameFacts
<1>5. CASE Walk
  <2> DEFINE w == Visited(Top, Last(Top.pending))
  <2>1. Writing("walk") /\ Top.pending # <<>> /\ writes' = [writes EXCEPT ![Len(writes)] = w]
    BY <1>5 DEF Walk, Becomes
  <2>2. Walked(Top)
    BY <1>1, <2>1 DEF WritesOK, WritesNested
  <2>3. w \in Frames /\ Walked(w)
    BY <1>1, <1>3, <2>1, <2>2, VisitKeeps DEF WritesOK
  <2> HIDE DEF w
  <2> QED BY <1>1, <1>2, <2>1, <2>3, BecomesWrites
<1>6. CASE WalkEnds
  <2> DEFINE w == [Top EXCEPT !.stage = "deliver"]
  <2>1. w \in Frames /\ w.stage = "deliver"
    BY <1>3, <1>4 DEF Frames
  <2>2. writes' = [writes EXCEPT ![Len(writes)] = w]
    BY <1>6 DEF WalkEnds, Becomes
  <2> HIDE DEF w
  <2> QED BY <1>1, <1>2, <2>1, <2>2, BecomesWrites
<1>7. CASE CallSubscriber
  <2> DEFINE w == [Top EXCEPT !.stage = "callback", !.calls = Tail(Top.calls)]
  <2>1. Tail(Top.calls) \in Seq(Ports \X (Nat \ {0}))
    BY <1>4, <1>7, HeadTailProperties DEF CallSubscriber
  <2>2. w \in Frames /\ w.stage = "callback"
    BY <1>3, <1>4, <2>1 DEF Frames
  <2>3. writes' = [writes EXCEPT ![Len(writes)] = w]
    BY <1>4, <1>7 DEF CallSubscriber, Becomes
  <2> HIDE DEF w
  <2> QED BY <1>1, <1>2, <2>2, <2>3, BecomesWrites
<1>8. CASE SubscriberReturns
  <2> DEFINE w == [Top EXCEPT !.stage = "deliver"]
  <2>1. w \in Frames /\ w.stage = "deliver"
    BY <1>3, <1>4 DEF Frames
  <2>2. writes' = [writes EXCEPT ![Len(writes)] = w]
    BY <1>8 DEF SubscriberReturns, Becomes
  <2> HIDE DEF w
  <2> QED BY <1>1, <1>2, <2>1, <2>2, BecomesWrites
<1>9. CASE Deliver
  <2> DEFINE w == [Top EXCEPT !.pushed = Top.pushed + 1]
  <2>1. w \in Frames /\ w.stage = "deliver"
    BY <1>3, <1>4, <1>9 DEF Frames, Deliver, Writing
  <2>2. writes' = [writes EXCEPT ![Len(writes)] = w] \/ writes' = <<>>
    BY <1>4, <1>9 DEF Deliver, Becomes, Broken, Throws
  <2> HIDE DEF w
  <2> QED BY <1>1, <1>2, <2>1, <2>2, BecomesWrites, CalmWrites
<1>10. CASE WriteReturns
  <2>1. writes' = Front(writes)
    BY <1>10 DEF WriteReturns
  <2>2. /\ writes' \in Seq(Frames) /\ Len(writes') = Len(writes) - 1 /\ Len(writes) \in Nat \ {0}
        /\ \A i \in 1..Len(writes) - 1 : writes'[i] = writes[i]
    BY <1>1, <1>2, <2>1, TopTyped
  <2>3. \A i \in 1..Len(writes') : writes'[i].stage = "callback"
    BY <1>1, <2>2 DEF WritesOK, WritesNested
  <2>4. ~Writing("walk")'
    <3>1. ASSUME writes' # <<>> PROVE writes'[Len(writes')].stage = "callback"
      <4>1. Len(writes') \in 1..Len(writes')
        BY <2>2, <3>1, EmptySeq
      <4> QED BY <2>3, <4>1
    <3> QED BY <3>1 DEF Writing, Top
  <2>5. Len(writes') <= MaxWrites
    BY <1>1, <2>2, SizesAssumption DEF WritesOK, GraphOK
  <2>6. \A i \in 1..Len(writes') - 1 : writes'[i].stage = "callback"
    BY <2>2, <2>3
  <2>7. links' \in [Ports -> Seq(Ports)] /\ subscribers' \in [Ports -> Nat]
    BY <1>1, <1>2 DEF WritesOK, GraphOK, graphVars
  <2> QED BY <2>2, <2>4, <2>5, <2>6, <2>7 DEF WritesOK, WritesNested, GraphOK, Frames, Items
<1> QED BY <1>5, <1>6, <1>7, <1>8, <1>9, <1>10 DEF WriteStep

LEMMA TlmWrites ==
  ASSUME ServicesInv, TlmCall
  PROVE  WritesOK'
<1>1. WritesOK /\ ServicesTypeOK /\ IInvHeap
  BY InvParts DEF ServicesInv, IInvHeap
<1>2. script.ports \subseteq Ports
  BY <1>1, ScriptsAssumption DEF ServicesTypeOK
<1>3. links \in [Ports -> Seq(Ports)] /\ subscribers \in [Ports -> Nat]
  BY <1>1 DEF WritesOK, GraphOK
<1>4. ASSUME NEW p \in script.ports, NEW endpoint \in script.ports, Connect(p, endpoint) PROVE WritesOK'
  <2>1. Append(links[p], endpoint) \in Seq(Ports)
    BY <1>2, <1>3, <1>4, AppendProperties
  <2>2. links' \in [Ports -> Seq(Ports)] /\ subscribers' \in [Ports -> Nat]
    BY <1>3, <1>4, <2>1 DEF Connect
  <2>3. Enters("connect") /\ writes' \in {writes, <<>>}
    BY <1>4 DEF Connect, Throws, Answers
  <2> QED BY <1>1, <2>2, <2>3, EnteredWrites
<1>5. ASSUME NEW p \in script.ports, Subscribe(p) PROVE WritesOK'
  <2>1. links' \in [Ports -> Seq(Ports)] /\ subscribers' \in [Ports -> Nat]
    <3>1. links' = links /\ (subscribers' = subscribers \/ subscribers' = [subscribers EXCEPT ![p] = @ + 1])
      BY <1>5 DEF Subscribe
    <3>2. subscribers[p] + 1 \in Nat
      BY <1>2, <1>3
    <3>3. [subscribers EXCEPT ![p] = subscribers[p] + 1] \in [Ports -> Nat]
      BY <1>3, <3>2
    <3> QED BY <1>3, <3>1, <3>3
  <2>2. Enters("subscribe") /\ writes' \in {writes, <<>>}
    BY <1>5 DEF Subscribe, Throws, Answers
  <2> QED BY <1>1, <2>1, <2>2, EnteredWrites
<1>6. \A item \in Objs : Pointer(item) \in Items
  BY <1>1, Givens
<1>7. ASSUME NEW p \in script.ports, FifoTryGet(p) \/ \E item \in Objs : FifoPush(p, Pointer(item))
      PROVE  WritesOK'
  BY <1>1, <1>2, <1>6, <1>7, FifoCalls, CalmWrites
<1>8. ASSUME NEW p \in script.ports, NEW item \in Objs, WritePort(p, Pointer(item)) PROVE WritesOK'
  <2> DEFINE w == [port |-> p, value |-> Pointer(item), stage |-> "walk", pending |-> <<p>>,
                   visited |-> {}, calls |-> <<>>, fifos |-> <<>>, pushed |-> 0]
  <2>1. /\ w.port = p /\ w.pending = <<p>> /\ w.visited = {} /\ w.calls = <<>> /\ w.fifos = <<>>
        /\ w.stage = "walk"
    OBVIOUS
  <2>2. w \in Frames
    <3>1. <<p>> \in Seq(Ports) /\ <<>> \in Seq(FifoPorts) /\ <<>> \in Seq(Ports \X (Nat \ {0}))
      BY <1>2, EmptySeq
    <3> QED BY <1>2, <1>6, <3>1 DEF Frames
  <2>3. writes' = Append(writes, w) /\ UNCHANGED graphVars /\ Len(writes) < MaxWrites /\ Enters("write")
    BY <1>8 DEF WritePort
  <2> HIDE DEF w
  <2>4. Among(<<p>>) = {p}
    BY DEF Among
  <2>5. LeavesOf({}) = {} /\ CallsOf({}) = {} /\ EachOnce(<<>>, {})
    BY DEF LeavesOf, CallsOf, EachOnce
  <2>6. Walked(w)
    BY <2>1, <2>4, <2>5 DEF Walked
  <2>7. writes \in Seq(Frames) /\ Len(writes) \in Nat /\ (writes # <<>> => Len(writes) \in 1..Len(writes))
    BY <1>1, EmptySeq, LenProperties DEF WritesOK, GraphOK
  <2>8. /\ writes' \in Seq(Frames) /\ Len(writes') = Len(writes) + 1
        /\ \A i \in 1..Len(writes) : writes'[i] = writes[i]
        /\ writes'[Len(writes) + 1] = w
    BY <2>2, <2>3, <2>7, AppendProperties
  <2>9. Top' = w
    BY <2>8 DEF Top
  <2>10. Walked(Top)'
    BY <2>3, <2>6, <2>9, WalkedKept
  <2>11. \A i \in 1..Len(writes) : writes[i].stage = "callback"
    <3>1. ASSUME writes # <<>> PROVE writes[Len(writes)].stage = "callback"
      BY <2>3, <3>1 DEF Enters, Top
    <3>2. \A i \in 1..Len(writes) - 1 : writes[i].stage = "callback"
      BY <1>1 DEF WritesOK, WritesNested
    <3> QED BY <2>7, <3>1, <3>2, EmptySeq
  <2> QED BY <1>3, <2>3, <2>7, <2>8, <2>10, <2>11, SizesAssumption
      DEF WritesOK, WritesNested, GraphOK, graphVars, Frames, Items
<1> QED BY <1>4, <1>5, <1>7, <1>8 DEF TlmCall

-----------------------------------------------------------------------------
(* The invariant.                                                          *)

LEMMA StepKinds ==
  ASSUME IInvHeap, ServicesNext
  PROVE  \/ Plain /\ Abstract!Silent
         \/ ListStep
         \/ ResetServices
<1> QED BY ObjectCalls, FactoryCalls, ConfigCalls, TaskCalls, SequencerCalls, CollectionCalls, TlmCalls,
           WriteSteps, CountCalls DEF ServicesNext, IInvHeap, Plain, Quiet

LEMMA HeapStep ==
  ASSUME IInvHeap, ServicesNext
  PROVE  HeapOK'
  BY StepKinds, TouchedHeap, GrownHeap, ListStepHeap, ResetHeap DEF Plain

LEMMA RestStep ==
  ASSUME IInvHeap, ServicesNext
  PROVE  RestOK'
<1>1. RestOK /\ ServicesTypeOK
  BY Parts DEF IInvHeap
<1>2. CASE UNCHANGED <<script, treeVars, steps, countVars>>
  BY <1>1, <1>2 DEF RestOK, treeVars, countVars
<1>3. CASE FactoryCall
  BY <1>1, <1>3, FactoryCalls DEF RestOK, countVars
<1>4. CASE TaskCall
  BY <1>1, <1>4, TaskCalls DEF RestOK, treeVars, countVars
<1>5. CASE CountCall
  BY <1>1, <1>5, CountCalls DEF RestOK, treeVars
<1>6. CASE ResetServices
  BY <1>1, <1>6 DEF RestOK, ResetServices, Empty, NoHits, NoReports
<1>7. CASE ObjectCall \/ ConfigCall \/ SequencerCall \/ CollectionCall \/ TlmCall \/ WriteStep
  BY <1>1, <1>2, <1>7, ObjectCalls, ConfigCalls, SequencerCalls, CollectionCalls, TlmCalls, WriteSteps
<1> QED BY <1>3, <1>4, <1>5, <1>6, <1>7 DEF ServicesNext

LEMMA WritesStep ==
  ASSUME ServicesInv, ServicesNext
  PROVE  WritesOK'
<1>1. WritesOK /\ ServicesTypeOK /\ IInvHeap
  BY InvParts DEF ServicesInv, IInvHeap
<1>2. CASE ObjectCall \/ FactoryCall \/ ConfigCall \/ TaskCall \/ SequencerCall \/ CountCall
  BY <1>1, <1>2, ObjectCalls, FactoryCalls, ConfigCalls, TaskCalls, SequencerCalls, CountCalls, CalmWrites
  DEF Quiet
<1>3. CASE CollectionCall
  BY <1>1, <1>3, CollectionCalls, CalmWrites
<1>4. CASE ResetServices
  <2>1. Enters("reset") /\ writes' = writes /\ links' = NoLinks /\ subscribers' = NoSubscribers
    BY <1>4 DEF ResetServices, Answers
  <2>2. links' \in [Ports -> Seq(Ports)] /\ subscribers' \in [Ports -> Nat]
    BY <2>1, EmptySeq DEF NoLinks, NoSubscribers
  <2> QED BY <1>1, <2>1, <2>2, EnteredWrites
<1> QED BY <1>2, <1>3, <1>4, TlmWrites, WriteStepWrites DEF ServicesNext

LEMMA InvInit == ServicesInit => ServicesInv
<1> SUFFICES ASSUME ServicesInit PROVE ServicesInv
  OBVIOUS
<1>1. HeapOK
  <2>1. /\ created = <<>> /\ processes = <<>> /\ DOMAIN store = {} /\ DOMAIN lists = {}
        /\ <<>> \in Seq(Kinds) /\ <<>> \in Seq(Given("process")) /\ Len(<<>>) = 0
    BY EmptySeq DEF ServicesInit, Empty
  <2> QED BY <2>1, SizesAssumption DEF HeapOK, ObjectsOK, Listed, Live
<1>2. RestOK
  BY DEF ServicesInit, RestOK, Empty, NoHits, NoReports
<1>3. WritesOK
  <2>1. /\ writes = <<>> /\ <<>> \in Seq(Frames) /\ Len(<<>>) = 0
        /\ links \in [Ports -> Seq(Ports)] /\ subscribers \in [Ports -> Nat]
    BY EmptySeq DEF ServicesInit, NoLinks, NoSubscribers
  <2>2. \A i \in 1..Len(writes) - 1 : FALSE
    BY <2>1
  <2> QED BY <2>1, <2>2, SizesAssumption DEF WritesOK, WritesNested, GraphOK, Writing
<1> QED BY <1>1, <1>2, <1>3, InvParts

LEMMA InvStep == ServicesInv /\ [ServicesNext]_serviceVars => ServicesInv'
<1> SUFFICES ASSUME ServicesInv, [ServicesNext]_serviceVars PROVE ServicesInv'
  OBVIOUS
<1>1. IInvHeap /\ HeapOK /\ RestOK /\ WritesOK
  BY InvParts DEF ServicesInv, IInvHeap
<1>2. CASE ServicesNext
  BY <1>1, <1>2, HeapStep, RestStep, WritesStep, InvNext
<1>3. CASE UNCHANGED serviceVars
  <2>1. UNCHANGED <<store, created, lists, processes>> /\ UNCHANGED graphVars /\ writes' = writes
        /\ UNCHANGED <<script, treeVars, steps, countVars>>
    BY <1>3 DEF serviceVars, heapVars, taskVars, resultVars
  <2>2. HeapOK'
    BY <1>1, <2>1, TouchedBySame, TouchedHeap DEF IInvHeap
  <2>3. RestOK'
    BY <1>1, <2>1 DEF RestOK, treeVars, countVars
  <2> QED BY <1>1, <2>1, <2>2, <2>3, CalmWrites, InvNext
<1> QED BY <1>2, <1>3

THEOREM ServicesInvariant == ServicesSpec => []ServicesInv
  BY InvInit, InvStep, PTL DEF ServicesSpec

(***************************************************************************)
(* Type correctness: among others, the fields that the scheduler reads are *)
(* in the object of each process, and its owner is a handle, whatever the  *)
(* program stores into objects.                                            *)
(***************************************************************************)
THEOREM ServicesTypeCorrect == ServicesSpec => []ServicesTypeOK
<1>1. ServicesInv => ServicesTypeOK
  BY DEF ServicesInv
<1> QED BY <1>1, ServicesInvariant, PTL

(***************************************************************************)
(* No entry point finds a list broken: Collection::get_size, erase and the *)
(* FIFOs of TLM find the fields they left, and no object of a list is left *)
(* when the list is gone.                                                  *)
(***************************************************************************)
THEOREM ListsAlwaysWhole == ServicesSpec => []ListsWhole
<1>1. ServicesInv => ListsWhole
  <2> SUFFICES ASSUME ServicesInv PROVE ListsWhole
    OBVIOUS
  <2>1. ServicesTypeOK /\ Listed /\ HeapOK
    BY InvParts DEF ServicesInv
  <2>2. ASSUME NEW q \in DOMAIN lists
        PROVE  /\ Counted(store, lists[q])
               /\ 0..Size(store, lists[q]) - 1 \subseteq DOMAIN store[lists[q]].items
               /\ lists[q] \notin Objs \cup Procs
               /\ \A r \in DOMAIN lists : lists[q] = lists[r] => q = r
    <3>1. lists[q] \in Live /\ created[lists[q]] = "list"
      BY <2>1 DEF HeapOK
    <3>2. lists[q] \notin Objs \cup Procs
      BY <2>1, <3>1, Givens
    <3> QED BY <2>1, <3>2 DEF Listed
  <2>3. ASSUME NEW h \in Live, h \notin Objs \cup Procs PROVE h \in ListObjects
    <3>1. h \in DOMAIN created /\ created[h] \in Kinds
      BY <2>1, Givens, ElementOfSeq DEF HeapOK
    <3>2. created[h] = "list"
      BY <2>3, <3>1 DEF Kinds, Objs, Procs, Given
    <3> QED BY <2>1, <3>2 DEF Listed
  <2> QED BY <2>2, <2>3 DEF ListsWhole
<1> QED BY <1>1, ServicesInvariant, PTL

(***************************************************************************)
(* The stack of TLM::write ends on the leaves that a path leads to, each   *)
(* once, for every graph of connections.                                   *)
(***************************************************************************)
THEOREM WritesAlwaysReach == ServicesSpec => []WritesReach
<1>1. ServicesInv => WritesReach
  <2> SUFFICES ASSUME ServicesInv, Writing("walk"), Top.pending = <<>>
               PROVE  LET leaves == {n \in Reached(Top.port) : IsLeaf(n)}
                      IN  /\ EachOnce(Top.fifos, leaves \cap FifoPorts)
                          /\ EachOnce(Top.calls, UNION {{<<n, i>> : i \in 1..subscribers[n]} : n \in leaves})
    BY DEF WritesReach
  <2> DEFINE seen == Top.visited
  <2>1. Walked(Top) /\ Top \in Frames
    BY TopTyped DEF ServicesInv, WritesNested, Writing
  <2>2. Among(Top.pending) = {} /\ seen \subseteq Ports
    BY <2>1, FrameFacts DEF Among
  <2>3. Top.port \in seen /\ Closed(seen)
    BY <2>1, <2>2 DEF Walked, Closed
  <2>4. \A S \in SUBSET Ports : Top.port \in S /\ Closed(S) => seen \subseteq S
    BY <2>1 DEF Walked
  <2>5. Reached(Top.port) = seen
    BY <2>2, <2>3, <2>4 DEF Reached
  <2> QED BY <2>1, <2>5 DEF Walked, LeavesOf, CallsOf
<1> QED BY <1>1, ServicesInvariant, PTL

-----------------------------------------------------------------------------
(* The services implement the queues.                                      *)

LEMMA QueuesInit == ServicesInit => Abstract!Init
  BY DEF ServicesInit, Empty, Abstract!Init, Abstract!About, Contents, Done

LEMMA ListStepQueues ==
  ASSUME IInvHeap, ListStep
  PROVE  Abstract!Next
<1> DEFINE all == [q \in FifoIds \cup CollectionIds |-> Contents(q)]
<1>1. AllContents = all /\ AllContents' = all' /\ Queues = FifoIds \cup CollectionIds
  BY DEF AllContents, Queues
<1>2. ASSUME Touched, Abstract!Silent PROVE Abstract!Next
  <2>1. all' = all
    BY <1>1, <1>2, TouchedContents
  <2> QED BY <1>2, <2>1 DEF Abstract!Next, Abstract!Other
<1>3. ASSUME NEW q \in Queues, NEW v \in Items, Pushes(q, v), Abstract!Silent PROVE Abstract!Next
  <2>1. all' = [all EXCEPT ![q] = Append(@, v)]
    BY <1>1, <1>3 DEF Pushes
  <2>2. Abstract!Push(q, v)
    BY <1>3, <2>1 DEF Abstract!Push
  <2> QED BY <1>1, <2>2 DEF Abstract!Next
<1>4. ASSUME NEW q \in Queues, NEW i \in Nat, Drops(q, i), Abstract!Silent PROVE Abstract!Next
  <2>1. i \in 1..Len(all[q]) /\ all' = [all EXCEPT ![q] = Abstract!Without(@, i)]
    BY <1>1, <1>4 DEF Drops
  <2>2. Abstract!Remove(q)
    BY <1>4, <2>1 DEF Abstract!Remove
  <2> QED BY <1>1, <2>2 DEF Abstract!Next
<1>5. ASSUME NEW q \in Queues, Drops(q, 1), answer' = <<"item", q, 0, AllContents[q][1]>>
      PROVE  Abstract!Next
  <2>1. 1 \in 1..Len(all[q]) /\ all' = [all EXCEPT ![q] = Abstract!Without(@, 1)]
        /\ all[q] \in Seq(Items)
    BY <1>1, <1>5, ContentsTyped DEF Drops
  <2>2. Abstract!Without(all[q], 1) = Tail(all[q]) /\ all[q] # <<>> /\ Head(all[q]) = all[q][1]
    <3> DEFINE s == all[q]
    <3>1. s \in Seq(Items) /\ 1 \in 1..Len(s)
      BY <2>1
    <3> HIDE DEF s
    <3>2. Abstract!Without(s, 1) = Tail(s) /\ s # <<>> /\ Head(s) = s[1]
      BY <3>1, WithoutFacts
    <3> QED BY <3>2 DEF s
  <2>3. all' = [all EXCEPT ![q] = Tail(@)]
    BY <2>1, <2>2
  <2>4. Abstract!Take(q)
    BY <1>1, <1>5, <2>2, <2>3 DEF Abstract!Take
  <2> QED BY <1>1, <2>4 DEF Abstract!Next
<1>6. ASSUME NEW q \in Queues, Looks(q), Abstract!Silent PROVE Abstract!Next
  BY <1>1, <1>6 DEF Looks, Abstract!Next, Abstract!Other
<1>7. ASSUME NEW q \in Queues, Looks(q), answer' = <<"size", q, Len(AllContents[q])>> PROVE Abstract!Next
  <2>1. Abstract!Measure(q)
    BY <1>1, <1>7 DEF Looks, Abstract!Measure
  <2> QED BY <1>1, <2>1 DEF Abstract!Next
<1>8. ASSUME NEW q \in Queues, Looks(q), NEW i \in 1..Len(AllContents[q]),
             answer' = <<"item", q, i - 1, AllContents[q][i]>>
      PROVE  Abstract!Next
  <2>1. Abstract!Read(q)
    BY <1>1, <1>8 DEF Looks, Abstract!Read
  <2> QED BY <1>1, <2>1 DEF Abstract!Next
<1>9. ASSUME NEW q \in Queues, Touched, AllContents[q] = <<>>, answer' = <<"empty", q>>
      PROVE  Abstract!Next
  <2>1. all' = all
    BY <1>1, <1>9, TouchedContents
  <2>2. Abstract!Nothing(q)
    BY <1>1, <1>9, <2>1 DEF Abstract!Nothing
  <2> QED BY <1>1, <2>2 DEF Abstract!Next
<1> HIDE DEF all
<1> QED BY <1>2, <1>3, <1>4, <1>5, <1>6, <1>7, <1>8, <1>9 DEF ListStep

LEMMA QueuesStep ==
  ASSUME IInvHeap, [ServicesNext]_serviceVars
  PROVE  [Abstract!Next]_<<[q \in FifoIds \cup CollectionIds |-> Contents(q)], answer>>
<1>1. CASE Plain /\ Abstract!Silent
  <2>1. AllContents' = AllContents
    BY <1>1, TouchedContents, GrownContents DEF Plain
  <2>2. Abstract!Other
    BY <1>1, <2>1 DEF AllContents, Queues, Abstract!Other
  <2> QED BY <2>2 DEF Abstract!Next
<1>2. CASE ListStep
  BY <1>2, ListStepQueues
<1>3. CASE ResetServices
  <2>1. DOMAIN lists' = {}
    BY <1>3 DEF ResetServices, Empty
  <2>2. \A q : Contents(q)' = <<>>
    BY <2>1 DEF Contents
  <2>3. [q \in FifoIds \cup CollectionIds |-> Contents(q)]' = [q \in FifoIds \cup CollectionIds |-> <<>>]
    BY <2>2 DEF FifoIds, CollectionIds, FifoId
  <2>4. Abstract!Silent
    BY <1>3, PlainAnswers, Answered DEF ResetServices
  <2> QED BY <2>3, <2>4 DEF Abstract!Next, Abstract!Clear
<1>4. CASE UNCHANGED serviceVars
  BY <1>4 DEF serviceVars, heapVars, resultVars, Contents, Size, Field, FifoIds, CollectionIds, FifoId
<1> QED BY <1>1, <1>2, <1>3, <1>4, StepKinds

(***************************************************************************)
(* A FIFO of TLM, and a collection, behave as a queue: what is put in is   *)
(* taken out in order, read at its index and counted, though it is kept in *)
(* numbered fields that erase and try_get move one by one, and though      *)
(* writes, subscribers and resets come in between.                         *)
(***************************************************************************)
THEOREM QueuesImplemented == ServicesSpec => ImplementsQueues
<1>1. ServicesInv => IInvHeap
  BY DEF ServicesInv, IInvHeap
<1>2. ServicesInv /\ [ServicesNext]_serviceVars
      => [Abstract!Next]_<<[q \in FifoIds \cup CollectionIds |-> Contents(q)], answer>>
  BY <1>1, QueuesStep
<1> QED BY <1>2, QueuesInit, ServicesInvariant, PTL DEF ServicesSpec, ImplementsQueues, Abstract!Spec

-----------------------------------------------------------------------------
(* Handles, components and scopes.                                         *)

\* A handle means one object for ever: what it was made as stays, and once its
\* object is destroyed it names none.
HandlesKept ==
  \A h \in DOMAIN created :
    /\ h \in DOMAIN created' /\ created'[h] = created[h]
    /\ h \notin Live => h \notin Live'

LEMMA HandlesStep ==
  ASSUME ServicesInv, [ServicesNext]_serviceVars
  PROVE  HandlesKept
<1>1. IInvHeap /\ ServicesTypeOK /\ HeapOK
  BY InvParts DEF ServicesInv, IInvHeap
<1>2. ASSUME created' = created, Live' \subseteq Live PROVE HandlesKept
  BY <1>2 DEF HandlesKept
<1>3. ASSUME NEW kind \in Kinds, Room, created' = Append(created, kind), Live' \subseteq Live \cup {NextId}
      PROVE  HandlesKept
  <2>1. /\ DOMAIN created' = DOMAIN created \cup {NextId} /\ NextId \notin DOMAIN created
        /\ \A h \in DOMAIN created : created'[h] = created[h]
    BY <1>1, <1>3, AppendedKind
  <2> QED BY <1>3, <2>1 DEF HandlesKept
<1>4. CASE Touched
  BY <1>2, <1>4 DEF Touched, Live
<1>5. CASE GrownObject \/ GrownProcess
  BY <1>3, <1>5 DEF GrownObject, GrownProcess, Grown, Live, Kinds
<1>6. ASSUME NEW q, Reshaped(q) PROVE HandlesKept
  <2>1. CASE q \in DOMAIN lists
    <3>1. ObjectOf(q) \in Live
      BY <1>1, <2>1 DEF ObjectOf, HeapOK
    <3> QED BY <1>2, <1>6, <2>1, <3>1 DEF Reshaped, Resolves, Live
  <2>2. CASE q \notin DOMAIN lists
    <3>1. Room /\ created' = Append(created, "list") /\ Live' \subseteq Live \cup {NextId}
      BY <1>6, <2>2 DEF Reshaped, Resolves, ObjectOf, Live
    <3> QED BY <1>3, <3>1 DEF Kinds
  <2> QED BY <2>1, <2>2
<1>7. CASE ResetServices
  BY <1>2, <1>7 DEF ResetServices, Live
<1>8. CASE UNCHANGED serviceVars
  BY <1>2, <1>8 DEF serviceVars, heapVars, Live
<1>9. CASE ListStep
  BY <1>4, <1>6, <1>9 DEF ListStep, Pushes, Drops, Looks
<1> QED BY <1>1, <1>4, <1>5, <1>7, <1>8, <1>9, StepKinds DEF Plain

(***************************************************************************)
(* ObjectStore never gives a handle twice, resets between them included: a *)
(* handle that the program keeps past a reset names nothing, never another *)
(* object.                                                                 *)
(***************************************************************************)
THEOREM HandlesNotReused == ServicesSpec => [][HandlesKept]_serviceVars
<1>1. ServicesInv /\ [ServicesNext]_serviceVars => [HandlesKept]_serviceVars
  BY HandlesStep
<1> QED BY <1>1, ServicesInvariant, PTL DEF ServicesSpec

\* A component was made after its parent, and after those made before it.
ParentsOlder ==
  /\ \A i \in 1..Len(nodes) :
       nodes[i].parent \in Nat /\ nodes[i].parent < nodes[i].handle /\ nodes[i].handle <= Len(created)
  /\ \A i, j \in 1..Len(nodes) : i < j => nodes[i].handle < nodes[j].handle

NodeRecords == [handle : Nat, type : ClassTypes, name : Names, parent : Nat]
NodesOK == nodes \in Seq(NodeRecords) /\ ParentsOlder

LEMMA NodeHandles ==
  ASSUME NodesOK
  PROVE  \A i \in 1..Len(nodes) : nodes[i].handle \in Nat
<1>1. \A i \in 1..Len(nodes) : nodes[i] \in NodeRecords
  BY ElementOfSeq DEF NodesOK
<1> QED BY <1>1 DEF NodeRecords

LEMMA NodesStep ==
  ASSUME ServicesInv, NodesOK, [ServicesNext]_serviceVars
  PROVE  NodesOK'
<1>1. IInvHeap /\ ServicesTypeOK /\ HeapOK /\ Len(created) \in Nat
  BY InvParts, LenProperties DEF ServicesInv, IInvHeap, HeapOK
<1>2. Len(created') \in Nat /\ Len(created) <= Len(created')
  <2>1. HandlesKept /\ created' \in Seq(Kinds)
    <3>1. HeapOK'
      <4>1. CASE ServicesNext
        BY <1>1, <4>1, HeapStep
      <4>2. CASE UNCHANGED serviceVars
        BY <1>1, <4>2, TouchedBySame, TouchedHeap DEF serviceVars, heapVars, taskVars
      <4> QED BY <4>1, <4>2
    <3> QED BY <3>1, HandlesStep DEF HeapOK
  <2>2. 1..Len(created) \subseteq 1..Len(created') /\ Len(created') \in Nat
    BY <1>1, <2>1, LenProperties DEF HandlesKept, HeapOK
  <2> QED BY <1>1, <2>2
<1>3. ASSUME nodes' = nodes PROVE NodesOK'
  <2>1. \A i \in 1..Len(nodes) : nodes[i].handle \in Nat
    BY NodeHandles
  <2>2. \A i \in 1..Len(nodes) : nodes[i].handle <= Len(created')
    BY <1>1, <1>2, <2>1 DEF NodesOK, ParentsOlder
  <2> QED BY <1>3, <2>2 DEF NodesOK, ParentsOlder
<1>4. ASSUME nodes' = <<>> PROVE NodesOK'
  BY <1>4, EmptySeq DEF NodesOK, ParentsOlder
<1>5. ASSUME NEW t \in script.types, NEW n \in script.names, NEW parent \in Objs, FactoryCreate(t, n, parent)
      PROVE  NodesOK'
  <2> DEFINE node == [handle |-> NextId, type |-> t, name |-> n, parent |-> parent]
  <2>1. CASE nodes' = nodes
    BY <1>3, <2>1
  <2>2. CASE nodes' # nodes
    <3>1. nodes' = Append(nodes, node) /\ created' = Append(created, "object")
      BY <1>5, <2>2 DEF FactoryCreate, Adds
    <3>2. parent \in Nat /\ parent < NextId /\ NextId \in Nat /\ NextId = Len(created) + 1
          /\ t \in ClassTypes /\ n \in Names
      <4>1. parent = 0 \/ parent \in 1..Len(created)
        BY <1>1, Givens
      <4> QED BY <1>1, <4>1, ScriptsAssumption DEF NextId, ServicesTypeOK
    <3>3. Len(created') = Len(created) + 1
      BY <1>1, <3>1, AppendProperties DEF HeapOK, Kinds
    <3>4. /\ node \in NodeRecords
          /\ node.handle = NextId /\ node.parent = parent
      BY <3>2 DEF NodeRecords
    <3> HIDE DEF node
    <3>5. /\ nodes' \in Seq(NodeRecords)
          /\ Len(nodes) \in Nat /\ Len(nodes') = Len(nodes) + 1 /\ nodes'[Len(nodes) + 1] = node
          /\ \A i \in 1..Len(nodes) : nodes'[i] = nodes[i]
      BY <3>1, <3>4, AppendProperties, LenProperties DEF NodesOK
    <3>6. \A i \in 1..Len(nodes) :
            /\ nodes[i].handle \in Nat /\ nodes[i].handle < NextId
            /\ nodes[i].parent \in Nat /\ nodes[i].parent < nodes[i].handle
      <4>1. \A i \in 1..Len(nodes) : nodes[i].handle \in Nat
        BY NodeHandles
      <4> QED BY <1>1, <3>2, <4>1 DEF NodesOK, ParentsOlder
    <3>7. ASSUME NEW i \in 1..Len(nodes')
          PROVE  /\ nodes'[i].parent \in Nat /\ nodes'[i].parent < nodes'[i].handle
                 /\ nodes'[i].handle <= Len(created')
      <4>1. CASE i = Len(nodes) + 1
        BY <1>1, <3>2, <3>3, <3>4, <3>5, <4>1
      <4>2. CASE i \in 1..Len(nodes)
        <5>1. nodes'[i] = nodes[i] /\ nodes[i].handle \in Nat /\ nodes[i].handle < NextId
              /\ nodes[i].parent \in Nat /\ nodes[i].parent < nodes[i].handle
          BY <3>5, <3>6, <4>2
        <5> QED BY <1>1, <3>2, <3>3, <5>1
      <4> QED BY <3>5, <4>1, <4>2
    <3>8. ASSUME NEW i \in 1..Len(nodes'), NEW j \in 1..Len(nodes'), i < j
          PROVE  nodes'[i].handle < nodes'[j].handle
      <4>1. i \in 1..Len(nodes) /\ nodes'[i] = nodes[i]
        <5>1. i \in Nat /\ j \in Nat /\ j <= Len(nodes) + 1 /\ 1 <= i
          BY <3>5
        <5>2. i \in 1..Len(nodes)
          BY <3>5, <3>8, <5>1
        <5> QED BY <3>5, <5>2
      <4>2. CASE j = Len(nodes) + 1
        BY <3>4, <3>5, <3>6, <4>1, <4>2
      <4>3. CASE j \in 1..Len(nodes)
        BY <3>5, <3>8, <4>1, <4>3 DEF NodesOK, ParentsOlder
      <4> QED BY <3>5, <4>2, <4>3
    <3> QED BY <3>5, <3>7, <3>8 DEF NodesOK, ParentsOlder
  <2> QED BY <2>1, <2>2
<1>6. CASE FactoryCall
  <2>1. ASSUME NEW t, NEW r, Override(t, r) PROVE NodesOK'
    BY <1>3, <2>1 DEF Override
  <2> QED BY <1>5, <1>6, <2>1 DEF FactoryCall
<1>7. CASE ResetServices
  BY <1>4, <1>7 DEF ResetServices
<1>8. CASE UNCHANGED serviceVars
  BY <1>3, <1>8 DEF serviceVars, treeVars
<1>9. CASE ObjectCall \/ ConfigCall \/ TaskCall \/ SequencerCall \/ CollectionCall \/ TlmCall
           \/ WriteStep \/ CountCall
  BY <1>1, <1>3, <1>9, ObjectCalls, ConfigCalls, TaskCalls, SequencerCalls, CollectionCalls, TlmCalls,
     WriteSteps, CountCalls DEF treeVars
<1> QED BY <1>6, <1>7, <1>8, <1>9 DEF ServicesNext

(***************************************************************************)
(* Component::path follows parents and ends: a parent is older than its    *)
(* children, however the program names parents and overrides types.        *)
(***************************************************************************)
THEOREM ParentsAlwaysOlder == ServicesSpec => []ParentsOlder
<1>1. ServicesInit => NodesOK
  BY EmptySeq DEF ServicesInit, NodesOK, ParentsOlder
<1>2. NodesOK /\ ServicesInv /\ [ServicesNext]_serviceVars => NodesOK'
  BY NodesStep
<1>3. NodesOK => ParentsOlder
  BY DEF NodesOK
<1> QED BY <1>1, <1>2, <1>3, ServicesInvariant, PTL DEF ServicesSpec

LEMMA SubSeqFacts ==
  ASSUME NEW S, NEW s \in Seq(S), NEW m \in Nat \ {0}, NEW n \in Nat, n <= Len(s), m <= n + 1
  PROVE  /\ SubSeq(s, m, n) \in Seq(S) /\ Len(SubSeq(s, m, n)) = n - m + 1
         /\ \A i \in 1..n - m + 1 : SubSeq(s, m, n)[i] = s[m + i - 1]
<1>1. Len(s) \in Nat /\ \A i \in 1..Len(s) : s[i] \in S
  BY LenProperties, ElementOfSeq
<1>2. \A i \in m..n : s[i] \in S
  BY <1>1
<1>3. /\ SubSeq(s, m, n) \in Seq(S)
      /\ Len(SubSeq(s, m, n)) = IF m <= n THEN n - m + 1 ELSE 0
      /\ \A i \in 1..n - m + 1 : SubSeq(s, m, n)[i] = s[m + i - 1]
  BY <1>2, SubSeqProperties
<1>4. (IF m <= n THEN n - m + 1 ELSE 0) = n - m + 1
  OBVIOUS
<1> QED BY <1>3, <1>4

\* Joined sequences, letter by letter.
LEMMA JoinFacts ==
  ASSUME NEW S, NEW p \in Seq(S), NEW m \in Seq(S), NEW q \in Seq(S)
  PROVE  LET j == p \o m \o q
         IN  /\ j \in Seq(S) /\ Len(j) = Len(p) + Len(m) + Len(q)
             /\ \A i \in 1..Len(p) : j[i] = p[i]
             /\ \A i \in 1..Len(m) : j[Len(p) + i] = m[i]
             /\ \A i \in 1..Len(q) : j[Len(p) + Len(m) + i] = q[i]
<1> DEFINE pm == p \o m
<1>1. Len(p) \in Nat /\ Len(m) \in Nat /\ Len(q) \in Nat
  BY LenProperties
<1>2. /\ pm \in Seq(S) /\ Len(pm) = Len(p) + Len(m)
      /\ \A i \in 1..Len(p) + Len(m) : pm[i] = IF i <= Len(p) THEN p[i] ELSE m[i - Len(p)]
  BY ConcatProperties
<1> HIDE DEF pm
<1>3. /\ pm \o q \in Seq(S) /\ Len(pm \o q) = Len(pm) + Len(q)
      /\ \A i \in 1..Len(pm) + Len(q) : (pm \o q)[i] = IF i <= Len(pm) THEN pm[i] ELSE q[i - Len(pm)]
  <2>1. pm \in Seq(S)
    BY <1>2
  <2> QED BY <2>1, ConcatProperties
<1>4. ASSUME NEW i \in 1..Len(p) PROVE (pm \o q)[i] = p[i]
  BY <1>1, <1>2, <1>3
<1>5. ASSUME NEW i \in 1..Len(m) PROVE (pm \o q)[Len(p) + i] = m[i]
  <2>1. /\ Len(p) + i \in 1..Len(p) + Len(m) /\ Len(p) + i \in 1..Len(pm) + Len(q)
        /\ ~(Len(p) + i <= Len(p)) /\ Len(p) + i <= Len(pm) /\ (Len(p) + i) - Len(p) = i
    BY <1>1, <1>2
  <2> QED BY <1>2, <1>3, <2>1
<1>6. ASSUME NEW i \in 1..Len(q) PROVE (pm \o q)[Len(p) + Len(m) + i] = q[i]
  <2>1. /\ Len(pm) + i \in 1..Len(pm) + Len(q) /\ ~(Len(pm) + i <= Len(pm))
        /\ (Len(pm) + i) - Len(pm) = i /\ Len(p) + Len(m) + i = Len(pm) + i
    BY <1>1, <1>2
  <2> QED BY <1>3, <2>1
<1> QED BY <1>2, <1>3, <1>4, <1>5, <1>6 DEF pm

\* s is p, then letters of S, then q.
Surround(S, p, q, s) == \E m \in Seq(S) : s = p \o m \o q

LEMMA BetweenFound ==
  ASSUME NEW S, NEW p \in Seq(S), NEW q \in Seq(S), NEW s \in Seq(S),
         StartsWith(s, p), EndsWith(s, q), Len(s) >= Len(p) + Len(q)
  PROVE  Surround(S, p, q, s)
<1> DEFINE a == Len(p)
           b == Len(q)
           n == Len(s)
<1>a. a \in Nat /\ b \in Nat /\ n \in Nat
  BY LenProperties
<1>b. StartsWith(s, p) /\ EndsWith(s, q) /\ n >= a + b
  OBVIOUS
<1> DEFINE m == SubSeq(s, a + 1, n - b)
           j == p \o m \o q
<1>1. m \in Seq(S) /\ Len(m) = n - b - a /\ \A i \in 1..n - b - a : m[i] = s[a + i]
  <2>1. a + 1 \in Nat \ {0} /\ n - b \in Nat /\ n - b <= n /\ a + 1 <= (n - b) + 1
    BY <1>a, <1>b
  <2>2. /\ m \in Seq(S) /\ Len(m) = (n - b) - (a + 1) + 1
        /\ \A i \in 1..(n - b) - (a + 1) + 1 : m[i] = s[(a + 1) + i - 1]
    BY <2>1, SubSeqFacts
  <2> HIDE DEF a, b, n, m
  <2> QED BY <1>a, <2>2
<1>2. p = SubSeq(s, 1, a) /\ \A i \in 1..a : p[i] = s[i]
  <2>1. p = SubSeq(s, 1, a) /\ a <= n
    BY <1>b DEF StartsWith
  <2>2. \A i \in 1..a - 1 + 1 : SubSeq(s, 1, a)[i] = s[1 + i - 1]
    BY <1>a, <2>1, SubSeqFacts
  <2> HIDE DEF a, b, n
  <2>3. ASSUME NEW i \in 1..a PROVE p[i] = s[i]
    <3>1. i \in 1..a - 1 + 1 /\ 1 + i - 1 = i
      BY <1>a
    <3> QED BY <2>1, <2>2, <3>1
  <2> QED BY <2>1, <2>3
<1>3. \A i \in 1..b : q[i] = s[n - b + i]
  <2>1. q = SubSeq(s, n - b + 1, n) /\ b <= n
    BY <1>b DEF EndsWith
  <2>2. \A i \in 1..n - (n - b + 1) + 1 : SubSeq(s, n - b + 1, n)[i] = s[(n - b + 1) + i - 1]
    BY <1>a, <2>1, SubSeqFacts
  <2> HIDE DEF a, b, n
  <2>3. ASSUME NEW i \in 1..b PROVE q[i] = s[n - b + i]
    <3>1. i \in 1..n - (n - b + 1) + 1 /\ (n - b + 1) + i - 1 = n - b + i
      BY <1>a
    <3> QED BY <2>1, <2>2, <3>1
  <2> QED BY <2>3
<1>4. /\ j \in Seq(S) /\ Len(j) = a + Len(m) + b
      /\ \A i \in 1..a : j[i] = p[i]
      /\ \A i \in 1..Len(m) : j[a + i] = m[i]
      /\ \A i \in 1..b : j[a + Len(m) + i] = q[i]
  <2>1. m \in Seq(S)
    BY <1>1
  <2> HIDE DEF m
  <2> QED BY <2>1, JoinFacts
<1> HIDE DEF a, b, n, m, j
<1>5. Len(j) = n /\ a + Len(m) = n - b
  BY <1>a, <1>1, <1>4
<1>6. ASSUME NEW i \in 1..n PROVE s[i] = j[i]
  <2>1. CASE i <= a
    BY <1>a, <1>2, <1>4, <2>1
  <2>2. CASE a < i /\ i <= n - b
    <3>1. i - a \in 1..Len(m) /\ a + (i - a) = i
      BY <1>a, <1>1, <2>2
    <3> QED BY <1>1, <1>4, <3>1
  <2>3. CASE n - b < i
    <3>1. i - (n - b) \in 1..b /\ (n - b) + (i - (n - b)) = i
      BY <1>a, <2>3
    <3>2. s[n - b + (i - (n - b))] = q[i - (n - b)] /\ j[a + Len(m) + (i - (n - b))] = q[i - (n - b)]
      BY <1>3, <1>4, <3>1
    <3>3. a + Len(m) + (i - (n - b)) = i /\ n - b + (i - (n - b)) = i
      BY <1>5, <3>1
    <3> QED BY <3>2, <3>3
  <2> QED BY <1>a, <2>1, <2>2, <2>3
<1>7. s = j
  BY <1>4, <1>5, <1>6, SeqEqual DEF n
<1> QED BY <1>1, <1>7 DEF j, Surround

LEMMA BetweenFits ==
  ASSUME NEW S, NEW p \in Seq(S), NEW q \in Seq(S), NEW m \in Seq(S), NEW s \in Seq(S), s = p \o m \o q
  PROVE  StartsWith(s, p) /\ EndsWith(s, q) /\ Len(s) >= Len(p) + Len(q)
<1> DEFINE a == Len(p)
           b == Len(q)
           n == Len(s)
<1>a. a \in Nat /\ b \in Nat /\ n \in Nat
  BY LenProperties
<1>b. s = p \o m \o q
  OBVIOUS
<1> DEFINE c == Len(m)
<1>1. /\ n = a + c + b /\ c \in Nat
      /\ \A i \in 1..a : s[i] = p[i]
      /\ \A i \in 1..b : s[a + c + i] = q[i]
  BY <1>b, JoinFacts, LenProperties
<1>2. a <= n /\ b <= n /\ n - b + 1 \in Nat \ {0} /\ n - b + 1 <= n + 1 /\ n >= a + b
  BY <1>a, <1>1
<1>3. SubSeq(s, 1, a) = p
  <2> DEFINE t == SubSeq(s, 1, a)
  <2>1. t \in Seq(S) /\ Len(t) = a - 1 + 1 /\ \A i \in 1..a - 1 + 1 : t[i] = s[1 + i - 1]
    BY <1>a, <1>2, SubSeqFacts
  <2> HIDE DEF t, n, b, c
  <2>2. Len(t) = Len(p) /\ \A i \in 1..Len(t) : t[i] = p[i]
    BY <1>a, <1>1, <2>1
  <2> QED BY <2>1, <2>2, SeqEqual DEF t
<1>4. SubSeq(s, n - b + 1, n) = q
  <2> DEFINE t == SubSeq(s, n - b + 1, n)
  <2>1. /\ t \in Seq(S) /\ Len(t) = n - (n - b + 1) + 1
        /\ \A i \in 1..n - (n - b + 1) + 1 : t[i] = s[(n - b + 1) + i - 1]
    BY <1>a, <1>2, SubSeqFacts
  <2> HIDE DEF t, n, a, c
  <2>2. Len(t) = Len(q)
    BY <1>a, <2>1
  <2>3. ASSUME NEW i \in 1..Len(t) PROVE t[i] = q[i]
    <3>1. i \in 1..b /\ (n - b + 1) + i - 1 = a + c + i
      BY <1>a, <1>1, <2>2
    <3> QED BY <1>1, <2>1, <3>1
  <2> QED BY <2>1, <2>2, <2>3, SeqEqual DEF t
<1> QED BY <1>2, <1>3, <1>4 DEF StartsWith, EndsWith

LEMMA FirstIsLeast ==
  ASSUME NEW S, NEW pattern \in Seq(S), Wildcards(pattern) # {}
  PROVE  FirstWildcard(pattern) \in 1..Len(pattern)
<1>1. Wildcards(pattern) \subseteq Nat /\ Wildcards(pattern) \subseteq 1..Len(pattern)
  BY LenProperties DEF Wildcards
<1>2. PICK m \in Wildcards(pattern) : \A l \in Wildcards(pattern) : ~ (<<l, m>> \in OpToRel(<, Nat))
  BY <1>1, WFMin, NatLessThanWellFounded, Zenon
<1>3. \A l \in Wildcards(pattern) : ~ (l < m)
  BY <1>1, <1>2, Zenon DEF OpToRel
<1>4. \A l \in Wildcards(pattern) : m <= l
  BY <1>1, <1>3
<1>5. FirstWildcard(pattern) \in Wildcards(pattern)
  BY <1>4, Zenon DEF FirstWildcard
<1> QED BY <1>1, <1>5

(***************************************************************************)
(* The test of ConfigDB::matches on prefix, suffix and length is what a    *)
(* wildcard means: the first "*" stands for any letters, so that prefix    *)
(* and suffix do not overlap in the name.                                  *)
(***************************************************************************)
THEOREM WildcardStandsForAny ==
  ASSUME NEW S, NEW pattern \in Seq(S), NEW s \in Seq(S), Wildcards(pattern) # {}
  PROVE  Matches(pattern, s)
         <=> \E middle \in Seq(S) : s = Prefix(pattern) \o middle \o Suffix(pattern)
<1> DEFINE k == FirstWildcard(pattern)
<1>1. k \in 1..Len(pattern) /\ Len(pattern) \in Nat
  BY FirstIsLeast, LenProperties
<1>2. Prefix(pattern) \in Seq(S) /\ Suffix(pattern) \in Seq(S)
  <2> HIDE DEF k
  <2>1. k - 1 \in Nat /\ k - 1 <= Len(pattern) /\ 1 <= (k - 1) + 1 /\ k + 1 \in Nat \ {0}
        /\ k + 1 <= Len(pattern) + 1
    BY <1>1
  <2>2. SubSeq(pattern, 1, k - 1) \in Seq(S) /\ SubSeq(pattern, k + 1, Len(pattern)) \in Seq(S)
    BY <1>1, <2>1, SubSeqFacts
  <2> QED BY <2>2 DEF Prefix, Suffix, k
<1>3. (StartsWith(s, Prefix(pattern)) /\ EndsWith(s, Suffix(pattern))
         /\ Len(s) >= Len(Prefix(pattern)) + Len(Suffix(pattern)))
      <=> \E m \in Seq(S) : s = Prefix(pattern) \o m \o Suffix(pattern)
  <2> DEFINE p == Prefix(pattern)
             q == Suffix(pattern)
  <2>1. p \in Seq(S) /\ q \in Seq(S)
    BY <1>2
  <2> HIDE DEF p, q
  <2>2. ASSUME StartsWith(s, p), EndsWith(s, q), Len(s) >= Len(p) + Len(q)
        PROVE  Surround(S, p, q, s)
    BY <2>1, <2>2, BetweenFound
  <2>3. ASSUME NEW m \in Seq(S), s = p \o m \o q
        PROVE  StartsWith(s, p) /\ EndsWith(s, q) /\ Len(s) >= Len(p) + Len(q)
    BY <2>1, <2>3, BetweenFits
  <2> QED BY <2>2, <2>3 DEF p, q, Surround
<1> HIDE DEF k
<1> QED BY <1>3 DEF Matches
=============================================================================
