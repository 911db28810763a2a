----------------------------- MODULE UvmServices -----------------------------
(***************************************************************************)
(* The UVM services of the runtime, as compiled code reaches them through  *)
(* Builtin/UVM/ABI.cpp: the factory and its objects, the configuration,    *)
(* the sequencer, the collections, the TLM graph with its FIFOs, coverage, *)
(* the report and the objects of the processes.                            *)
(*                                                                         *)
(* One thread calls them.  An entry point is one action, but for a write   *)
(* to a port: its walk over the graph is taken node by node, and the       *)
(* subscribers it calls are code of the program, which may enter any       *)
(* service, writes among them.  writes is the stack of the writes under    *)
(* way.  An exception leaves all of them.                                  *)
(*                                                                         *)
(* A FIFO and a collection are an object of the store with a field "size"  *)
(* and a field for each index; both are in lists.  When a process runs is  *)
(* the matter of UvmProcess, when a phase runs that of Host.               *)
(***************************************************************************)
EXTENDS Naturals, Sequences, FiniteSets

CONSTANTS
  Scripts,            \* the entry points a program calls, and the names it passes
  ClassTypes, Names,  \* types of the program's objects; names of all that is named
  Ports, FifoPorts,   \* ports and endpoints, and those that end in "_fifo"
  Numbers,            \* integers
  Scopes, Instances,  \* of the configuration, letter by letter
  Bins,
  MaxHandles, MaxLinks, MaxEntries, MaxCount, MaxWrites  \* bounds

EntryPoints ==
  {"create", "override", "is_type", "load_u64", "load_ptr", "store_u64", "store_ptr",
   "randomize", "config_set", "config_get", "start_u64", "try_next_u64", "sequence_start",
   "start_item", "try_get_item", "process_create", "process_register", "process_spawn",
   "set_pc", "local_store", "local_load", "wait_event", "complete", "notify",
   "collection_push", "collection_get", "collection_erase", "collection_size",
   "connect", "subscribe", "write", "fifo_push", "fifo_try_get",
   "bin", "sample", "percentage", "report", "error_count", "raise", "drop", "reset"}

ASSUME ScriptsAssumption ==
  \A s \in Scripts :
    /\ s.calls \subseteq EntryPoints /\ s.types \subseteq ClassTypes
    /\ s.names \subseteq Names /\ s.ports \subseteq Ports
\* Classes of the program do not have the names of the runtime's own types.
ASSUME ClassesAssumption ==
  ClassTypes \cap {"uvm_process_state", "uvm_tlm_fifo", "uvm_collection"} = {}
ASSUME NamesAssumption == FifoPorts \subseteq Ports /\ Numbers \subseteq Nat
ASSUME SizesAssumption ==
  /\ MaxHandles \in Nat /\ MaxLinks \in Nat /\ MaxEntries \in Nat
  /\ MaxCount \in Nat /\ MaxWrites \in Nat

VARIABLES
  script,               \* what the program calls, and with which names
  store, created,       \* ObjectStore: live objects; history: the kind each handle was made as
  overrides, nodes,     \* Factory, Component
  entries,              \* ConfigDB
  channels,             \* Sequencer
  lists,                \* TLM and Collection: the object of each FIFO and collection
  links, subscribers,   \* TLM: connections; how many subscribers an endpoint has
  writes,               \* the calls of write that have not returned, innermost last
  processes, steps,     \* Process: their handles in order; registered names
  bins, hits,           \* Coverage and its Cover
  reported, objections, \* Report; UVM
  answer                \* what the last call returned, or "threw"

heapVars == <<store, created>>
treeVars == <<overrides, nodes>>
graphVars == <<links, subscribers>>
taskVars == <<processes, steps>>
countVars == <<bins, hits, reported, objections>>
resultVars == <<writes, answer>>
serviceVars == <<script, heapVars, treeVars, entries, channels, lists, graphVars, taskVars,
                 countVars, resultVars>>

\* What an entry point of one service leaves alone, but for objects and results.
unlessTree == <<script, entries, channels, lists, graphVars, taskVars, countVars>>
unlessTasks == <<script, treeVars, entries, channels, lists, graphVars, countVars>>
unlessLists == <<script, treeVars, entries, channels, graphVars, taskVars, countVars>>
unlessHeap == <<lists, unlessLists>>

-----------------------------------------------------------------------------
(* Values and answers.                                                     *)

U64(n) == <<"u64", n>>
Pointer(h) == <<"handle", h>>
Text(s) == <<"string", s>>
Done == <<"done">>
Truth(b) == IF b THEN <<"true">> ELSE <<"false">>
IsU64(v) == v[1] = "u64"
IsPointer(v) == v[1] = "handle"

Empty == [x \in {} |-> x]
Put(f, k, v) == [x \in DOMAIN f \cup {k} |-> IF x = k THEN v ELSE f[x]]
Over(f, g) == [x \in DOMAIN f \cup DOMAIN g |-> IF x \in DOMAIN f THEN f[x] ELSE g[x]]

\* The program calls while no write is under way, or from a subscriber.
Top == writes[Len(writes)]
Enters(e) == e \in script.calls /\ (writes # <<>> => Top.stage = "callback")

Answers(a) == answer' = a /\ UNCHANGED writes
Throws == answer' = <<"threw">> /\ writes' = <<>>

-----------------------------------------------------------------------------
(* ObjectStore.                                                            *)

Live == DOMAIN store
NextId == Len(created) + 1
Room == NextId <= MaxHandles

\* A handle of the program is one it was given, or null.
Given(kind) == {h \in DOMAIN created : created[h] = kind}
Pointers == {0} \cup Given("object") \cup Given("process")

Object(type, fields) == [type |-> type, fields |-> fields, locals |-> Empty, items |-> Empty]

Adds(kind, object) ==
  store' = Put(store, NextId, object) /\ created' = Append(created, kind)

Has(s, h, f) == h \in DOMAIN s /\ f \in DOMAIN s[h].fields
Field(s, h, f) == s[h].fields[f]
SetField(s, h, f, v) == [s EXCEPT ![h].fields = Put(@, f, v)]

IsType(h, t) ==
  /\ Enters("is_type") /\ Answers(Truth(h \in Live /\ store[h].type = t))
  /\ UNCHANGED <<heapVars, unlessHeap>>

\* A field that is missing, or of the other kind, reads as zero or null.
LoadU64(h, f) ==
  /\ Enters("load_u64")
  /\ Answers(IF Has(store, h, f) /\ IsU64(Field(store, h, f)) THEN Field(store, h, f) ELSE U64(0))
  /\ UNCHANGED <<heapVars, unlessHeap>>

LoadPointer(h, f) ==
  /\ Enters("load_ptr")
  /\ Answers(IF Has(store, h, f) /\ IsPointer(Field(store, h, f))
             THEN Field(store, h, f) ELSE Pointer(0))
  /\ UNCHANGED <<heapVars, unlessHeap>>

StoreField(e, h, f, v) ==
  /\ Enters(e)
  /\ IF h \in Live /\ f # "" THEN store' = SetField(store, h, f, v) /\ Answers(Done)
     ELSE Throws /\ UNCHANGED store
  /\ UNCHANGED <<created, unlessHeap>>

Randomize(h) ==
  /\ Enters("randomize") /\ Answers(Truth(h \in Live))
  /\ IF h \in Live THEN \E n \in Numbers : store' = SetField(store, h, "data", U64(n))
     ELSE UNCHANGED store
  /\ UNCHANGED <<created, unlessHeap>>

-----------------------------------------------------------------------------
(* Factory and Component.                                                  *)

Override(requested, replacement) ==
  /\ Enters("override") /\ Answers(Done)
  /\ overrides' = Put(overrides, requested, replacement)
  /\ UNCHANGED <<heapVars, nodes, unlessTree>>

Selected(t) == IF t \in DOMAIN overrides THEN overrides[t] ELSE t

\* The node has the type that was asked for, the object the one that replaces
\* it.  A node without a name is refused when its object exists already.
FactoryCreate(t, n, parent) ==
  /\ Enters("create") /\ Room
  /\ IF Selected(t) = "" THEN Throws /\ UNCHANGED <<heapVars, nodes>>
     ELSE /\ Adds("object", Object(Selected(t), Put(Put(Empty, "name", Text(n)), "parent", Pointer(parent))))
          /\ IF t = "" \/ n = "" THEN Throws /\ UNCHANGED nodes
             ELSE /\ nodes' = Append(nodes, [handle |-> NextId, type |-> t, name |-> n, parent |-> parent])
                  /\ Answers(Pointer(NextId))
  /\ UNCHANGED <<overrides, unlessTree>>

-----------------------------------------------------------------------------
(* ConfigDB.                                                               *)

StartsWith(s, part) == Len(part) <= Len(s) /\ SubSeq(s, 1, Len(part)) = part
EndsWith(s, part) ==
  Len(part) <= Len(s) /\ SubSeq(s, Len(s) - Len(part) + 1, Len(s)) = part

\* The first "*" of a pattern stands for any letters, the others for themselves.
Wildcards(pattern) == {i \in 1..Len(pattern) : pattern[i] = "*"}
FirstWildcard(pattern) ==
  CHOOSE i \in Wildcards(pattern) : \A j \in Wildcards(pattern) : i <= j

Prefix(pattern) == SubSeq(pattern, 1, FirstWildcard(pattern) - 1)
Suffix(pattern) == SubSeq(pattern, FirstWildcard(pattern) + 1, Len(pattern))

Matches(pattern, s) ==
  IF Wildcards(pattern) = {} THEN pattern = s
  ELSE /\ StartsWith(s, Prefix(pattern)) /\ EndsWith(s, Suffix(pattern))
       /\ Len(s) >= Len(Prefix(pattern)) + Len(Suffix(pattern))

ConfigSet(scope, field, v) ==
  /\ Enters("config_set") /\ Len(entries) < MaxEntries /\ Answers(Done)
  /\ entries' = Append(entries, [scope |-> scope, field |-> field, value |-> v])
  /\ UNCHANGED <<script, heapVars, treeVars, channels, lists, graphVars, taskVars, countVars>>

Found(instance, field) ==
  {i \in 1..Len(entries) : entries[i].field = field /\ Matches(entries[i].scope, instance)}

\* The last entry counts.  A handle is returned as a number.
ConfigGet(instance, field) ==
  /\ Enters("config_get")
  /\ \/ Found(instance, field) = {} /\ Answers(Truth(FALSE))
     \/ \E i \in Found(instance, field) :
          /\ \A j \in Found(instance, field) : j <= i
          /\ Answers(U64(entries[i].value[2]))
  /\ UNCHANGED <<heapVars, unlessHeap>>

-----------------------------------------------------------------------------
(* Objects of processes.                                                   *)

SetLocal(s, h, n, v) == [s EXCEPT ![h].locals = Put(@, n, v)]
IsProcess(h) == h \in Live /\ store[h].type = "uvm_process_state"
OwnerOf(h) == Field(store, h, "owner")[2]
StatusIs(s, h, status) == Field(s, h, "status") = Text(status)

Normalize(h) == IF IsProcess(h) THEN OwnerOf(h) ELSE h

Handles == {processes[i] : i \in 1..Len(processes)}

NewProcess(owner) ==
  Object("uvm_process_state",
         Put(Put(Put(Put(Empty, "pc", U64(0)), "status", Text("ready")), "event", <<"none">>),
             "owner", Pointer(owner)))

ProcessCreate(owner) ==
  /\ Enters("process_create") /\ Room
  /\ Adds("process", NewProcess(owner))
  /\ processes' = Append(processes, NextId) /\ Answers(Pointer(NextId))
  /\ UNCHANGED <<steps, unlessTasks>>

Register(n) ==
  /\ Enters("process_register")
  /\ IF n = "" THEN Throws /\ UNCHANGED steps ELSE steps' = steps \cup {n} /\ Answers(Done)
  /\ UNCHANGED <<heapVars, processes, unlessTasks>>

\* The processes of this name and owner that are not done.
Joinable(n, owner) ==
  {i \in 1..Len(processes) :
     /\ Has(store, processes[i], "name") /\ Field(store, processes[i], "name") = Text(n)
     /\ OwnerOf(processes[i]) = owner /\ ~StatusIs(store, processes[i], "done")}

\* A task is joined if it runs, or else created; it is given the locals.
Spawns(n, owner, locals) ==
  \/ n \notin steps /\ Throws /\ UNCHANGED <<heapVars, processes>>
  \/ /\ n \in steps
     /\ \E i \in Joinable(n, owner) :
          /\ \A j \in Joinable(n, owner) : i <= j
          /\ store' = [store EXCEPT ![processes[i]].locals = Over(locals, @)]
          /\ Answers(Pointer(processes[i]))
     /\ UNCHANGED <<created, processes>>
  \/ /\ n \in steps /\ Joinable(n, owner) = {} /\ Room
     /\ Adds("process", [NewProcess(owner) EXCEPT !.fields = Put(@, "name", Text(n)), !.locals = locals])
     /\ processes' = Append(processes, NextId) /\ Answers(Pointer(NextId))

SpawnTask(n, h) ==
  /\ Enters("process_spawn") /\ Spawns(n, Normalize(h), Empty)
  /\ UNCHANGED <<steps, unlessTasks>>

\* A sequence starts as the task "body" that knows its sequencer.
SequenceStart(sequence, sequencer) ==
  /\ Enters("sequence_start")
  /\ Spawns("body", Normalize(sequence), Put(Empty, "sequencer", Pointer(sequencer)))
  /\ UNCHANGED <<steps, unlessTasks>>

SetProcess(e, h, f, v) ==
  /\ Enters(e)
  /\ IF h \in Live THEN store' = SetField(store, h, f, v) /\ Answers(Done)
     ELSE Throws /\ UNCHANGED store
  /\ UNCHANGED <<created, unlessHeap>>

WaitFor(h, event) ==
  /\ Enters("wait_event")
  /\ IF h \in Live
     THEN /\ store' = SetField(SetField(store, h, "event", event), h, "status", Text("waiting"))
          /\ Answers(Done)
     ELSE Throws /\ UNCHANGED store
  /\ UNCHANGED <<created, unlessHeap>>

LocalStore(h, n, v) ==
  /\ Enters("local_store")
  /\ IF h \in Live THEN store' = SetLocal(store, h, n, v) /\ Answers(Done)
     ELSE Throws /\ UNCHANGED store
  /\ UNCHANGED <<created, unlessHeap>>

\* A local that is missing, or of the other kind, is an error.
LocalLoad(h, n, kind) ==
  /\ Enters("local_load")
  /\ IF h \in Live /\ n \in DOMAIN store[h].locals /\ store[h].locals[n][1] = kind
     THEN Answers(store[h].locals[n]) ELSE Throws
  /\ UNCHANGED <<heapVars, unlessHeap>>

\* Processes that wait for one of the events are ready.
Notified(s, events) ==
  [h \in DOMAIN s |->
     IF h \in Handles /\ StatusIs(s, h, "waiting") /\ Field(s, h, "event") \in events
     THEN [s[h] EXCEPT !.fields = Put(@, "status", Text("ready"))] ELSE s[h]]

NotifyEvent(event) ==
  /\ Enters("notify") /\ Answers(Done) /\ store' = Notified(store, {event})
  /\ UNCHANGED <<created, unlessHeap>>

-----------------------------------------------------------------------------
(* Sequencer.                                                              *)

ItemEvent == <<"sequencer">>
unlessChannels == <<script, created, treeVars, entries, lists, graphVars, taskVars, countVars>>

Sends(sequencer, v) ==
  Len(channels[sequencer]) < MaxCount /\ channels' = [channels EXCEPT ![sequencer] = Append(@, v)]
Takes(sequencer) == channels' = [channels EXCEPT ![sequencer] = Tail(@)]

SequencerStart(sequencer, n) ==
  /\ Enters("start_u64") /\ Sends(sequencer, U64(n)) /\ Answers(Done)
  /\ UNCHANGED <<store, unlessChannels>>

\* An item that is no number is taken all the same.
SequencerTryNext(sequencer) ==
  /\ Enters("try_next_u64")
  /\ IF channels[sequencer] = <<>> THEN Answers(Truth(FALSE)) /\ UNCHANGED channels
     ELSE /\ Takes(sequencer)
          /\ Answers(IF IsU64(Head(channels[sequencer])) THEN Head(channels[sequencer]) ELSE Truth(FALSE))
  /\ UNCHANGED <<store, unlessChannels>>

\* A sequence sends an item; its process has to know a sequencer.
SendItem(h, item) ==
  /\ Enters("start_item")
  /\ IF /\ h \in Live /\ "sequencer" \in DOMAIN store[h].locals
        /\ IsPointer(store[h].locals["sequencer"])
     THEN /\ Sends("sequencer.default", Pointer(item))
          /\ store' = Notified(store, {ItemEvent}) /\ Answers(Done)
     ELSE Throws /\ UNCHANGED <<store, channels>>
  /\ UNCHANGED unlessChannels

TryGetItem ==
  /\ Enters("try_get_item")
  /\ IF channels["sequencer.default"] = <<>> THEN Answers(Pointer(0)) /\ UNCHANGED channels
     ELSE /\ Takes("sequencer.default")
          /\ IF IsPointer(Head(channels["sequencer.default"]))
             THEN Answers(Head(channels["sequencer.default"])) ELSE Throws
  /\ UNCHANGED <<store, unlessChannels>>

-----------------------------------------------------------------------------
(* Lists: the objects behind FIFOs and collections.                        *)

FifoId(p) == <<"fifo", p>>
CollectionId(h, n) == <<"collection", Normalize(h), n>>
FifoIds == {FifoId(p) : p \in Ports}
CollectionIds == {"collection"} \X (0..MaxHandles) \X Names

TypeOfList(q) == IF q[1] = "fifo" THEN "uvm_tlm_fifo" ELSE "uvm_collection"

\* A list is created when it is first named.
ObjectOf(q) == IF q \in DOMAIN lists THEN lists[q] ELSE NextId
Resolved(q) ==
  IF q \in DOMAIN lists THEN store
  ELSE Put(store, NextId, Object(TypeOfList(q), Put(Empty, "size", U64(0))))
Resolves(q) ==
  IF q \in DOMAIN lists THEN UNCHANGED <<lists, created>>
  ELSE Room /\ lists' = Put(lists, q, NextId) /\ created' = Append(created, "list")

Counted(s, h) == Has(s, h, "size") /\ IsU64(Field(s, h, "size"))
Size(s, h) == Field(s, h, "size")[2]

Fits(s, h) == Size(s, h) < MaxCount

Resized(s, h, n) == SetField(s, h, "size", U64(n))
Pushed(s, h, v) == Resized([s EXCEPT ![h].items = Put(@, Size(s, h), v)], h, Size(s, h) + 1)

\* Items above i move down by one, up to the end or to the first that is missing.
Moved(s, h, i) ==
  LET gaps == {k \in i + 1..Size(s, h) : k = Size(s, h) \/ k \notin DOMAIN s[h].items}
      gap == CHOOSE k \in gaps : \A j \in gaps : k <= j
      items == s[h].items
  IN  [s EXCEPT ![h].items =
         [k \in DOMAIN items \cup i..gap - 2 |->
            IF k \in i..gap - 2 THEN items[k + 1] ELSE items[k]]]

Whole(s, h, i) == i + 1..Size(s, h) - 1 \subseteq DOMAIN s[h].items

\* Mutant: what is left is not moved.
RemovedUnmoved(s, h, i) == Resized(s, h, Size(s, h) - 1)

Removed(s, h, i) == Resized(Moved(s, h, i), h, Size(s, h) - 1)

\* The caller gives a null owner or no name, or an index out of range, ...
Refuses == Throws /\ UNCHANGED <<heapVars, lists>>
\* ... or the object of the list is not as it was left.
Broken(q) == Throws /\ store' = Resolved(q)

Identified(q) == q[2] # 0 /\ q[3] # ""

CollectionPush(h, n, v) ==
  LET q == CollectionId(h, n) IN
  /\ Enters("collection_push")
  /\ IF ~Identified(q) THEN Refuses
     ELSE /\ Resolves(q)
          /\ IF Counted(Resolved(q), ObjectOf(q))
             THEN /\ Fits(Resolved(q), ObjectOf(q))
                  /\ store' = Pushed(Resolved(q), ObjectOf(q), v) /\ Answers(Done)
             ELSE Broken(q)
  /\ UNCHANGED unlessLists

CollectionGet(h, n, i) ==
  LET q == CollectionId(h, n) IN
  /\ Enters("collection_get")
  /\ IF ~Identified(q) THEN Refuses
     ELSE /\ Resolves(q)
          /\ IF /\ Counted(Resolved(q), ObjectOf(q)) /\ i < Size(Resolved(q), ObjectOf(q))
                /\ i \in DOMAIN Resolved(q)[ObjectOf(q)].items
             THEN store' = Resolved(q) /\ Answers(<<"item", q, i, Resolved(q)[ObjectOf(q)].items[i]>>)
             ELSE Broken(q)
  /\ UNCHANGED unlessLists

CollectionErase(h, n, i) ==
  LET q == CollectionId(h, n) IN
  /\ Enters("collection_erase")
  /\ IF ~Identified(q) THEN Refuses
     ELSE /\ Resolves(q)
          /\ IF Counted(Resolved(q), ObjectOf(q)) /\ i < Size(Resolved(q), ObjectOf(q))
             THEN IF Whole(Resolved(q), ObjectOf(q), i)
                  THEN store' = Removed(Resolved(q), ObjectOf(q), i) /\ Answers(Done)
                  ELSE store' = Moved(Resolved(q), ObjectOf(q), i) /\ Throws
             ELSE Broken(q)
  /\ UNCHANGED unlessLists

CollectionSize(h, n) ==
  LET q == CollectionId(h, n) IN
  /\ Enters("collection_size")
  /\ IF ~Identified(q) THEN Refuses
     ELSE /\ Resolves(q) /\ store' = Resolved(q)
          /\ IF Counted(Resolved(q), ObjectOf(q))
             THEN Answers(<<"size", q, Size(Resolved(q), ObjectOf(q))>>) ELSE Throws
  /\ UNCHANGED unlessLists

FifoPush(p, v) ==
  LET q == FifoId(p) IN
  /\ Enters("fifo_push")
  /\ Resolves(q)
  /\ IF Counted(Resolved(q), ObjectOf(q))
     THEN /\ Fits(Resolved(q), ObjectOf(q))
          /\ store' = Notified(Pushed(Resolved(q), ObjectOf(q), v), {q})
          /\ Answers(Done)
     ELSE Broken(q)
  /\ UNCHANGED unlessLists

FifoTryGet(p) ==
  LET q == FifoId(p) h == lists[q] IN
  /\ Enters("fifo_try_get")
  /\ IF q \notin DOMAIN lists THEN Answers(<<"empty", q>>) /\ UNCHANGED store
     ELSE IF ~Counted(store, h) THEN Throws /\ UNCHANGED store
     ELSE IF Size(store, h) = 0 THEN Answers(<<"empty", q>>) /\ UNCHANGED store
     ELSE IF 0 \notin DOMAIN store[h].items THEN Throws /\ UNCHANGED store
     ELSE IF Whole(store, h, 0)
     THEN store' = Removed(store, h, 0) /\ Answers(<<"item", q, 0, store[h].items[0]>>)
     ELSE store' = Moved(store, h, 0) /\ Throws
  /\ UNCHANGED <<created, unlessHeap>>

-----------------------------------------------------------------------------
(* TLM: a write to a port.                                                 *)

unlessGraph == <<script, heapVars, treeVars, entries, channels, lists, taskVars, countVars>>

Connections == UNION {{<<p, i>> : i \in 1..Len(links[p])} : p \in Ports}

Connect(p, endpoint) ==
  /\ Enters("connect")
  /\ IF p = "" \/ endpoint = "" THEN Throws /\ UNCHANGED links
     ELSE /\ Cardinality(Connections) < MaxLinks
          /\ links' = [links EXCEPT ![p] = Append(@, endpoint)] /\ Answers(Done)
  /\ UNCHANGED <<subscribers, unlessGraph>>

Subscribe(endpoint) ==
  /\ Enters("subscribe")
  /\ IF endpoint = "" THEN Throws /\ UNCHANGED subscribers
     ELSE /\ Cardinality(UNION {{<<p, i>> : i \in 1..subscribers[p]} : p \in Ports}) < MaxCount
          /\ subscribers' = [subscribers EXCEPT ![endpoint] = @ + 1] /\ Answers(Done)
  /\ UNCHANGED <<links, unlessGraph>>

Writing(stage) == writes # <<>> /\ Top.stage = stage
Becomes(w) == writes' = [writes EXCEPT ![Len(writes)] = w] /\ UNCHANGED answer

WritePort(p, v) ==
  /\ Enters("write") /\ Len(writes) < MaxWrites
  /\ writes' = Append(writes, [port |-> p, value |-> v, stage |-> "walk", pending |-> <<p>>,
                               visited |-> {}, calls |-> <<>>, fifos |-> <<>>, pushed |-> 0])
  /\ UNCHANGED <<answer, graphVars, unlessGraph>>

Last(s) == s[Len(s)]
Front(s) == SubSeq(s, 1, Len(s) - 1)
IsLeaf(n) == links[n] = <<>>
Subscribers(n) == [i \in 1..subscribers[n] |-> <<n, i>>]

\* Mutant: nodes are not marked as they are taken off the stack.
VisitedAgain(w, n) ==
  LET rest == [w EXCEPT !.pending = Front(@)] IN
  IF n \in w.visited THEN rest
  ELSE IF ~IsLeaf(n) THEN [rest EXCEPT !.pending = @ \o links[n], !.visited = @ \cup {n}]
  ELSE [rest EXCEPT !.fifos = IF n \in FifoPorts THEN Append(@, n) ELSE @,
                     !.calls = @ \o Subscribers(n)]

\* The walk takes the last node pending.  Its connections are followed, or, if
\* it has none, it is written to.
Visited(w, n) ==
  LET rest == [w EXCEPT !.pending = Front(@)] IN
  IF n \in w.visited THEN rest
  ELSE IF ~IsLeaf(n) THEN [rest EXCEPT !.pending = @ \o links[n], !.visited = @ \cup {n}]
  ELSE [rest EXCEPT !.visited = @ \cup {n},
                     !.fifos = IF n \in FifoPorts THEN Append(@, n) ELSE @,
                     !.calls = @ \o Subscribers(n)]

Walk ==
  /\ Writing("walk") /\ Top.pending # <<>>
  /\ Becomes(Visited(Top, Last(Top.pending)))
  /\ UNCHANGED <<graphVars, unlessGraph>>

WalkEnds ==
  /\ Writing("walk") /\ Top.pending = <<>>
  /\ Becomes([Top EXCEPT !.stage = "deliver"])
  /\ UNCHANGED <<graphVars, unlessGraph>>

CallSubscriber ==
  /\ Writing("deliver") /\ Top.calls # <<>>
  /\ Becomes([Top EXCEPT !.stage = "callback", !.calls = Tail(@)])
  /\ UNCHANGED <<graphVars, unlessGraph>>

SubscriberReturns ==
  /\ Writing("callback")
  /\ Becomes([Top EXCEPT !.stage = "deliver"])
  /\ UNCHANGED <<graphVars, unlessGraph>>

\* When the subscribers have returned the value goes into each FIFO.
Deliver ==
  LET q == FifoId(Top.fifos[Top.pushed + 1]) IN
  /\ Writing("deliver") /\ Top.calls = <<>> /\ Top.pushed < Len(Top.fifos)
  /\ Resolves(q)
  /\ IF Counted(Resolved(q), ObjectOf(q))
     THEN /\ Fits(Resolved(q), ObjectOf(q))
          /\ store' = Pushed(Resolved(q), ObjectOf(q), Top.value)
          /\ Becomes([Top EXCEPT !.pushed = @ + 1])
     ELSE Broken(q)
  /\ UNCHANGED unlessLists

\* At last whoever waits for one of them is woken.
WriteReturns ==
  /\ Writing("deliver") /\ Top.calls = <<>> /\ Top.pushed = Len(Top.fifos)
  /\ store' = Notified(store, {FifoId(Top.fifos[i]) : i \in 1..Len(Top.fifos)})
  /\ writes' = Front(writes) /\ answer' = Done
  /\ UNCHANGED <<created, unlessHeap>>

-----------------------------------------------------------------------------
(* Coverage, Report and objections.                                        *)

unlessCounts == <<script, heapVars, treeVars, entries, channels, lists, graphVars, taskVars>>

RegisterBin(b) ==
  /\ Enters("bin") /\ bins' = bins \cup {b} /\ Answers(Done)
  /\ UNCHANGED <<hits, reported, objections, unlessCounts>>

Sample(b) ==
  /\ Enters("sample") /\ hits[b] < MaxCount
  /\ bins' = bins \cup {b} /\ hits' = [hits EXCEPT ![b] = @ + 1] /\ Answers(Done)
  /\ UNCHANGED <<reported, objections, unlessCounts>>

\* A value out of the range of the bin is not sampled.
SampleRange(b, n, low, high) ==
  IF low <= n /\ n <= high THEN Sample(b)
  ELSE /\ Enters("sample") /\ Answers(Done)
       /\ UNCHANGED <<countVars, unlessCounts>>

\* Covered bins of all bins, or all of none.
Percentage ==
  /\ Enters("percentage")
  /\ Answers(IF bins = {} THEN <<"percent", 1, 1>>
             ELSE <<"percent", Cardinality({b \in bins : hits[b] # 0}), Cardinality(bins)>>)
  /\ UNCHANGED <<countVars, unlessCounts>>

Severities == {"info", "warning", "error", "fatal"}

\* A fatal error is counted and thrown.
Emit(severity) ==
  /\ Enters("report")
  /\ IF severity \in Severities \ {"info"}
     THEN reported[severity] < MaxCount /\ reported' = [reported EXCEPT ![severity] = @ + 1]
     ELSE UNCHANGED reported
  /\ IF severity \in Severities \ {"fatal"} THEN Answers(Done) ELSE Throws
  /\ UNCHANGED <<bins, hits, objections, unlessCounts>>

ErrorCount ==
  /\ Enters("error_count") /\ Answers(U64(reported["error"] + reported["fatal"]))
  /\ UNCHANGED <<countVars, unlessCounts>>

RaiseObjection ==
  /\ Enters("raise") /\ objections < MaxCount
  /\ objections' = objections + 1 /\ Answers(Done)
  /\ UNCHANGED <<bins, hits, reported, unlessCounts>>

DropObjection ==
  /\ Enters("drop")
  /\ IF objections = 0 THEN Throws /\ UNCHANGED objections
     ELSE objections' = objections - 1 /\ Answers(Done)
  /\ UNCHANGED <<bins, hits, reported, unlessCounts>>

-----------------------------------------------------------------------------
(* Every service begins anew.  The objects of lists and processes are      *)
(* destroyed; those of the factory stay, and handles are not reused.       *)

NoChannels == [n \in Names \cup {"sequencer.default"} |-> <<>>]
NoLinks == [p \in Ports |-> <<>>]
NoSubscribers == [p \in Ports |-> 0]
NoHits == [b \in Bins |-> 0]
NoReports == [s \in Severities \ {"info"} |-> 0]

ServicesInit ==
  /\ script \in Scripts
  /\ store = Empty /\ created = <<>>
  /\ overrides = Empty /\ nodes = <<>> /\ entries = <<>> /\ channels = NoChannels
  /\ lists = Empty /\ links = NoLinks /\ subscribers = NoSubscribers
  /\ processes = <<>> /\ steps = {}
  /\ bins = {} /\ hits = NoHits /\ reported = NoReports /\ objections = 0
  /\ writes = <<>> /\ answer = Done

ListObjects == {lists[q] : q \in DOMAIN lists}

\* Mutant: the objects of lists are kept.
ResetKeepsLists ==
  /\ Enters("reset") /\ Answers(Done)
  /\ store' = [h \in Live \ Handles |-> store[h]]
  /\ overrides' = Empty /\ nodes' = <<>> /\ entries' = <<>> /\ channels' = NoChannels
  /\ lists' = Empty /\ links' = NoLinks /\ subscribers' = NoSubscribers
  /\ processes' = <<>> /\ steps' = {}
  /\ bins' = {} /\ hits' = NoHits /\ reported' = NoReports /\ objections' = 0
  /\ UNCHANGED <<script, created>>

ResetServices ==
  /\ Enters("reset") /\ Answers(Done)
  /\ store' = [h \in Live \ (Handles \cup ListObjects) |-> store[h]]
  /\ overrides' = Empty /\ nodes' = <<>> /\ entries' = <<>> /\ channels' = NoChannels
  /\ lists' = Empty /\ links' = NoLinks /\ subscribers' = NoSubscribers
  /\ processes' = <<>> /\ steps' = {}
  /\ bins' = {} /\ hits' = NoHits /\ reported' = NoReports /\ objections' = 0
  /\ UNCHANGED <<script, created>>

-----------------------------------------------------------------------------
\* What the program passes: objects and processes it was given, or null.
Objs == {0} \cup Given("object")
Procs == {0} \cup Given("process")

ObjectCall ==
  \E h \in Objs :
    \/ Randomize(h)
    \/ \E t \in script.types : IsType(h, t)
    \/ \E f \in script.names :
         \/ LoadU64(h, f) \/ LoadPointer(h, f)
         \/ \E n \in Numbers : StoreField("store_u64", h, f, U64(n))
         \/ \E other \in Objs : StoreField("store_ptr", h, f, Pointer(other))

FactoryCall ==
  \E t \in script.types :
    \/ \E replacement \in script.types : Override(t, replacement)
    \/ \E n \in script.names, parent \in Objs : FactoryCreate(t, n, parent)

ConfigCall ==
  \E field \in script.names :
    \/ \E scope \in Scopes :
         \/ \E n \in Numbers : ConfigSet(scope, field, U64(n))
         \/ \E h \in Objs : ConfigSet(scope, field, Pointer(h))
    \/ \E instance \in Instances : ConfigGet(instance, field)

EventNames == {FifoId(p) : p \in script.ports} \cup {ItemEvent}

TaskCall ==
  \/ \E h \in Objs : ProcessCreate(h) \/ \E sequencer \in Objs : SequenceStart(h, sequencer)
  \/ \E n \in script.names : Register(n) \/ \E h \in Objs \cup Procs : SpawnTask(n, h)
  \/ \E h \in Procs :
       \/ \E n \in Numbers : SetProcess("set_pc", h, "pc", U64(n))
       \/ SetProcess("complete", h, "status", Text("done"))
       \/ \E event \in EventNames : WaitFor(h, event)
       \/ \E n \in script.names :
            \/ \E kind \in {"u64", "handle"} : LocalLoad(h, n, kind)
            \/ \E i \in Numbers : LocalStore(h, n, U64(i))
            \/ \E other \in Objs : LocalStore(h, n, Pointer(other))
       \/ \E item \in Objs : SendItem(h, item)
  \/ \E event \in EventNames : NotifyEvent(event)

SequencerCall ==
  \/ TryGetItem
  \/ \E sequencer \in script.names :
       SequencerTryNext(sequencer) \/ \E n \in Numbers : SequencerStart(sequencer, n)

CollectionCall ==
  \E h \in Objs \cup Procs, n \in script.names :
    \/ CollectionSize(h, n)
    \/ \E item \in Objs : CollectionPush(h, n, Pointer(item))
    \/ \E i \in Numbers : CollectionGet(h, n, i) \/ CollectionErase(h, n, i)

TlmCall ==
  \E p \in script.ports :
    \/ Subscribe(p) \/ FifoTryGet(p)
    \/ \E endpoint \in script.ports : Connect(p, endpoint)
    \/ \E item \in Objs : WritePort(p, Pointer(item)) \/ FifoPush(p, Pointer(item))

WriteStep ==
  Walk \/ WalkEnds \/ CallSubscriber \/ SubscriberReturns \/ Deliver \/ WriteReturns

CountCall ==
  \/ \E b \in Bins :
       \/ RegisterBin(b)
       \/ Sample(b)
       \/ \E n, low, high \in Numbers : SampleRange(b, n, low, high)
  \/ Percentage \/ ErrorCount \/ RaiseObjection \/ DropObjection
  \/ \E severity \in Severities \cup {"unknown"} : Emit(severity)

ServicesNext ==
  \/ ObjectCall \/ FactoryCall \/ ConfigCall \/ TaskCall \/ SequencerCall
  \/ CollectionCall \/ TlmCall \/ WriteStep \/ CountCall \/ ResetServices

ServicesSpec == ServicesInit /\ [][ServicesNext]_serviceVars

-----------------------------------------------------------------------------
(* What the state is made of.                                              *)

Kinds == {"object", "process", "list"}
Items == {Pointer(h) : h \in 0..MaxHandles}

Frames ==
  [port : Ports, value : Items, stage : {"walk", "deliver", "callback"}, pending : Seq(Ports),
   visited : SUBSET Ports, calls : Seq(Ports \X (Nat \ {0})), fifos : Seq(FifoPorts), pushed : Nat]

\* The type of an object tells what it was made as; an object of a process
\* has the fields that the scheduler reads.
ObjectsOK ==
  \A h \in Live :
    /\ DOMAIN store[h] = {"type", "fields", "locals", "items"}
    /\ created[h] = "object" => store[h].type \in ClassTypes
    /\ created[h] = "process" =>
         /\ store[h].type = "uvm_process_state"
         /\ {"pc", "status", "event", "owner"} \subseteq DOMAIN store[h].fields
         /\ Field(store, h, "owner") \in Items
    /\ created[h] = "list" => store[h].type \in {"uvm_tlm_fifo", "uvm_collection"}

ServicesTypeOK ==
  /\ script \in Scripts
  /\ created \in Seq(Kinds) /\ Len(created) <= MaxHandles
  /\ Live \subseteq DOMAIN created /\ ObjectsOK
  /\ DOMAIN lists \subseteq FifoIds \cup CollectionIds
  /\ \A q \in DOMAIN lists : lists[q] \in Live /\ created[lists[q]] = "list"
  /\ processes \in Seq(Given("process")) /\ steps \subseteq Names
  /\ \A t \in DOMAIN overrides : overrides[t] \in ClassTypes
  /\ links \in [Ports -> Seq(Ports)] /\ subscribers \in [Ports -> Nat]
  /\ writes \in Seq(Frames) /\ Len(writes) <= MaxWrites
  /\ bins \subseteq Bins /\ hits \in [Bins -> Nat]
  /\ reported \in [Severities \ {"info"} -> Nat] /\ objections \in Nat

-----------------------------------------------------------------------------
(***************************************************************************)
(* What the services must not get wrong.                                   *)
(***************************************************************************)

Closed(S) == \A n \in S : \A i \in 1..Len(links[n]) : links[n][i] \in S

\* The endpoints that connections lead to, from a port.
Reached(p) == {n \in Ports : \A S \in SUBSET Ports : p \in S /\ Closed(S) => n \in S}

EachOnce(s, S) ==
  /\ {s[i] : i \in 1..Len(s)} = S
  /\ \A i, j \in 1..Len(s) : s[i] = s[j] => i = j

\* A write reaches every FIFO and every subscriber at the end of a path from
\* its port, each exactly once, where paths join, part, or lead back.
WritesReach ==
  Writing("walk") /\ Top.pending = <<>> =>
    LET leaves == {n \in Reached(Top.port) : IsLeaf(n)}
    IN  /\ EachOnce(Top.fifos, leaves \cap FifoPorts)
        /\ EachOnce(Top.calls, UNION {{<<n, i>> : i \in 1..subscribers[n]} : n \in leaves})

\* Every list has an object of its own that lives, knows its size and holds
\* each item below it, whatever the program, its subscribers and resets do: no
\* entry point finds a list broken.  No object of a list outlives it.
ListsWhole ==
  /\ \A q \in DOMAIN lists :
       /\ Counted(store, lists[q])
       /\ 0..Size(store, lists[q]) - 1 \subseteq DOMAIN store[lists[q]].items
       /\ lists[q] \notin Objs \cup Procs
       /\ \A r \in DOMAIN lists : lists[q] = lists[r] => q = r
  /\ Live \ (Objs \cup Procs) \subseteq ListObjects

\* FIFOs and collections are queues: what a list of numbered fields holds is
\* what was put in and not yet taken out, in order, and is answered for so.
Contents(q) ==
  IF q \in DOMAIN lists
  THEN [i \in 1..Size(store, lists[q]) |-> store[lists[q]].items[i - 1]]
  ELSE <<>>

Abstract == INSTANCE ServiceQueues WITH
  Queues <- FifoIds \cup CollectionIds,
  queues <- [q \in FifoIds \cup CollectionIds |-> Contents(q)]

ImplementsQueues == Abstract!Spec
=============================================================================
