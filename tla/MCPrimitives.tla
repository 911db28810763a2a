---------------------------- MODULE MCPrimitives ----------------------------
(***************************************************************************)
(* The runtime under its two faces: three threads, and the programs they   *)
(* may be, each about one or two primitives, as these know nothing of each *)
(* other; or the one thread of compiled code that calls the UVM services,  *)
(* and its scripts, each about those that share state.                     *)
(***************************************************************************)
EXTENDS Primitives, UvmServices

Three == {"a", "b", "c"}

Program(a, b, c) == [t \in Three |-> CASE t = "a" -> a [] t = "b" -> b [] t = "c" -> c]

NoProgram == Program({}, {}, {})

Programs ==
  {NoProgram,
   Program({"acquire"}, {"acquire"}, {"release", "try_acquire"}),
   Program({"receive"}, {"receive", "try_receive"}, {"send"}),
   Program({"receive", "acquire"}, {"receive", "release"}, {"send", "acquire"}),
   Program({"wait", "wait_for"}, {"wait", "reset"}, {"trigger", "reset"}),
   Program({"rising", "falling"}, {"rising"}, {"start", "stop"}),
   Program({"spawn", "join", "kill"}, {}, {}),
   Program({"run", "schedule", "halt"}, {"schedule"}, {}),
   Program({"run"}, {"schedule"}, {"schedule", "halt"}),
   Program({"add_class", "create", "call"}, {"call", "clone", "destroy"}, {"create"})}

Script(calls, class_types, names, ports) ==
  [calls |-> calls, types |-> class_types, names |-> names, ports |-> ports]

NoScript == Script({}, {}, {}, {})

CallScripts ==
  {NoScript,
   \* paths that join, part and lead back; subscribers that connect and write
   Script({"connect", "write"}, {}, {}, {"port", "hub", "a_fifo"}),
   Script({"connect", "write"}, {}, {}, {"port", "a_fifo", "b_fifo"}),
   Script({"connect", "subscribe", "write"}, {}, {}, {"port", "a_fifo"}),
   Script({"connect", "subscribe", "write", "report", "collection_push"}, {}, {"body", ""}, {"", "port"}),
   Script({"create", "write", "subscribe", "fifo_try_get"}, {"packet"}, {"body"}, {"a_fifo"}),
   Script({"write", "subscribe", "fifo_push", "reset"}, {}, {}, {"a_fifo"}),
   \* lists and who waits for them
   Script({"create", "fifo_push", "fifo_try_get", "reset"}, {"packet"}, {"body"}, {"a_fifo", "b_fifo"}),
   Script({"create", "collection_push", "collection_get", "collection_erase", "collection_size",
           "process_create", "reset"}, {"packet"}, {"body"}, {}),
   Script({"process_create", "wait_event", "notify", "fifo_push", "fifo_try_get"}, {}, {}, {"a_fifo"}),
   \* objects, processes and sequences
   Script({"create", "override", "is_type", "reset"}, {"packet", "long_packet"}, {"data"}, {}),
   Script({"create", "load_u64", "store_u64", "randomize"}, {"packet", ""}, {"data", ""}, {}),
   Script({"create", "load_ptr", "store_ptr"}, {"packet"}, {"data"}, {}),
   Script({"process_register", "process_spawn", "sequence_start", "complete", "start_item",
           "try_get_item", "reset"}, {}, {"body", ""}, {}),
   Script({"process_create", "set_pc", "local_store", "local_load"}, {}, {"body"}, {}),
   Script({"sequence_start", "process_register", "start_item", "try_next_u64", "start_u64",
           "try_get_item"}, {}, {"body", "sequencer.default"}, {}),
   \* configuration, coverage, report, objections
   Script({"config_set", "config_get", "reset"}, {}, {"body"}, {}),
   Script({"bin", "sample", "percentage", "raise", "drop", "reset"}, {}, {}, {}),
   Script({"report", "error_count", "reset"}, {}, {}, {})}

\* Letters of scopes; the star is the wildcard.
Patterns == {<<"*">>, <<"e", "*">>, <<"e">>, <<"e", "*", "e">>}
Paths == {<<"e">>, <<"e", "e">>, <<"e", "n", "e">>}

\* Either threads call primitives, or compiled code calls services.
RuntimeInit == Init /\ ServicesInit /\ (role = NoProgram \/ script = NoScript)
RuntimeNext == (Next /\ UNCHANGED serviceVars) \/ (ServicesNext /\ UNCHANGED vars)
RuntimeSpec ==
  /\ RuntimeInit /\ [][RuntimeNext]_<<vars, serviceVars>>
  /\ WF_vars(Worker /\ UNCHANGED serviceVars)
  /\ \A t \in Threads :
       /\ WF_vars(Receive(t) /\ UNCHANGED serviceVars)
       /\ WF_vars(Stopped(t) /\ UNCHANGED serviceVars)
=============================================================================
