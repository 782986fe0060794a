--------------------------- MODULE SourceLifecycle ---------------------------
(***************************************************************************)
(* How sources come into being and vanish in ssr::RendererBase, between    *)
(* several non-realtime threads (the clients: GUI, network, trackers) and  *)
(* the realtime thread.  A client changes nothing the realtime thread      *)
(* uses: it pushes commands, whose execution changes the lists and whose   *)
(* cleanup deletes objects.  The clients take turns with a lock.           *)
(*                                                                         *)
(* A source and its input are created together: both are named by the same *)
(* number.  The queue is active; commands carry raw pointers, "of".  One   *)
(* cleanup_commands(), one insertion into _in_fifo and one turn of         *)
(* process_commands() are a step; CommandQueue has the details.            *)
(* The realtime thread may process the lists in any state.                 *)
(***************************************************************************)
EXTENDS Integers, Sequences, SequencesExt

CONSTANTS Clients,
          Controllers,  \* the clients that add and delete sources
          MaxSources,   \* bound: how many sources are ever created
          FifoLength    \* what one FIFO of the queue holds

ASSUME ControllersAssumption == Controllers \subseteq Clients
ASSUME BoundsAssumption == MaxSources \in Nat /\ FifoLength \in Nat \ {0}

Sources == 1 .. MaxSources
Ids == 1 .. MaxSources

VARIABLES
  _source_map,   \* per ID: the source, 0: none
  _highest_id,
  created,       \* how many sources were created so far
  inputs,        \* Input objects that exist
  sources,       \* Source objects that exist
  _input_list, _source_list,
  connected,     \* sources whose channels are in the outputs' sublists
  _in_fifo, _out_fifo,
  lost,          \* history: commands that did not fit into _out_fifo
  done,          \* the clients whose WaitCommand was cleaned up
  client         \* what each client is doing

vars == <<_source_map, _highest_id, created, inputs, sources, _input_list,
          _source_list, connected, _in_fifo, _out_fifo, lost, done, client>>

objects == <<_source_map, _highest_id, created>>
lists == <<_input_list, _source_list, connected>>
queue == <<inputs, sources, _in_fifo, _out_fifo, lost, done>>

SourceOps == {"add_input", "add_source", "connect", "set",
              "disconnect", "rem_source", "rem_input"}
Commands == [op : SourceOps, of : Sources] \cup [op : {"wait"}, of : Clients]

Cmd(op, of) == [op |-> op, of |-> of]

Idle == [at |-> "idle", id |-> 0, source |-> 0, todo |-> <<>>, then |-> "return"]

Init ==
  /\ _source_map = [id \in Ids |-> 0]
  /\ _highest_id = 0
  /\ created = 0
  /\ inputs = {} /\ sources = {}
  /\ _input_list = {} /\ _source_list = {} /\ connected = {}
  /\ _in_fifo = <<>> /\ _out_fifo = <<>>
  /\ lost = {}
  /\ done = {}
  /\ client = [c \in Clients |-> Idle]

------------------------------------------------------------------------------
(* The command queue *)

\* What the commands of kind op in a set of commands refer to.
Of(op, commands) == { cmd.of : cmd \in { k \in commands : k.op = op } }

\* Mutant: a source is deleted when its removal is executed, not cleaned up:
\* here, as soon as it is in the queue.
Mutant_CleanUp ==
  LET commands == ToSet(_out_fifo) \cup ToSet(_in_fifo)
  IN  /\ inputs' = inputs \ Of("rem_input", commands)
      /\ sources' = sources \ Of("rem_source", commands)
      /\ done' = done \cup Of("wait", commands)
      /\ _out_fifo' = <<>>

\* cleanup_commands(): only removals and WaitCommands have anything to do.
CleanUp ==
  LET commands == ToSet(_out_fifo)
  IN  /\ inputs' = inputs \ Of("rem_input", commands)
      /\ sources' = sources \ Of("rem_source", commands)
      /\ done' = done \cup Of("wait", commands)
      /\ _out_fifo' = <<>>

\* One command is executed, and returned if there is room for it.
Execute ==
  /\ _in_fifo # <<>>
  /\ LET cmd == Head(_in_fifo)
         If(op) == Of(op, {cmd})
     IN  /\ _input_list' = (_input_list \cup If("add_input")) \ If("rem_input")
         /\ _source_list' = (_source_list \cup If("add_source")) \ If("rem_source")
         /\ connected' = (connected \cup If("connect")) \ If("disconnect")
         /\ \/ /\ Len(_out_fifo) < FifoLength
               /\ _out_fifo' = Append(_out_fifo, cmd)
               /\ UNCHANGED lost
            \/ /\ Len(_out_fifo) = FifoLength
               /\ lost' = lost \cup {cmd}
               /\ UNCHANGED _out_fifo
  /\ _in_fifo' = Tail(_in_fifo)
  /\ UNCHANGED <<objects, inputs, sources, done, client>>

------------------------------------------------------------------------------
(* Clients.  One that is "pushing" or "inserting" holds the lock, except   *)
(* in wait_for_rt_thread().                                                *)

Holds(c) == client[c].at \in {"pushing", "inserting"} /\ client[c].then # "poll"

Unlocked == \A c \in Clients : ~ Holds(c)

Become(c, state) == client' = [client EXCEPT ![c] = state]

Pushing(id, source, todo, then) ==
  [at |-> "pushing", id |-> id, source |-> source, todo |-> todo, then |-> then]

\* push() begins with cleanup_commands() ...
Push(c) ==
  /\ client[c].at = "pushing"
  /\ client[c].todo # <<>>
  /\ CleanUp
  /\ Become(c, [client[c] EXCEPT !.at = "inserting"])
  /\ UNCHANGED <<objects, lists, _in_fifo, lost>>

\* ... and waits while _in_fifo is full.
Insert(c) ==
  /\ client[c].at = "inserting"
  /\ Len(_in_fifo) < FifoLength
  /\ _in_fifo' = Append(_in_fifo, Head(client[c].todo))
  /\ Become(c, [client[c] EXCEPT !.at = "pushing", !.todo = Tail(@)])
  /\ UNCHANGED <<objects, lists, inputs, sources, _out_fifo, lost, done>>

\* The end of an operation, of one turn of rem_all_sources(), or of the push()
\* in wait().
Return(c) ==
  /\ client[c].at = "pushing"
  /\ client[c].todo = <<>>
  /\ \/ client[c].then = "return" /\ Become(c, Idle)
     \/ client[c].then = "next" /\ Become(c, [Idle EXCEPT !.at = "all"])
     \/ client[c].then = "poll" /\ Become(c, [Idle EXCEPT !.at = "poll"])
  /\ UNCHANGED <<objects, lists, queue>>

\* add_source(): first the input, ...
add_source(c) ==
  /\ client[c].at = "idle"
  /\ Unlocked
  /\ created < MaxSources
  /\ LET source == created + 1
         id == _highest_id + 1
     IN  /\ created' = source
         /\ _highest_id' = id
         /\ inputs' = inputs \cup {source}
         /\ Become(c, Pushing(id, source, <<Cmd("add_input", source)>>, "construct"))
  /\ UNCHANGED <<_source_map, sources, lists, _in_fifo, _out_fifo, lost, done>>

\* Mutant: the input is left behind when there is no source for it.
Mutant_Construct(c) ==
  /\ client[c].at = "pushing"
  /\ client[c].todo = <<>>
  /\ client[c].then = "construct"
  /\ LET source == client[c].source
         id == client[c].id
     IN  \/ /\ sources' = sources \cup {source}
            /\ Become(c, Pushing(id, source, <<Cmd("add_source", source),
                                               Cmd("connect", source)>>, "register"))
         \/ /\ Become(c, Pushing(id, source, <<>>, "return"))
            /\ UNCHANGED sources
  /\ UNCHANGED <<objects, lists, inputs, _in_fifo, _out_fifo, lost, done>>

\* ... then the source, whose constructor may throw, ...
Construct(c) ==
  /\ client[c].at = "pushing"
  /\ client[c].todo = <<>>
  /\ client[c].then = "construct"
  /\ LET source == client[c].source
         id == client[c].id
     IN  \/ /\ sources' = sources \cup {source}
            /\ Become(c, Pushing(id, source, <<Cmd("add_source", source),
                                               Cmd("connect", source)>>, "register"))
         \/ /\ Become(c, Pushing(id, source, <<Cmd("rem_input", source)>>, "return"))
            /\ UNCHANGED sources
  /\ UNCHANGED <<objects, lists, inputs, _in_fifo, _out_fifo, lost, done>>

\* ... and at last its ID is known.
Register(c) ==
  /\ client[c].at = "pushing"
  /\ client[c].todo = <<>>
  /\ client[c].then = "register"
  /\ _source_map' = [_source_map EXCEPT ![client[c].id] = client[c].source]
  /\ Become(c, Idle)
  /\ UNCHANGED <<_highest_id, created, lists, queue>>

\* RenderSubscriber::set_source_...() of a source that is found.
set_source(c, id) ==
  /\ client[c].at = "idle"
  /\ Unlocked
  /\ _source_map[id] # 0
  /\ LET source == _source_map[id]
     IN  Become(c, Pushing(id, source, <<Cmd("set", source)>>, "return"))
  /\ UNCHANGED <<objects, lists, queue>>

\* delete_source(): the client knows a source with this ID, ...
delete_source(c, id) ==
  /\ client[c].at = "idle"
  /\ _source_map[id] # 0
  /\ Become(c, [Idle EXCEPT !.at = "get", !.id = id])
  /\ UNCHANGED <<objects, lists, queue>>

\* ... looks it up, without the lock (null where there is none), ...
get_source(c) ==
  /\ client[c].at = "get"
  /\ Become(c, [client[c] EXCEPT !.at = "enter", !.source = _source_map[client[c].id]])
  /\ UNCHANGED <<objects, lists, queue>>

\* ... and removes it, in the reverse order of add_source().  Without such a
\* source in the map the code's behaviour is undefined: nothing is modelled.
rem_source(c) ==
  /\ client[c].at = "enter"
  /\ Unlocked
  /\ \E id \in Ids :
       /\ _source_map[id] = client[c].source
       /\ _source_map' = [_source_map EXCEPT ![id] = 0]
  /\ LET source == client[c].source
     IN  /\ source # 0
         /\ Become(c, Pushing(client[c].id, source,
                      <<Cmd("disconnect", source), Cmd("rem_source", source),
                        Cmd("rem_input", source)>>, client[c].then))
  /\ UNCHANGED <<_highest_id, created, lists, queue>>

\* Controller::delete_all_sources() ...
delete_all_sources(c) ==
  /\ client[c].at = "idle"
  /\ Become(c, [Idle EXCEPT !.at = "all"])
  /\ UNCHANGED <<objects, lists, queue>>

\* ... calls rem_all_sources(), one source after the other, and then, without
\* the lock, wait_for_rt_thread().
RemNext(c) ==
  /\ client[c].at = "all"
  /\ \E id \in Ids :
       /\ _source_map[id] # 0
       /\ \A k \in Ids : k < id => _source_map[k] = 0
       /\ Become(c, [client[c] EXCEPT !.at = "enter", !.id = id,
                                      !.source = _source_map[id], !.then = "next"])
  /\ UNCHANGED <<objects, lists, queue>>

RemAllDone(c) ==
  /\ client[c].at = "all"
  /\ \A id \in Ids : _source_map[id] = 0
  /\ _highest_id' = 0
  /\ done' = done \ {c}
  /\ Become(c, Pushing(0, 0, <<Cmd("wait", c)>>, "poll"))
  /\ UNCHANGED <<_source_map, created, lists, inputs, sources, _in_fifo, _out_fifo,
                 lost>>

\* Mutant: wait() returns as soon as the realtime thread has no command left.
Mutant_WaitReturns(c) ==
  /\ client[c].at = "poll"
  /\ _in_fifo = <<>>
  /\ Become(c, Idle)
  /\ UNCHANGED <<objects, lists, queue>>

\* wait() cleans up until its own command was cleaned up.
Poll(c) ==
  /\ client[c].at = "poll"
  /\ _out_fifo # <<>>
  /\ CleanUp
  /\ UNCHANGED <<objects, lists, _in_fifo, lost, client>>

WaitReturns(c) ==
  /\ client[c].at = "poll"
  /\ c \in done
  /\ Become(c, Idle)
  /\ UNCHANGED <<objects, lists, queue>>

------------------------------------------------------------------------------
Starts(c) ==
  \/ \E id \in Ids : set_source(c, id)
  \/ /\ c \in Controllers
     /\ \/ add_source(c)
        \/ \E id \in Ids : delete_source(c, id)
        \/ delete_all_sources(c)

Proceeds(c) ==
  \/ Push(c)
  \/ Insert(c)
  \/ Return(c)
  \/ Construct(c)
  \/ Register(c)
  \/ get_source(c)
  \/ rem_source(c)
  \/ RemNext(c)
  \/ RemAllDone(c)
  \/ Poll(c)
  \/ WaitReturns(c)

Next == Execute \/ \E c \in Clients : Starts(c) \/ Proceeds(c)

\* The realtime thread runs, and so does a client inside an operation, unless
\* it waits for the lock, which is not a fair one.
Fairness == WF_vars(Execute) /\ \A c \in Clients : WF_vars(Proceeds(c))

Spec == Init /\ [][Next]_vars /\ Fairness

------------------------------------------------------------------------------
(* Properties *)

\* Types; at most one client holds the lock.
TypeOK ==
  /\ _source_map \in [Ids -> 0 .. MaxSources]
  /\ _highest_id \in 0 .. MaxSources
  /\ created \in 0 .. MaxSources
  /\ inputs \subseteq Sources /\ sources \subseteq Sources
  /\ _input_list \subseteq Sources /\ _source_list \subseteq Sources
  /\ connected \subseteq Sources
  /\ _in_fifo \in Seq(Commands) /\ _out_fifo \in Seq(Commands)
  /\ lost \subseteq Commands
  /\ done \subseteq Clients
  /\ client \in [Clients -> [at : {"idle", "pushing", "inserting", "get", "enter",
                                   "all", "poll"},
                             id : 0 .. MaxSources,
                             source : 0 .. MaxSources,
                             todo : Seq(Commands),
                             then : {"construct", "register", "return", "next", "poll"}]]
  /\ \A c, d \in Clients : Holds(c) /\ Holds(d) => c = d

\* In whatever state of the clients' operations the realtime thread processes
\* the lists: everything in them exists, a source's input is in its list (so
\* that it was processed before the source), and the outputs know only
\* channels of sources that are processed.
ListsUsable ==
  /\ _input_list \subseteq inputs
  /\ _source_list \subseteq sources \cap _input_list
  /\ connected \subseteq _source_list

\* The next command neither throws in the realtime thread nor goes to an
\* object that is deleted or no longer rendered.
NextCommandSafe ==
  _in_fifo # <<>> =>
    LET cmd == Head(_in_fifo)
    IN  /\ cmd.op \in {"add_input", "rem_input"} => cmd.of \in inputs
        /\ cmd.op = "add_source" => cmd.of \in (sources \cap _input_list) \ _source_list
        /\ cmd.op \in {"set", "rem_source", "connect"} => cmd.of \in _source_list
        /\ cmd.op = "rem_source" => cmd.of \notin connected
        /\ cmd.op = "disconnect" => cmd.of \in connected
        /\ cmd.op = "rem_input" => cmd.of \in _input_list \ _source_list

\* The realtime thread is safe whenever it processes the lists and whenever it
\* executes the next command, whatever the clients are in the middle of
\* (RendererBase::add_source, rem_source).
RealtimeSafe == ListsUsable /\ NextCommandSafe

Mapped == { _source_map[id] : id \in Ids } \ {0}

\* When nobody is at work all lists agree with the map; and what else exists
\* was leaked by a full _out_fifo.
Settled ==
  (\A c \in Clients : client[c].at = "idle") /\ _in_fifo = <<>> =>
    /\ _input_list = Mapped /\ _source_list = Mapped /\ connected = Mapped
    /\ _out_fifo = <<>> => /\ inputs = Mapped \cup Of("rem_input", lost)
                           /\ sources = Mapped \cup Of("rem_source", lost)

\* "Wait until InternalInput objects are destroyed" (controller.h:1442):
\* delete_all_sources() returns when none is left, except leaked ones.
AllGone ==
  [][\A c \in Clients :
       client[c].at = "poll" /\ client'[c].at = "idle" =>
         inputs' \subseteq Of("rem_input", lost') /\ _source_list' = {}]_vars

\* "All non-realtime accesses to RtList%s have to be locked [...] to ensure
\* single-reader/single-writer operation." (rendererbase.h:58): no two clients
\* push into the command queue at the same time.
OneWriter ==
  \A c, d \in Clients :
    client[c].at = "inserting" /\ client[d].at = "inserting" => c = d

\* "assert(source)" (rendererbase.h:292): whoever enters rem_source() has found
\* the source it wants to remove.
RemovesASource == \A c \in Clients : client[c].at = "enter" => client[c].source # 0
==============================================================================
