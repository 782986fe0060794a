------------------------------ MODULE Publication ------------------------------
(***************************************************************************)
(* ssr::Controller publishes every change of the scene to its subscribers, *)
(* one after the other: the Scene, the RenderSubscriber, and one           *)
(* NetworkSubscriber per connection, each with a replica of its own.  The  *)
(* controller has no lock ("FIXME: THREAD", controller.h:278).  Three      *)
(* threads publish here, as in SSR without GUI: the network thread (all    *)
(* requests of clients; it also subscribes and unsubscribes), the tracker  *)
(* (the orientation of the reference) and the query thread (levels, under  *)
(* the renderer's lock).                                                   *)
(*                                                                         *)
(* One call of one subscriber is a step.  A client of the network, which   *)
(* is not part of the program, is a replica, too: a message it is sent has *)
(* arrived at once, because the messages of a connection stay in order.    *)
(***************************************************************************)
EXTENDS Integers, FiniteSets, Sequences, SequencesExt

CONSTANTS Clients,      \* connections, one object for each that is ever made
          MaxId,        \* bound: sources are not added beyond this ID
          Members,      \* members of a Source that are looked at
          Settings,     \* settings of the whole scene that are looked at
          Requests,     \* what clients ask for
          MaxRequests,  \* bound: requests of clients
          Orientations, \* what the tracker reports (see Values)
          MaxTurns      \* bound: changes the tracker reports

ASSUME MembersAssumption ==
  /\ {"mute", "position", "position_fixed"} \subseteq Members
  /\ Members \subseteq {"mute", "gain", "position", "position_fixed", "orientation", "name",
                        "model", "port_name", "file_name", "file_channel", "file_length",
                        "properties_file"}
ASSUME SettingsAssumption ==
  /\ {"processing_state", "reference_orientation", "amplitude_reference_distance"}
       \subseteq Settings
  /\ "" \notin Settings
ASSUME OrientationsAssumption == Orientations \subseteq 0 .. 1
ASSUME ClientsAssumption == Clients \cap {"scene", "renderer"} = {}
ASSUME BoundsAssumption == MaxId \in Nat /\ MaxRequests \in Nat /\ MaxTurns \in Nat

Ids == 1 .. MaxId
Values == 0 .. 1     \* of a member (0: default, false) or of a setting

\* Requests for what the functions of the controller do; load_* name a number of sources.
\* A position and the processing state have functions of their own.
Asked(ops, ids, whats) == [op : ops, id : ids, what : whats, value : Values]

ASSUME RequestsAssumption ==
  Requests \subseteq
    Asked({"load_scene", "load_nothing"}, 0 .. MaxId, {""})
      \cup Asked({"add", "start", "stop", "delete_all_sources"}, {0}, {""})
      \cup Asked({"delete_source"}, Ids, {""})
      \cup Asked({"move"}, Ids, {"position"})
      \cup Asked({"member"}, Ids, Members \ {"position"})
      \cup Asked({"setting"}, {0}, Settings \ {"processing_state"})

Threads == {"network", "tracker", "query"}
Subscribers == {"scene", "renderer"} \cup Clients

VARIABLES
  scene,        \* Scene: its sources and settings
  renderer,     \* what RenderSubscriber has passed on to the renderer
  _highest_id,
  client,       \* the replica of each client
  _source_levels, \* of each NetworkSubscriber: the IDs it has a level for
  arrays,       \* storage of the vector _subscribers, the last one is in use
  thread,       \* what each thread has to do, and its loop over _subscribers
  locked,       \* the query thread holds the renderer's lock
  link,         \* state of each connection
  whole_scene,  \* local variable of Connection::start()
  requests,     \* how many requests were made
  turns,        \* how many changes the tracker has reported
  agreed,       \* history: settings all were told of, by one thread at a time
  overlapped    \* history: clients whose (un)subscription another thread overlapped

vars == <<scene, renderer, _highest_id, client, _source_levels, arrays, thread,
          locked, link, whole_scene, requests, turns, agreed, overlapped>>

replicas == <<scene, renderer, _highest_id, client, _source_levels>>
subscription == <<arrays, link, whole_scene, overlapped>>
bounded == <<requests, turns>>

_subscribers == Last(arrays)

Replica(sources, settings) == [sources |-> sources, settings |-> settings]

Defaults == [m \in Members |-> 0]

\* Settings are 0 (false) but for processing; the reference of the Scene looks
\* straight ahead (90 degrees, here 1), that of the renderer does not.
Nothing(orientation) ==
  Replica([id \in {} |-> Defaults],
          [s \in Settings |-> CASE s = "processing_state"      -> 1
                                [] s = "reference_orientation" -> orientation
                                [] OTHER                       -> 0])

Idle == [todo |-> <<>>, array |-> 1, next |-> 0, end |-> 0]

\* The controller's constructor subscribes the scene and the renderer.
Init ==
  /\ scene = Nothing(1) /\ renderer = Nothing(0)
  /\ _highest_id = 0
  /\ client = [c \in Clients |-> Nothing(0)]
  /\ _source_levels = [c \in Clients |-> {}]
  /\ arrays = << <<"scene", "renderer">> >>
  /\ thread = [t \in Threads |-> Idle]
  /\ locked = FALSE
  /\ link = [c \in Clients |-> "none"]
  /\ whole_scene = Nothing(0)
  /\ requests = 0 /\ turns = 0
  /\ agreed = Settings \ {"reference_orientation"}
  /\ overlapped = {}

------------------------------------------------------------------------------
(* What is published, and what a subscriber does with it                   *)

Call(op, id, what, value) == [op |-> op, id |-> id, what |-> what, value |-> value]

SetMember(id, m, value) == Call("member", id, m, value)

\* Of the members and settings, those a subscriber does not ignore.
RendererUses == {"position", "orientation", "gain", "mute", "model",
                 "reference_position", "reference_orientation", "master_volume",
                 "processing_state", "amplitude_reference_distance"}
ClientIsTold == {"position", "position_fixed", "orientation", "gain", "mute",
                 "model", "file_length", "reference_position",
                 "reference_orientation", "master_volume"}

WithSource(r, id) ==
  [r EXCEPT !.sources = [i \in DOMAIN @ \cup {id} |->
                           IF i \in DOMAIN r.sources THEN r.sources[i] ELSE Defaults]]

WithoutSources(r, ids) ==
  [r EXCEPT !.sources = [i \in DOMAIN @ \ ids |-> r.sources[i]]]

\* _set_source_member(): a source that does not exist is not changed.
WithMember(r, call) ==
  IF call.id \in DOMAIN r.sources
  THEN [r EXCEPT !.sources[call.id][call.what] = call.value] ELSE r

WithSetting(r, call) == [r EXCEPT !.settings[call.what] = call.value]

\* The Scene has an element for everything.
Applied(r, call) ==
  CASE call.op = "new_source"         -> WithSource(r, call.id)
    [] call.op = "delete_source"      -> WithoutSources(r, {call.id})
    [] call.op = "delete_all_sources" -> WithoutSources(r, Ids)
    [] call.op = "member"             -> WithMember(r, call)
    [] call.op = "setting"            -> WithSetting(r, call)
    [] call.op = "level"              -> r

\* A client cannot tell the message of new_source() from a change.
AppliedByClient(r, call) ==
  IF call.op = "member"
  THEN IF call.what \in ClientIsTold THEN WithMember(WithSource(r, call.id), call) ELSE r
  ELSE IF call.op = "setting" /\ call.what \notin ClientIsTold THEN r
  ELSE Applied(r, call)

------------------------------------------------------------------------------
(* _publish(): a loop over _subscribers.  Its iterators are obtained once;  *)
(* they refer to the array that is then in use.                            *)

Operations == {"add", "move", "start", "stop", "scene_setting"}

Busy(t) == thread[t].todo # <<>>
Publishing(t) == Busy(t) /\ Head(thread[t].todo).op \notin Operations
InLoop(t) == thread[t].next > 0

CurrentCall(t) == Head(thread[t].todo)

BeginLoop(t) ==
  /\ Publishing(t)
  /\ ~ InLoop(t)
  /\ thread' = [thread EXCEPT ![t].array = Len(arrays), ![t].next = 1,
                              ![t].end = Len(_subscribers)]
  /\ agreed' = IF CurrentCall(t).op # "setting" THEN agreed
               ELSE IF \E u \in Threads : InLoop(u) /\ CurrentCall(u).what = CurrentCall(t).what
               THEN agreed \ {CurrentCall(t).what}
               ELSE agreed \cup {CurrentCall(t).what}
  /\ overlapped' = IF t = "network" THEN overlapped
                   ELSE overlapped \cup { c \in Clients : link[c] \in {"subscribed", "reading"} }
  /\ UNCHANGED <<replicas, arrays, link, whole_scene, locked, bounded>>

Current(t) == arrays[thread[t].array][thread[t].next]

\* The loop goes on, or the call was published completely.
Advance(t) ==
  LET loop == thread[t]
  IN  thread' = [thread EXCEPT ![t] = IF loop.next < loop.end THEN [loop EXCEPT !.next = @ + 1]
                                      ELSE [Idle EXCEPT !.todo = Tail(loop.todo)]]

ToScene(t) ==
  /\ Publishing(t) /\ InLoop(t)
  /\ Current(t) = "scene"
  /\ scene' = Applied(scene, CurrentCall(t))
  /\ Advance(t)
  /\ UNCHANGED <<renderer, _highest_id, client, _source_levels,
                 subscription, locked, bounded, agreed>>

\* Mutant: the renderer's sources can be changed while the query thread
\* publishes their levels.
Mutant_LockIsFree(call) == TRUE

LockIsFree(call) ==
  \/ ~ locked
  \/ call.what \in Members \cup Settings /\ call.what \notin RendererUses
  \/ call.op \in {"new_source", "level"}

\* Each function of RenderSubscriber takes the lock, except those that do
\* nothing.  rem_all_sources() takes it for each source.
ToRenderer(t) ==
  /\ Publishing(t) /\ InLoop(t)
  /\ Current(t) = "renderer"
  /\ LET call == CurrentCall(t)
         ids == DOMAIN renderer.sources
     IN  /\ LockIsFree(call)
         /\ \/ /\ call.op = "delete_all_sources" /\ ids # {}
               /\ \E id \in ids : /\ \A i \in ids : id <= i
                                  /\ renderer' = WithoutSources(renderer, {id})
               /\ UNCHANGED <<_highest_id, thread>>
            \/ /\ call.op = "delete_all_sources" /\ ids = {}
               /\ _highest_id' = 0
               /\ Advance(t)
               /\ UNCHANGED renderer
            \/ /\ call.op \in {"delete_source", "member", "setting"}
               /\ renderer' = IF call.op = "delete_source" \/ call.what \in RendererUses
                              THEN Applied(renderer, call) ELSE renderer
               /\ Advance(t)
               /\ UNCHANGED _highest_id
            \/ /\ call.op \in {"new_source", "level"}
               /\ Advance(t)
               /\ UNCHANGED <<renderer, _highest_id>>
  /\ UNCHANGED <<scene, client, _source_levels, subscription, locked, bounded,
                 agreed>>

\* A NetworkSubscriber sends a message at once, but levels only later.
ToClient(t) ==
  /\ Publishing(t) /\ InLoop(t)
  /\ Current(t) \in Clients
  /\ LET c == Current(t)
         call == CurrentCall(t)
     IN  \/ /\ link[c] # "gone"
            /\ client' = [client EXCEPT ![c] = AppliedByClient(@, call)]
            /\ _source_levels' = [_source_levels EXCEPT ![c] =
                 CASE call.op = "level"              -> @ \cup {call.id}
                   [] call.op = "delete_source"      -> @ \ {call.id}
                   [] call.op = "delete_all_sources" -> {}
                   [] OTHER                          -> @]
         \/ \* A call of a deleted object has no defined behaviour.  If it has an effect
            \* on other state, or aborts, this is where the behaviour ends.
            /\ link[c] = "gone"
            /\ UNCHANGED <<client, _source_levels>>
  /\ Advance(t)
  /\ UNCHANGED <<scene, renderer, _highest_id, subscription, locked, bounded, agreed>>

------------------------------------------------------------------------------
(* The network thread: requests.  What a function of the controller does is *)
(* a sequence of calls to publish; between these are operations, which read *)
(* the scene or change something when their turn comes.                    *)

NetworkIsFree ==
  /\ ~ Busy("network")
  /\ \A c \in Clients : link[c] \in {"none", "up", "gone"}

ToDo(t, calls) == thread' = [thread EXCEPT ![t].todo = calls]
Instead(calls) == ToDo("network", calls \o Tail(thread["network"].todo))

\* new_source(): mute while transmitting data, finally unmute if requested.  All
\* members are requested to have the same value.
Transmission(id, value) ==
  LET given(m) == IF m \in Members THEN <<SetMember(id, m, value)>> ELSE <<>>
  IN  <<Call("new_source", id, "", 0), SetMember(id, "mute", 1)>>
      \o given("gain") \o given("position") \o given("position_fixed")
      \o given("orientation") \o given("name") \o given("model")
      \o given("port_name") \o given("file_name") \o given("file_channel")
      \o given("file_length") \o given("properties_file")
      \o <<SetMember(id, "mute", value)>>

\* Mutant: all are told of a source that the renderer has refused.
Mutant_new_source ==
  /\ CurrentCall("network").op = "add"
  /\ ~ locked /\ _highest_id < MaxId
  /\ _highest_id' = _highest_id + 1
  /\ \/ renderer' = WithSource(renderer, _highest_id + 1)
     \/ UNCHANGED renderer
  /\ Instead(Transmission(_highest_id + 1, CurrentCall("network").value))
  /\ UNCHANGED <<scene, agreed>>

\* The renderer adds the source before anybody is told, or refuses it; the ID
\* is used up.
new_source ==
  /\ CurrentCall("network").op = "add"
  /\ ~ locked
  /\ _highest_id' = IF _highest_id < MaxId THEN _highest_id + 1 ELSE MaxId
  /\ \/ /\ _highest_id < MaxId
        /\ renderer' = WithSource(renderer, _highest_id + 1)
        /\ Instead(Transmission(_highest_id + 1, CurrentCall("network").value))
     \/ UNCHANGED renderer /\ Instead(<<>>)
  /\ UNCHANGED <<scene, agreed>>

get_source_position_fixed(id) ==
  id \in DOMAIN scene.sources /\ scene.sources[id]["position_fixed"] = 1

\* Only a source that is not fixed may be moved.
set_source_position ==
  LET call == CurrentCall("network")
  IN  /\ call.op = "move"
      /\ \/ get_source_position_fixed(call.id) /\ Instead(<<>>)
         \/ /\ ~ get_source_position_fixed(call.id)
            /\ Instead(<<SetMember(call.id, "position", call.value)>>)
      /\ UNCHANGED <<scene, renderer, _highest_id, agreed>>

\* start_ and stop_processing() do nothing if the scene has that state already.
set_processing_state ==
  LET state == IF CurrentCall("network").op = "start" THEN 1 ELSE 0
  IN  /\ CurrentCall("network").op \in {"start", "stop"}
      /\ Instead(IF scene.settings["processing_state"] = state THEN <<>>
                 ELSE <<Call("setting", 0, "processing_state", state)>>)
      /\ UNCHANGED <<scene, renderer, _highest_id, agreed>>

\* load_scene() calls a function of the Scene itself, and publishes nothing.
set_in_scene ==
  LET call == CurrentCall("network")
  IN  /\ call.op = "scene_setting"
      /\ scene' = WithSetting(scene, call)
      /\ agreed' = agreed \ {call.what}
      /\ Instead(<<>>)
      /\ UNCHANGED <<renderer, _highest_id>>

Operation ==
  /\ Busy("network")
  /\ new_source \/ set_source_position \/ set_processing_state \/ set_in_scene
  /\ UNCHANGED <<client, _source_levels, subscription, locked, bounded>>

Setting(s, value) == Call("setting", 0, s, value)

\* load_scene(): a file has given values for the settings and the sources.  With
\* no file, or one that cannot be used, the scene remains empty and stopped.
load_scene(req) ==
  LET given(call) == IF call.what \in Settings THEN <<call>> ELSE <<>>
  IN  <<Call("stop", 0, "", 0), Call("delete_all_sources", 0, "", 0)>>
      \o IF req.op # "load_scene" THEN <<>>
         ELSE given(Setting("master_volume", req.value))
              \o given(Call("scene_setting", 0, "amplitude_reference_distance", req.value))
              \o given(Setting("reference_position", req.value))
              \o given(Setting("reference_orientation", req.value))
              \o [n \in 1 .. req.id |-> Call("add", 0, "", req.value)]
              \o <<Call("start", 0, "", 0)>>

\* A removal of an ID the renderer does not know is left to SourceLifecycle.
Allowed(req) == req.op = "delete_source" => req.id \in DOMAIN renderer.sources

Request ==
  /\ NetworkIsFree
  /\ \E c \in Clients : link[c] = "up"
  /\ requests < MaxRequests
  /\ requests' = requests + 1
  /\ \E req \in Requests :
       /\ Allowed(req)
       /\ ToDo("network", IF req.op \in {"load_scene", "load_nothing"}
                          THEN load_scene(req) ELSE <<req>>)
  /\ UNCHANGED <<replicas, subscription, locked, turns, agreed>>

------------------------------------------------------------------------------
(* The network thread: connections                                         *)

OthersInLoop == \E t \in Threads \ {"network"} : InLoop(t)

\* A vector whose size is a power of two is full.
Full(n) == \E k \in 0 .. n : n = 2 ^ k

\* subscribe(): push_back(), which moves a full vector to a new array.
subscribe(c) ==
  /\ arrays' = IF Full(Len(_subscribers))
               THEN Append(arrays, Append(_subscribers, c))
               ELSE [arrays EXCEPT ![Len(arrays)] = Append(@, c)]
  /\ overlapped' = IF OthersInLoop THEN overlapped \cup {c} ELSE overlapped

\* Connection::start(): subscribe, ...
Connect(c) ==
  /\ NetworkIsFree
  /\ link[c] = "none"
  /\ subscribe(c)
  /\ link' = [link EXCEPT ![c] = "subscribed"]
  /\ UNCHANGED <<replicas, thread, locked, whole_scene, bounded, agreed>>

\* Mutant: the sources are left out.
Mutant_get_scene_as_XML(c) ==
  /\ link[c] = "subscribed"
  /\ whole_scene' = [Nothing(0) EXCEPT !.settings = scene.settings]
  /\ link' = [link EXCEPT ![c] = "reading"]
  /\ UNCHANGED <<replicas, thread, arrays, locked, bounded, agreed, overlapped>>

\* ... get_scene_as_XML(), ...
get_scene_as_XML(c) ==
  /\ link[c] = "subscribed"
  /\ whole_scene' = scene
  /\ link' = [link EXCEPT ![c] = "reading"]
  /\ UNCHANGED <<replicas, thread, arrays, locked, bounded, agreed, overlapped>>

\* ... and write() it, after anything another thread has sent since.
WriteScene(c) ==
  /\ link[c] = "reading"
  /\ client' = [client EXCEPT ![c] =
       Replica([id \in DOMAIN whole_scene.sources \cup DOMAIN @.sources |->
                  IF id \in DOMAIN whole_scene.sources THEN whole_scene.sources[id]
                  ELSE client[c].sources[id]],
               whole_scene.settings)]
  /\ link' = [link EXCEPT ![c] = "up"]
  /\ overlapped' = IF OthersInLoop THEN overlapped \cup {c} ELSE overlapped
  /\ whole_scene' = Nothing(0)
  /\ UNCHANGED <<scene, renderer, _highest_id, _source_levels, thread, arrays,
                 locked, bounded, agreed>>

\* std::remove() without erase(): the others move forward by one place for each c
\* before them, and the size remains; places that nothing moves to keep their values.
Removed(s, c) ==
  LET place(k) == k - Cardinality({ j \in 1 .. k - 1 : s[j] = c })
      moved(n) == { k \in DOMAIN s : s[k] # c /\ place(k) = n }
  IN  [n \in DOMAIN s |-> IF moved(n) = {} THEN s[n] ELSE s[CHOOSE k \in moved(n) : TRUE]]

\* The destructor of a Connection unsubscribes.
Disconnect(c) ==
  /\ NetworkIsFree
  /\ link[c] = "up"
  /\ arrays' = [arrays EXCEPT ![Len(arrays)] = Removed(@, c)]
  /\ link' = [link EXCEPT ![c] = "gone"]
  /\ overlapped' = IF OthersInLoop THEN Clients ELSE overlapped
  /\ UNCHANGED <<replicas, thread, locked, whole_scene, bounded, agreed>>

------------------------------------------------------------------------------
(* The other threads                                                       *)

\* The tracker reports an orientation of the head.
set_reference_orientation ==
  /\ ~ Busy("tracker")
  /\ turns < MaxTurns
  /\ turns' = turns + 1
  /\ \E value \in Orientations :
       ToDo("tracker", <<Setting("reference_orientation", value)>>)
  /\ UNCHANGED <<replicas, subscription, locked, requests, agreed>>

\* The k-th ID in a map.
Nth(ids, k) == CHOOSE id \in ids : Cardinality({ i \in ids : i <= id }) = k

\* query_state::update(): the levels of the sources in the renderer's map, all
\* under the lock.
update ==
  /\ ~ Busy("query")
  /\ ~ locked
  /\ DOMAIN renderer.sources # {}
  /\ locked' = TRUE
  /\ ToDo("query", [k \in 1 .. Cardinality(DOMAIN renderer.sources) |->
       Call("level", Nth(DOMAIN renderer.sources, k), "", 0)])
  /\ UNCHANGED <<replicas, subscription, bounded, agreed>>

Unlock ==
  /\ locked
  /\ ~ Busy("query")
  /\ locked' = FALSE
  /\ UNCHANGED <<replicas, subscription, thread, bounded, agreed>>

Next ==
  \/ \E t \in Threads : BeginLoop(t) \/ ToScene(t) \/ ToRenderer(t) \/ ToClient(t)
  \/ Request \/ Operation
  \/ \E c \in Clients : Connect(c) \/ get_scene_as_XML(c) \/ WriteScene(c) \/ Disconnect(c)
  \/ set_reference_orientation \/ update \/ Unlock

Spec == Init /\ [][Next]_vars

------------------------------------------------------------------------------
(* Properties                                                              *)

Replicas == [sources : UNION { [ids -> [Members -> Values]] : ids \in SUBSET Ids },
             settings : [Settings -> Values]]

Calls == [op : {"new_source", "delete_source", "delete_all_sources", "member",
                "setting", "level"} \cup Operations,
          id : 0 .. MaxId, what : Members \cup Settings \cup {""}, value : Values]

\* Types of all variables; a loop ends within its array.
TypeOK ==
  /\ {scene, renderer, whole_scene} \subseteq Replicas
  /\ _highest_id \in 0 .. MaxId
  /\ client \in [Clients -> Replicas]
  /\ _source_levels \in [Clients -> SUBSET Ids]
  /\ \A n \in DOMAIN arrays : arrays[n] \in Seq(Subscribers)
  /\ \A t \in Threads :
       /\ thread[t].todo \in Seq(Calls)
       /\ thread[t].array \in DOMAIN arrays
       /\ thread[t].next \in 0 .. thread[t].end
       /\ thread[t].end \in 0 .. Len(arrays[thread[t].array])
  /\ locked \in BOOLEAN
  /\ link \in [Clients -> {"none", "subscribed", "reading", "up", "gone"}]
  /\ requests \in 0 .. MaxRequests /\ turns \in 0 .. MaxTurns
  /\ overlapped \subseteq Clients /\ agreed \subseteq Settings

CallsOfExistence == {"new_source", "delete_source", "delete_all_sources"}

\* The calls that are just being published, and all that are still to be published.
InProgress == { CurrentCall(t) : t \in { u \in Threads : Publishing(u) } }
Outstanding == UNION { ToSet(thread[t].todo) : t \in Threads }

\* Two replicas agree on the sources that exist, on what both know of them, and
\* on the settings, except for what the given calls are about.
Agree(r1, r2, members, settings, calls) ==
  /\ \A id \in Ids :
       \/ \E call \in calls : call.op \in CallsOfExistence /\ call.id \in {0, id}
       \/ /\ id \in DOMAIN r1.sources <=> id \in DOMAIN r2.sources
          /\ id \in DOMAIN r1.sources =>
               \A m \in members : \/ r1.sources[id][m] = r2.sources[id][m]
                                  \/ \E call \in calls : call.id = id /\ call.what = m
  /\ \A s \in settings : \/ r1.settings[s] = r2.settings[s]
                          \/ \E call \in calls : call.what = s

\* The scene (what the GUI, files and the network show) and the renderer (what is
\* heard) never differ but in the one call that a thread is just publishing, and
\* in settings that two threads were publishing at once, or the renderer was not told.
RendererFollowsScene ==
  Agree(scene, renderer, Members \cap RendererUses,
        Settings \cap RendererUses \cap agreed, InProgress)

\* A client that joins, in any state, gets the whole scene once and then every
\* change: it has what the scene has, except for what is still to be
\* published.  If another thread published meanwhile it may keep an older
\* orientation of the reference.  Sources that exist at the client only were
\* named in requests when they did not exist.
ClientsFollowScene ==
  \A c \in Clients : link[c] = "up" =>
    LET known == [client[c] EXCEPT !.sources =
                    [id \in DOMAIN @ \cap DOMAIN scene.sources |-> @[id]]]
        settings == IF c \in overlapped THEN agreed \ {"reference_orientation"} ELSE agreed
    IN  Agree(scene, known, Members \cap ClientIsTold,
              settings \cap ClientIsTold, Outstanding)

\* No connection goes on sending the level of a source that was deleted: the
\* query thread may publish levels at any time, but the renderer comes before the
\* connections in _subscribers, and it waits for the lock.
LevelsOfSources ==
  ~ Busy("network") =>
    \A c \in Clients : link[c] = "up" => _source_levels[c] \subseteq DOMAIN scene.sources

\* A source whose position is fixed does not move.
FixedStays ==
  [][ \A id \in DOMAIN scene.sources :
        scene.sources[id]["position_fixed"] = 1 /\ id \in DOMAIN scene'.sources
          => scene'.sources[id]["position"] = scene.sources[id]["position"] ]_vars

\* Whoever has unsubscribed is not among the subscribers any more.
NotSubscribedWhenGone ==
  \A c \in Clients : link[c] = "gone" => c \notin ToSet(_subscribers)
==============================================================================
