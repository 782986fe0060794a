-------------------------------- MODULE Queries --------------------------------
(***************************************************************************)
(* How the levels of the sources get from the realtime thread to everybody *)
(* who shows them: Controller::query_state, one QueryCommand of            *)
(* MimoProcessor that is executed in every cycle and cleaned up, and pushed *)
(* again, by the query thread.                                             *)
(*                                                                         *)
(* query() reads the levels of the sources in the renderer's list, in the  *)
(* realtime thread; update() publishes them for the sources in the         *)
(* renderer's map, under the lock.  The list lags behind the map by the    *)
(* commands that are under way.  Positions connect the two: there is no ID *)
(* in the list.                                                            *)
(***************************************************************************)
EXTENDS Integers, Sequences, SequencesExt

CONSTANTS MaxSources,   \* bound: sources that are ever made
          Addresses     \* where the memory for a source can be

ASSUME MaxSourcesAssumption == MaxSources \in Nat
ASSUME AddressesAssumption == "none" \notin Addresses

VARIABLES
  _source_map,      \* the sources that clients know, in the order of their IDs
  highest_id,
  made,             \* how many sources were made
  _source_list,     \* the sources that the realtime thread knows
  pending,          \* commands that add to it or remove from it
  query_command,    \* where the QueryCommand is: "pushed" or "executed"
  _source_levels,   \* the source that each level was read from; 0: none yet
  _discard_source_levels,
  _last_source,     \* address of the last source in the list, or "none"
  published,        \* history: what update() has published since query()
  reused            \* history: since query() a source was made at _last_source

queries == <<_source_map, highest_id, made, _source_list, pending, query_command,
             _source_levels, _discard_source_levels, _last_source, published, reused>>

QueriesInit ==
  /\ _source_map = <<>> /\ highest_id = 0 /\ made = 0
  /\ _source_list = <<>> /\ pending = <<>>
  /\ query_command = "pushed"
  /\ _source_levels = <<>> /\ _discard_source_levels = TRUE /\ _last_source = "none"
  /\ published = {}
  /\ reused = FALSE

\* Memory that is used for a source until its removal has been cleaned up, which
\* is the first thing push() does.
InUse == { s.address : s \in ToSet(_source_map) \cup ToSet(_source_list)
                             \cup { cmd.source : cmd \in ToSet(pending) } }

\* std::find() and splice(): whatever is removed is there, otherwise RemCommand throws.
Without(s, source) == RemoveAt(s, CHOOSE k \in DOMAIN s : s[k] = source)

\* add_source() and rem_source() have the lock until the map has been changed and the
\* command pushed.
AddSource ==
  /\ made < MaxSources
  /\ \E address \in Addresses \ InUse :
       LET source == [n |-> made + 1, id |-> highest_id + 1, address |-> address]
       IN  /\ _source_map' = Append(_source_map, source)
           /\ pending' = Append(pending, [op |-> "add", source |-> source])
           /\ reused' = (reused \/ address = _last_source)
  /\ made' = made + 1 /\ highest_id' = highest_id + 1
  /\ UNCHANGED <<_source_list, query_command, _source_levels, _discard_source_levels,
                 _last_source, published>>

RemSource ==
  /\ \E source \in ToSet(_source_map) :
       /\ _source_map' = Without(_source_map, source)
       /\ pending' = Append(pending, [op |-> "rem", source |-> source])
  /\ UNCHANGED <<highest_id, made, _source_list, query_command, _source_levels,
                 _discard_source_levels, _last_source, published, reused>>

\* rem_all_sources() ends with this; the IDs start again.
ResetIds ==
  /\ _source_map = <<>> /\ highest_id > 0
  /\ highest_id' = 0
  /\ UNCHANGED <<_source_map, made, _source_list, pending, query_command, _source_levels,
                 _discard_source_levels, _last_source, published, reused>>

\* The realtime thread executes a command of the lists.
ExecuteCommand ==
  /\ pending # <<>>
  /\ LET cmd == Head(pending)
     IN  _source_list' = IF cmd.op = "add" THEN Append(_source_list, cmd.source)
                         ELSE Without(_source_list, cmd.source)
  /\ pending' = Tail(pending)
  /\ UNCHANGED <<_source_map, highest_id, made, query_command, _source_levels,
                 _discard_source_levels, _last_source, published, reused>>

\* The realtime thread reads the levels, if it has room for exactly so many.
query ==
  /\ query_command = "pushed"
  /\ query_command' = "executed"
  /\ IF Len(_source_levels) = Len(_source_list)
     THEN /\ _source_levels' = [k \in DOMAIN _source_list |-> _source_list[k].n]
          /\ _last_source' = IF _source_list = <<>> THEN "none" ELSE Last(_source_list).address
          /\ _discard_source_levels' = FALSE
     ELSE /\ _discard_source_levels' = TRUE
          /\ _last_source' = "none"
          /\ UNCHANGED _source_levels
  /\ published' = {} /\ reused' = FALSE
  /\ UNCHANGED <<_source_map, highest_id, made, _source_list, pending>>

\* Mutant: the number of sources is compared, and not the last one.
Mutant_SameSources ==
  /\ ~ _discard_source_levels
  /\ Len(_source_levels) = Len(_source_map)

SameSources ==
  /\ ~ _discard_source_levels
  /\ Len(_source_levels) = Len(_source_map)
  /\ _source_map # <<>> => _last_source = Last(_source_map).address

\* _set_source_signal_levels(): each level, and the levels of the outputs that
\* belong to it, for the source at the same position.
Published(levels, sources) ==
  { [of |-> levels[k], for |-> sources[k].n] : k \in DOMAIN sources }

\* The query thread publishes the levels, makes room for as many as are needed now,
\* and pushes the query again.
UpdateLevels ==
  /\ query_command = "executed"
  /\ query_command' = "pushed"
  /\ published' = IF SameSources THEN Published(_source_levels, _source_map) ELSE {}
  /\ _source_levels' = [k \in DOMAIN _source_map |->
                          IF k \in DOMAIN _source_levels THEN _source_levels[k] ELSE 0]
  /\ UNCHANGED <<_source_map, highest_id, made, _source_list, pending,
                 _discard_source_levels, _last_source, reused>>

QueriesNext ==
  \/ AddSource \/ RemSource \/ ResetIds
  \/ ExecuteCommand \/ query \/ UpdateLevels

QueriesSpec == QueriesInit /\ [][QueriesNext]_queries

\* A level is published for the source it was read from, although sources come and
\* go between query() and update(), and the list lags behind the map ("To check the
\* size is not sufficient, we also check the last element", controller.h:469).
\* Where a new source has got the memory of the last one that was read, the check
\* cannot tell the two, and one round of levels may go to the wrong sources.
LevelsBelong ==
  \A p \in published : p.of = p.for \/ reused
==============================================================================
