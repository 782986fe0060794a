---------------------------- MODULE MCPublication ----------------------------
(* Two connections, IDs 1 and 2; sources with one member beside the ones the *)
(* controller itself looks at.  Requests for a source that may not exist; a  *)
(* file with one source.                                                     *)
EXTENDS Publication

SomeRequests ==
  { Call("add", 0, "", 1),
    Call("delete_source", 1, "", 0), Call("move", 1, "position", 0),
    Call("load_scene", 1, "", 1), Call("load_nothing", 0, "", 0) }

AnyClient == Permutations(Clients)
==============================================================================
