------------------------ MODULE SourceLifecycleProofs ------------------------
(***************************************************************************)
(* The realtime thread is safe for every number of clients, of sources and *)
(* of places in the queue; and with one controller, the lists settle and   *)
(* delete_all_sources() returns when all is gone.                          *)
(*                                                                         *)
(* A source goes through stages: its input is in the list (1), it is in    *)
(* the list itself (2), the outputs know it (3), and back.  Every command  *)
(* belongs to one step from stage to stage.  The invariant follows the     *)
(* commands of each source through the queue: each of them begins at the   *)
(* stage where the one before it ends, the first one at the stage that the *)
(* lists show, and whoever is about to push continues at the last.         *)
(***************************************************************************)
EXTENDS SourceLifecycle, TLAPS

\* The order in which a source's commands are pushed; only "set" may be repeated.
Rank(op) ==
  CASE op = "add_input" -> 1
    [] op = "add_source" -> 2
    [] op = "connect" -> 3
    [] op = "set" -> 4
    [] op = "disconnect" -> 5
    [] op = "rem_source" -> 6
    [] op = "rem_input" -> 7

MayFollow(early, late) == Rank(early) < Rank(late) \/ (early = "set" /\ late = "set")

\* The stage a command needs, and the one it leads to.
Before(op) ==
  CASE op \in {"add_input"} -> 0
    [] op \in {"add_source", "rem_input"} -> 1
    [] op \in {"connect", "rem_source"} -> 2
    [] op \in {"set", "disconnect"} -> 3

After(op) ==
  CASE op \in {"rem_input"} -> 0
    [] op \in {"add_input", "rem_source"} -> 1
    [] op \in {"add_source", "disconnect"} -> 2
    [] op \in {"connect", "set"} -> 3

Stage(s) ==
  IF s \in connected THEN 3
  ELSE IF s \in _source_list THEN 2
  ELSE IF s \in _input_list THEN 1
  ELSE 0

\* A command for source s.
IsFor(cmd, s) == cmd.op # "wait" /\ cmd.of = s

\* Commands that were executed and not yet forgotten; all that is known.
Executed == ToSet(_out_fifo) \cup lost
Known == ToSet(_in_fifo) \cup Executed

\* The stage of a source when all that is in _in_fifo will have been executed.
Ends(s, stage) ==
  \/ /\ \A i \in 1 .. Len(_in_fifo) : ~ IsFor(_in_fifo[i], s)
     /\ Stage(s) = stage
  \/ \E i \in 1 .. Len(_in_fifo) :
       /\ IsFor(_in_fifo[i], s)
       /\ After(_in_fifo[i].op) = stage
       /\ \A k \in i + 1 .. Len(_in_fifo) : ~ IsFor(_in_fifo[k], s)

\* A command op may be the next one of source s.
MayCome(s, op) == \A cmd \in Known : IsFor(cmd, s) => MayFollow(cmd.op, op)

NestedInv ==
  /\ _input_list \subseteq inputs
  /\ _source_list \subseteq sources \cap _input_list
  /\ connected \subseteq _source_list

\* Each command in _in_fifo comes where it can be executed.
ChainInv ==
  \A s \in Sources :
    \A i \in 1 .. Len(_in_fifo) :
      IsFor(_in_fifo[i], s) =>
        /\ (\A k \in 1 .. i - 1 : ~ IsFor(_in_fifo[k], s)) => Stage(s) = Before(_in_fifo[i].op)
        /\ \A j \in 1 .. i - 1 :
             IsFor(_in_fifo[j], s) /\ (\A k \in j + 1 .. i - 1 : ~ IsFor(_in_fifo[k], s))
               => After(_in_fifo[j].op) = Before(_in_fifo[i].op)

OrderInv ==
  \A s \in Sources :
    \A i \in 1 .. Len(_in_fifo) :
      IsFor(_in_fifo[i], s) =>
        /\ \A j \in 1 .. i - 1 :
             IsFor(_in_fifo[j], s) => MayFollow(_in_fifo[j].op, _in_fifo[i].op)
        /\ \A cmd \in Executed : IsFor(cmd, s) => MayFollow(cmd.op, _in_fifo[i].op)

\* What commands have to do with objects and lists: only known sources are in
\* commands, what is still to be added exists, what was removed is not in the lists.
CreatedInv == \A cmd \in Known : cmd.op # "wait" => cmd.of <= created

AddedInv ==
  \A cmd \in ToSet(_in_fifo) : /\ cmd.op = "add_input" => cmd.of \in inputs
                               /\ cmd.op = "add_source" => cmd.of \in sources

RemovedInv ==
  \A cmd \in Executed : /\ cmd.op = "rem_input" => cmd.of \notin _input_list
                        /\ cmd.op = "rem_source" => cmd.of \notin _source_list

ObjectsInv == CreatedInv /\ AddedInv /\ RemovedInv /\ \A s \in inputs : s <= created

\* A source in the map is complete, or will be when the queue is empty.
MapInv ==
  /\ \A id \in Ids :
       _source_map[id] # 0 => /\ _source_map[id] <= created
                              /\ Ends(_source_map[id], 3)
                              /\ MayCome(_source_map[id], "set")
                              /\ _source_map[id] \in inputs \cap sources
  /\ \A id, k \in Ids : _source_map[id] = _source_map[k] => id = k \/ _source_map[id] = 0

Removal(s) ==
  { <<>>, <<Cmd("rem_input", s)>>, <<Cmd("rem_source", s), Cmd("rem_input", s)>>,
    <<Cmd("disconnect", s), Cmd("rem_source", s), Cmd("rem_input", s)>> }

\* What a client can have left to push.
Todos(c, state) ==
  CASE state.then = "construct" -> { <<>>, <<Cmd("add_input", state.source)>> }
    [] state.then = "register" -> { <<>>, <<Cmd("connect", state.source)>>,
                                    <<Cmd("add_source", state.source),
                                      Cmd("connect", state.source)>> }
    [] state.then = "poll" -> { <<>>, <<Cmd("wait", c)>> }
    [] OTHER -> Removal(state.source) \cup { <<Cmd("set", state.source)>> }

\* The command before which all commands must end that a client has pushed.
NextOp(state) ==
  IF state.todo # <<>> THEN state.todo[1].op
  ELSE IF state.then = "construct" THEN "add_source"
  ELSE "set"

AtWork(c) == client[c].at \in {"pushing", "inserting"}

\* Holds the lock, and has something left to do to its source.
Busy(c) ==
  /\ AtWork(c)
  /\ \/ client[c].then \in {"construct", "register"}
     \/ client[c].then \in {"return", "next"} /\ client[c].todo # <<>>

\* ... other than to set something.
Changes(c) == Busy(c) /\ (NextOp(client[c]) # "set" \/ client[c].then = "register")

TodoOK(c) ==
  /\ client[c].at = "get" => client[c].id \in Ids
  /\ client[c].at \in {"get", "enter", "all"} => client[c].then \in {"return", "next"}
  /\ client[c].at = "inserting" => client[c].todo # <<>>
  /\ AtWork(c) => client[c].todo \in Todos(c, client[c])

\* The source a busy client works on.
BusyOK(c) ==
  /\ client[c].source \in 1 .. created
  /\ Ends(client[c].source, Before(NextOp(client[c])))
  /\ MayCome(client[c].source, NextOp(client[c]))
  /\ client[c].source \in inputs
  /\ client[c].then = "construct" \/ NextOp(client[c]) = "rem_input"
       \/ client[c].source \in sources

ClientOK(c) ==
  /\ TodoOK(c)
  /\ Busy(c) => BusyOK(c)
  /\ Changes(c) => \A id \in Ids : _source_map[id] # client[c].source

ClientInv == \A c \in Clients : ClientOK(c)

SafetyInv ==
  /\ TypeOK /\ _highest_id <= created
  /\ NestedInv /\ ChainInv /\ OrderInv /\ ObjectsInv /\ MapInv /\ ClientInv

------------------------------------------------------------------------------
(* One controller *)

OneController == \A c, d \in Controllers : c = d

Waiting(c) == client[c].at = "poll" \/ (AtWork(c) /\ client[c].then = "poll")

\* Who is not a controller does nothing but set_source().
SetsOnly(c) ==
  /\ client[c].at \in {"idle", "pushing", "inserting"}
  /\ client[c].then = "return"
  /\ client[c].todo # <<>> => client[c].todo[1].op = "set"

\* The ID of the source that is about to be added is free.
AddsOK(c) ==
  AtWork(c) /\ client[c].then \in {"construct", "register"} =>
    client[c].id = _highest_id /\ client[c].id \in Ids /\ _source_map[client[c].id] = 0

\* Who waits has removed everything.
WaitsOK(c) == Waiting(c) => \A id \in Ids : _source_map[id] = 0

ControllerInv ==
  /\ \A c \in Clients \ Controllers : SetsOnly(c)
  /\ \A c \in Controllers : AddsOK(c) /\ WaitsOK(c)
  /\ \A id \in Ids : id > _highest_id => _source_map[id] = 0

\* A source is known, or somebody adds or removes it.
Covered(s) == s \in Mapped \/ \E c \in Clients : Changes(c) /\ client[c].source = s

\* ... and the removal of the source itself is not in the queue yet.
CoveredSource(s) ==
  \/ s \in Mapped
  \/ \E c \in Clients : /\ Changes(c) /\ client[c].source = s
                        /\ NextOp(client[c]) # "rem_input"

\* Everything else will be gone from the lists when the queue is empty, and what
\* exists besides belongs to a removal that was not cleaned up.
AccountInv ==
  /\ \A s \in 1 .. created : Covered(s) \/ Ends(s, 0)
  /\ \A s \in inputs : Covered(s) \/ Cmd("rem_input", s) \in Known
  /\ \A s \in sources : CoveredSource(s) \/ Cmd("rem_source", s) \in Known
  /\ \A cmd \in Known : /\ cmd.op = "rem_input" => cmd.of \in inputs
                        /\ cmd.op = "rem_source" => cmd.of \in sources
  /\ \A cmd \in ToSet(_out_fifo) : cmd.op \in {"rem_input", "rem_source"} => cmd \notin lost
  /\ \A s \in sources : s <= created
  /\ \A c \in Clients : AtWork(c) /\ client[c].then = "construct" => client[c].source \notin sources

\* A WaitCommand that is known belongs to somebody who waits, and it is in one
\* place at most, behind all removals.
OwnersInv ==
  \A cmd \in Known : cmd.op = "wait" =>
    /\ cmd.of \in Controllers \ done
    /\ Waiting(cmd.of)
    /\ client[cmd.of].todo = <<>>

BehindInv ==
  \A i \in 1 .. Len(_in_fifo) : _in_fifo[i].op = "wait" =>
    /\ _in_fifo[i] \notin Executed
    /\ \A j \in 1 .. Len(_in_fifo) : _in_fifo[j].op = "wait" => i = j
    /\ \A s \in inputs : \/ Cmd("rem_input", s) \in Executed
                         \/ \E j \in 1 .. i - 1 : _in_fifo[j] = Cmd("rem_input", s)

PassedInv ==
  \A cmd \in Executed : cmd.op = "wait" =>
    /\ ~ (cmd \in lost /\ cmd \in ToSet(_out_fifo))
    /\ \A s \in inputs : Cmd("rem_input", s) \in Executed

DoneInv ==
  \A c \in done \cap Controllers : Waiting(c) =>
    /\ client[c].todo = <<>>
    /\ \A s \in inputs : Cmd("rem_input", s) \in lost

WaitInv == OwnersInv /\ BehindInv /\ PassedInv /\ DoneInv

SettlingInv == ControllerInv /\ AccountInv /\ WaitInv

------------------------------------------------------------------------------
(* The commands *)

LEMMA Ops ==
  ASSUME NEW op \in SourceOps
  PROVE  /\ Rank(op) \in 1 .. 7
         /\ Before(op) \in 0 .. 3 /\ After(op) \in 0 .. 3
         /\ op # "wait"
         /\ ~ MayFollow("rem_input", op)
         /\ op # "rem_input" => ~ MayFollow("rem_source", op)
BY DEF SourceOps, Rank, Before, After, MayFollow

LEMMA CommandTypes ==
  ASSUME NEW cmd \in Commands
  PROVE  /\ cmd = [op |-> cmd.op, of |-> cmd.of]
         /\ cmd.op # "wait" => cmd.op \in SourceOps /\ cmd.of \in Sources
         /\ cmd.op = "wait" => cmd.of \in Clients
BY DEF Commands, SourceOps

\* The sequences that represent the FIFOs.
LEMMA ToSets ==
  ASSUME NEW S, NEW seq \in Seq(S)
  PROVE  /\ ToSet(seq) \subseteq S
         /\ \A i \in 1 .. Len(seq) : seq[i] \in ToSet(seq) /\ seq[i] \in S
         /\ \A x \in ToSet(seq) : \E i \in 1 .. Len(seq) : x = seq[i]
         /\ \A x \in S : /\ ToSet(Append(seq, x)) = ToSet(seq) \cup {x}
                         /\ Append(seq, x) \in Seq(S)
                         /\ Len(Append(seq, x)) = Len(seq) + 1
                         /\ Append(seq, x)[Len(seq) + 1] = x
                         /\ \A i \in 1 .. Len(seq) : Append(seq, x)[i] = seq[i]
         /\ seq # <<>> => /\ Len(seq) >= 1
                          /\ Head(seq) = seq[1]
                          /\ Tail(seq) \in Seq(S)
                          /\ Len(Tail(seq)) = Len(seq) - 1
                          /\ \A i \in 1 .. Len(seq) - 1 : Tail(seq)[i] = seq[i + 1]
                          /\ ToSet(seq) = ToSet(Tail(seq)) \cup {Head(seq)}
<1>1. \A s \in Seq(S) : ToSet(s) = { s[i] : i \in 1 .. Len(s) }
  BY DEF ToSet
<1>2. \A x \in S : /\ Append(seq, x) \in Seq(S)
                   /\ Len(Append(seq, x)) = Len(seq) + 1
                   /\ Append(seq, x)[Len(seq) + 1] = x
                   /\ \A i \in 1 .. Len(seq) : Append(seq, x)[i] = seq[i]
  OBVIOUS
<1>3. \A x \in S : ToSet(Append(seq, x)) = ToSet(seq) \cup {x}
  <2> SUFFICES ASSUME NEW x \in S
               PROVE  ToSet(Append(seq, x)) = ToSet(seq) \cup {x}
    OBVIOUS
  <2> DEFINE longer == Append(seq, x)
  <2>1. /\ ToSet(longer) = { longer[i] : i \in 1 .. Len(longer) }
        /\ ToSet(seq) = { seq[i] : i \in 1 .. Len(seq) }
    BY <1>1, <1>2
  <2>2. Len(seq) \in Nat /\ Len(longer) = Len(seq) + 1
    BY <1>2
  <2>3. \A y \in ToSet(seq) \cup {x} : y \in ToSet(longer)
    BY <2>1, <2>2, <1>2
  <2>4. \A y \in ToSet(longer) : y \in ToSet(seq) \cup {x}
    BY <2>1, <2>2, <1>2
  <2> QED
    BY <2>3, <2>4
<1>4. ASSUME seq # <<>>
      PROVE  /\ Len(seq) >= 1
             /\ Head(seq) = seq[1]
             /\ Tail(seq) \in Seq(S)
             /\ Len(Tail(seq)) = Len(seq) - 1
             /\ \A i \in 1 .. Len(seq) - 1 : Tail(seq)[i] = seq[i + 1]
  BY <1>4
<1>5. ASSUME seq # <<>>
      PROVE  ToSet(seq) = ToSet(Tail(seq)) \cup {Head(seq)}
  <2> DEFINE rest == Tail(seq)
  <2>1. /\ ToSet(rest) = { rest[i] : i \in 1 .. Len(rest) }
        /\ ToSet(seq) = { seq[i] : i \in 1 .. Len(seq) }
    BY <1>1, <1>4, <1>5
  <2>2. Len(seq) \in Nat /\ Len(rest) = Len(seq) - 1 /\ Len(seq) >= 1
    BY <1>4, <1>5
  <2>3. ASSUME NEW y \in ToSet(seq)
        PROVE  y \in ToSet(rest) \cup {Head(seq)}
    <3>1. PICK i \in 1 .. Len(seq) : y = seq[i]
      BY <2>1
    <3>2. CASE i = 1
      BY <3>1, <3>2, <1>4, <1>5
    <3>3. CASE i # 1
      <4>1. i - 1 \in 1 .. Len(rest) /\ rest[i - 1] = seq[i]
        BY <3>3, <2>2, <1>4, <1>5
      <4> QED
        BY <4>1, <3>1, <2>1
    <3> QED
      BY <3>2, <3>3
  <2>4. \A y \in ToSet(rest) \cup {Head(seq)} : y \in ToSet(seq)
    BY <2>1, <2>2, <1>4, <1>5
  <2> QED
    BY <2>3, <2>4
<1> QED
  BY <1>1, <1>2, <1>3, <1>4, <1>5

------------------------------------------------------------------------------
(* The queue *)

\* What no step of the realtime thread and no push changes.
LEMMA QueueStays ==
  ASSUME UNCHANGED <<_in_fifo, lists>>, Executed' \subseteq Executed
  PROVE  /\ Known' \subseteq Known
         /\ \A s, stage : Ends(s, stage)' = Ends(s, stage)
         /\ \A s, op : MayCome(s, op) => MayCome(s, op)'
         /\ ChainInv => ChainInv'
         /\ OrderInv => OrderInv'
<1> USE DEF lists
<1>1. Known' \subseteq Known
  BY DEF Known
<1>2. \A s : Stage(s)' = Stage(s)
  BY DEF Stage
<1>3. \A s, stage : Ends(s, stage)' = Ends(s, stage)
  BY <1>2 DEF Ends
<1>4. \A s, op : MayCome(s, op) => MayCome(s, op)'
  BY <1>1 DEF MayCome
<1>5. ChainInv => ChainInv'
  BY <1>2 DEF ChainInv
<1>6. OrderInv => OrderInv'
  BY DEF OrderInv
<1> QED
  BY <1>1, <1>3, <1>4, <1>5, <1>6

\* What one command does: it finds its source at the stage it needs, and leads
\* to the next one.
LEMMA StageStep ==
  ASSUME TypeOK, NestedInv, ChainInv, Execute
  PROVE  LET cmd == Head(_in_fifo)
         IN  /\ cmd = _in_fifo[1]
             /\ cmd \in Commands
             /\ cmd.op # "wait" => cmd.op \in SourceOps
             /\ \A s \in Sources :
                  IF IsFor(cmd, s) THEN Stage(s) = Before(cmd.op) /\ Stage(s)' = After(cmd.op)
                  ELSE Stage(s)' = Stage(s)
             /\ connected' \subseteq _source_list'
             /\ _source_list' \subseteq _input_list'
<1> DEFINE cmd == Head(_in_fifo)
<1>1. _in_fifo \in Seq(Commands) /\ _in_fifo # <<>>
  BY DEF TypeOK, Execute
<1>2. cmd = _in_fifo[1] /\ Len(_in_fifo) >= 1 /\ cmd \in Commands
  BY <1>1, ToSets
<1>3. cmd.op # "wait" => cmd.op \in SourceOps /\ cmd.of \in Sources
  BY <1>2, CommandTypes
<1>4. \A s \in Sources : IsFor(cmd, s) => Stage(s) = Before(cmd.op)
  <2>1. 1 \in 1 .. Len(_in_fifo) /\ 1 .. 1 - 1 = {}
    BY <1>1, <1>2
  <2> QED
    BY <2>1, <1>2 DEF ChainInv
<1>5. \A x : /\ (x \in _input_list' <=> (x \in _input_list \/ (cmd.op = "add_input" /\ cmd.of = x)) /\ ~ (cmd.op = "rem_input" /\ cmd.of = x))
             /\ (x \in _source_list' <=> (x \in _source_list \/ (cmd.op = "add_source" /\ cmd.of = x)) /\ ~ (cmd.op = "rem_source" /\ cmd.of = x))
             /\ (x \in connected' <=> (x \in connected \/ (cmd.op = "connect" /\ cmd.of = x)) /\ ~ (cmd.op = "disconnect" /\ cmd.of = x))
  <2>1. /\ _input_list' = (_input_list \cup Of("add_input", {cmd})) \ Of("rem_input", {cmd})
        /\ _source_list' = (_source_list \cup Of("add_source", {cmd})) \ Of("rem_source", {cmd})
        /\ connected' = (connected \cup Of("connect", {cmd})) \ Of("disconnect", {cmd})
    BY DEF Execute
  <2>2. \A op, x : x \in Of(op, {cmd}) <=> (cmd.op = op /\ cmd.of = x)
    BY DEF Of
  <2> QED
    BY <2>1, <2>2
<1> HIDE DEF cmd
<1>6. CASE cmd.op = "wait"
  <2>1. \A x : /\ (x \in _input_list' <=> x \in _input_list)
               /\ (x \in _source_list' <=> x \in _source_list)
               /\ (x \in connected' <=> x \in connected)
    BY <1>5, <1>6
  <2>2. \A x : Stage(x)' = Stage(x)
    BY <2>1 DEF Stage
  <2> QED
    BY <2>1, <2>2, <1>2, <1>6 DEF cmd, NestedInv, IsFor
<1>7. CASE cmd.op # "wait"
  <2> USE DEF SourceOps
  <2> DEFINE s == cmd.of
  <2>1. s \in Sources /\ IsFor(cmd, s) /\ Stage(s) = Before(cmd.op)
    BY <1>3, <1>4, <1>7 DEF IsFor
  <2>2. ASSUME NEW t, t = s
        PROVE  Stage(t)' = After(cmd.op)
    <3>1. CASE cmd.op = "add_input"
      BY <1>5, <1>7, <2>1, <2>2, <3>1 DEF Stage, Before, After, NestedInv
    <3>2. CASE cmd.op = "add_source"
      BY <1>5, <1>7, <2>1, <2>2, <3>2 DEF Stage, Before, After, NestedInv
    <3>3. CASE cmd.op = "connect"
      BY <1>5, <1>7, <2>1, <2>2, <3>3 DEF Stage, Before, After, NestedInv
    <3>4. CASE cmd.op = "set"
      BY <1>5, <1>7, <2>1, <2>2, <3>4 DEF Stage, Before, After, NestedInv
    <3>5. CASE cmd.op = "disconnect"
      BY <1>5, <1>7, <2>1, <2>2, <3>5 DEF Stage, Before, After, NestedInv
    <3>6. CASE cmd.op = "rem_source"
      BY <1>5, <1>7, <2>1, <2>2, <3>6 DEF Stage, Before, After, NestedInv
    <3>7. CASE cmd.op = "rem_input"
      BY <1>5, <1>7, <2>1, <2>2, <3>7 DEF Stage, Before, After, NestedInv
    <3> QED
      BY <1>3, <1>7, <3>1, <3>2, <3>3, <3>4, <3>5, <3>6, <3>7
  <2>3. connected' \subseteq _source_list' /\ _source_list' \subseteq _input_list'
    <3>1. CASE cmd.op = "add_input"
      BY <1>5, <1>7, <2>1, <3>1 DEF Stage, Before, After, NestedInv
    <3>2. CASE cmd.op = "add_source"
      BY <1>5, <1>7, <2>1, <3>2 DEF Stage, Before, After, NestedInv
    <3>3. CASE cmd.op = "connect"
      BY <1>5, <1>7, <2>1, <3>3 DEF Stage, Before, After, NestedInv
    <3>4. CASE cmd.op = "set"
      BY <1>5, <1>7, <2>1, <3>4 DEF Stage, Before, After, NestedInv
    <3>5. CASE cmd.op = "disconnect"
      BY <1>5, <1>7, <2>1, <3>5 DEF Stage, Before, After, NestedInv
    <3>6. CASE cmd.op = "rem_source"
      BY <1>5, <1>7, <2>1, <3>6 DEF Stage, Before, After, NestedInv
    <3>7. CASE cmd.op = "rem_input"
      BY <1>5, <1>7, <2>1, <3>7 DEF Stage, Before, After, NestedInv
    <3> QED
      BY <1>3, <1>7, <3>1, <3>2, <3>3, <3>4, <3>5, <3>6, <3>7
  <2>4. ASSUME NEW t, ~ IsFor(cmd, t)
        PROVE  Stage(t)' = Stage(t)
    BY <1>5, <1>7, <2>4 DEF IsFor, Stage
  <2>5. \A t : IsFor(cmd, t) => t = s
    BY DEF IsFor
  <2> HIDE DEF s
  <2> QED
    BY <2>2, <2>3, <2>4, <2>5, <1>2, <1>3, <1>4 DEF cmd
<1> QED
  BY <1>6, <1>7

\* Executing the first command changes nothing about how all this will end.
LEMMA Executes ==
  ASSUME TypeOK, NestedInv, ChainInv, OrderInv, Execute
  PROVE  /\ Known' = Known
         /\ Executed' = Executed \cup {Head(_in_fifo)}
         /\ _in_fifo' = Tail(_in_fifo)
         /\ \A s \in Sources : \A stage : Ends(s, stage) => Ends(s, stage)'
         /\ \A s, op : MayCome(s, op) => MayCome(s, op)'
         /\ ChainInv' /\ OrderInv'
<1> DEFINE cmd == Head(_in_fifo)
           n == Len(_in_fifo)
<1>1. /\ _in_fifo \in Seq(Commands) /\ _in_fifo # <<>> /\ _in_fifo' = Tail(_in_fifo)
      /\ _out_fifo \in Seq(Commands)
  BY DEF TypeOK, Execute
<1>2. /\ n \in Nat /\ n >= 1 /\ cmd = _in_fifo[1]
      /\ _in_fifo' \in Seq(Commands)
      /\ Len(_in_fifo') = n - 1
      /\ \A i \in 1 .. n - 1 : _in_fifo'[i] = _in_fifo[i + 1]
      /\ ToSet(_in_fifo) = ToSet(_in_fifo') \cup {cmd}
  BY <1>1, ToSets
<1>3. Executed' = Executed \cup {cmd}
  <2>1. cmd \in Commands
    BY StageStep
  <2>2. \/ _out_fifo' = Append(_out_fifo, cmd) /\ lost' = lost
        \/ _out_fifo' = _out_fifo /\ lost' = lost \cup {cmd}
    BY DEF Execute
  <2>3. CASE _out_fifo' = Append(_out_fifo, cmd) /\ lost' = lost
    <3>1. ToSet(_out_fifo') = ToSet(_out_fifo) \cup {cmd}
      BY <1>1, <2>1, <2>3, ToSets
    <3> QED
      BY <3>1, <2>3 DEF Executed
  <2>4. CASE _out_fifo' = _out_fifo /\ lost' = lost \cup {cmd}
    BY <2>4 DEF Executed
  <2> QED
    BY <2>2, <2>3, <2>4
<1>4. Known' = Known
  BY <1>2, <1>3 DEF Known
<1>5. ASSUME NEW s \in Sources, NEW stage, Ends(s, stage)
      PROVE  Ends(s, stage)'
  <2>1. CASE \A i \in 1 .. n : ~ IsFor(_in_fifo[i], s)
    <3>1. Stage(s) = stage
      BY <1>5, <2>1 DEF Ends
    <3>2. 1 \in 1 .. n
      BY <1>2
    <3>3. Stage(s)' = Stage(s)
      BY <1>2, <2>1, <3>2, StageStep
    <3>4. \A i \in 1 .. n - 1 : ~ IsFor(_in_fifo'[i], s)
      BY <1>2, <2>1
    <3> QED
      BY <1>2, <3>1, <3>3, <3>4 DEF Ends
  <2>2. CASE ~ \A i \in 1 .. n : ~ IsFor(_in_fifo[i], s)
    <3>1. PICK i \in 1 .. n : /\ IsFor(_in_fifo[i], s)
                              /\ After(_in_fifo[i].op) = stage
                              /\ \A k \in i + 1 .. n : ~ IsFor(_in_fifo[k], s)
      BY <1>5, <2>2 DEF Ends
    <3>2. \A k \in i .. n - 1 : ~ IsFor(_in_fifo'[k], s)
      BY <1>2, <3>1
    <3>3. CASE i = 1
      <4>2. Stage(s)' = stage
        BY <1>2, <3>1, <3>3, StageStep
      <4>3. \A k \in 1 .. n - 1 : ~ IsFor(_in_fifo'[k], s)
        BY <3>2, <3>3
      <4> QED
        BY <1>2, <4>2, <4>3 DEF Ends
    <3>4. CASE i # 1
      <4>1. i - 1 \in 1 .. n - 1 /\ _in_fifo'[i - 1] = _in_fifo[i]
        BY <1>2, <3>4
      <4>2. \A k \in i - 1 + 1 .. n - 1 : ~ IsFor(_in_fifo'[k], s)
        BY <3>2
      <4> QED
        BY <1>2, <3>1, <4>1, <4>2 DEF Ends
    <3> QED
      BY <3>3, <3>4
  <2> QED
    BY <2>1, <2>2
<1>6. \A s, op : MayCome(s, op) => MayCome(s, op)'
  BY <1>4 DEF MayCome
<1>7. ChainInv'
  <2> SUFFICES ASSUME NEW s \in Sources, NEW i \in 1 .. n - 1, IsFor(_in_fifo'[i], s)
               PROVE  /\ (\A k \in 1 .. i - 1 : ~ IsFor(_in_fifo'[k], s))
                           => Stage(s)' = Before(_in_fifo'[i].op)
                      /\ \A j \in 1 .. i - 1 :
                           IsFor(_in_fifo'[j], s)
                           /\ (\A k \in j + 1 .. i - 1 : ~ IsFor(_in_fifo'[k], s))
                           => After(_in_fifo'[j].op) = Before(_in_fifo'[i].op)
    BY <1>2 DEF ChainInv
  <2>1. i + 1 \in 1 .. n /\ _in_fifo'[i] = _in_fifo[i + 1] /\ IsFor(_in_fifo[i + 1], s)
    BY <1>2
  <2>2. ASSUME \A k \in 1 .. i - 1 : ~ IsFor(_in_fifo'[k], s)
        PROVE  Stage(s)' = Before(_in_fifo'[i].op)
    <3>1. \A k \in 2 .. i : ~ IsFor(_in_fifo[k], s)
      <4> SUFFICES ASSUME NEW k \in 2 .. i
                   PROVE  ~ IsFor(_in_fifo[k], s)
        OBVIOUS
      <4>1. k - 1 \in 1 .. i - 1 /\ _in_fifo'[k - 1] = _in_fifo[k]
        BY <1>2
      <4> QED
        BY <4>1, <2>2
    <3>2. CASE IsFor(cmd, s)
      <4>1. Stage(s)' = After(cmd.op)
        BY <3>2, StageStep
      <4>2. /\ 1 \in 1 .. (i + 1) - 1 /\ IsFor(_in_fifo[1], s)
            /\ \A k \in 1 + 1 .. (i + 1) - 1 : ~ IsFor(_in_fifo[k], s)
        BY <1>2, <3>1, <3>2
      <4>3. After(_in_fifo[1].op) = Before(_in_fifo[i + 1].op)
        BY <2>1, <4>2 DEF ChainInv
      <4> QED
        BY <1>2, <2>1, <4>1, <4>3
    <3>3. CASE ~ IsFor(cmd, s)
      <4>1. Stage(s)' = Stage(s)
        BY <3>3, StageStep
      <4>2. \A k \in 1 .. (i + 1) - 1 : ~ IsFor(_in_fifo[k], s)
        BY <1>2, <3>1, <3>3
      <4>3. Stage(s) = Before(_in_fifo[i + 1].op)
        BY <2>1, <4>2 DEF ChainInv
      <4> QED
        BY <2>1, <4>1, <4>3
    <3> QED
      BY <3>2, <3>3
  <2>3. ASSUME NEW j \in 1 .. i - 1, IsFor(_in_fifo'[j], s),
               \A k \in j + 1 .. i - 1 : ~ IsFor(_in_fifo'[k], s)
        PROVE  After(_in_fifo'[j].op) = Before(_in_fifo'[i].op)
    <3>1. j + 1 \in 1 .. (i + 1) - 1 /\ _in_fifo'[j] = _in_fifo[j + 1]
      BY <1>2
    <3>2. \A k \in (j + 1) + 1 .. (i + 1) - 1 : ~ IsFor(_in_fifo[k], s)
      <4> SUFFICES ASSUME NEW k \in (j + 1) + 1 .. (i + 1) - 1
                   PROVE  ~ IsFor(_in_fifo[k], s)
        OBVIOUS
      <4>1. k - 1 \in j + 1 .. i - 1 /\ _in_fifo'[k - 1] = _in_fifo[k]
        BY <1>2
      <4> QED
        BY <4>1, <2>3
    <3> QED
      BY <2>1, <2>3, <3>1, <3>2 DEF ChainInv
  <2> QED
    BY <2>2, <2>3
<1>8. OrderInv'
  <2> SUFFICES ASSUME NEW s \in Sources, NEW i \in 1 .. n - 1, IsFor(_in_fifo'[i], s)
               PROVE  /\ \A j \in 1 .. i - 1 :
                           IsFor(_in_fifo'[j], s) => MayFollow(_in_fifo'[j].op, _in_fifo'[i].op)
                      /\ \A old \in Executed' :
                           IsFor(old, s) => MayFollow(old.op, _in_fifo'[i].op)
    BY <1>2 DEF OrderInv
  <2>1. i + 1 \in 1 .. n /\ _in_fifo'[i] = _in_fifo[i + 1] /\ IsFor(_in_fifo[i + 1], s)
    BY <1>2
  <2>2. \A j \in 1 .. i - 1 : j + 1 \in 1 .. (i + 1) - 1 /\ _in_fifo'[j] = _in_fifo[j + 1]
    BY <1>2
  <2>3. 1 \in 1 .. (i + 1) - 1
    OBVIOUS
  <2> QED
    BY <1>2, <1>3, <2>1, <2>2, <2>3 DEF OrderInv
<1> QED
  BY <1>1, <1>3, <1>4, <1>5, <1>6, <1>7, <1>8

\* A command that is pushed where its source's last one ends.
LEMMA Inserts ==
  ASSUME TypeOK, ChainInv, OrderInv, NEW cmd \in Commands,
         _in_fifo' = Append(_in_fifo, cmd), UNCHANGED <<lists, _out_fifo, lost>>,
         cmd.op # "wait" => Ends(cmd.of, Before(cmd.op)) /\ MayCome(cmd.of, cmd.op)
  PROVE  /\ Known' = Known \cup {cmd} /\ Executed' = Executed
         /\ ToSet(_in_fifo)' = ToSet(_in_fifo) \cup {cmd}
         /\ \A s, stage : ~ IsFor(cmd, s) /\ Ends(s, stage) => Ends(s, stage)'
         /\ \A s : IsFor(cmd, s) => Ends(s, After(cmd.op))'
         /\ \A s, op : MayCome(s, op) /\ (IsFor(cmd, s) => MayFollow(cmd.op, op))
                         => MayCome(s, op)'
         /\ ChainInv' /\ OrderInv'
<1> DEFINE n == Len(_in_fifo)
<1> USE DEF lists
<1>1. _in_fifo \in Seq(Commands)
  BY DEF TypeOK
<1>2. /\ n \in Nat
      /\ _in_fifo' \in Seq(Commands)
      /\ Len(_in_fifo') = n + 1
      /\ \A i \in 1 .. n : _in_fifo'[i] = _in_fifo[i]
      /\ _in_fifo'[n + 1] = cmd
      /\ ToSet(_in_fifo') = ToSet(_in_fifo) \cup {cmd}
      /\ \A i \in 1 .. n : _in_fifo[i] \in ToSet(_in_fifo)
  BY <1>1, ToSets
<1>3. Executed' = Executed /\ Known' = Known \cup {cmd}
  BY <1>2 DEF Known, Executed
<1>4. \A s : Stage(s)' = Stage(s)
  BY DEF Stage
<1>5. ASSUME NEW s, NEW stage, ~ IsFor(cmd, s), Ends(s, stage)
      PROVE  Ends(s, stage)'
  <2>1. CASE \A i \in 1 .. n : ~ IsFor(_in_fifo[i], s)
    BY <1>2, <1>4, <1>5, <2>1 DEF Ends
  <2>2. CASE ~ \A i \in 1 .. n : ~ IsFor(_in_fifo[i], s)
    <3>1. PICK i \in 1 .. n : /\ IsFor(_in_fifo[i], s)
                              /\ After(_in_fifo[i].op) = stage
                              /\ \A k \in i + 1 .. n : ~ IsFor(_in_fifo[k], s)
      BY <1>5, <2>2 DEF Ends
    <3>2. i \in 1 .. n + 1 /\ \A k \in i + 1 .. n + 1 : ~ IsFor(_in_fifo'[k], s)
      BY <1>2, <1>5, <3>1
    <3> QED
      BY <1>2, <3>1, <3>2 DEF Ends
  <2> QED
    BY <2>1, <2>2
<1>6. ASSUME NEW s, IsFor(cmd, s)
      PROVE  Ends(s, After(cmd.op))'
  <2>1. n + 1 \in 1 .. n + 1 /\ \A k \in n + 1 + 1 .. n + 1 : ~ IsFor(_in_fifo'[k], s)
    BY <1>2
  <2> QED
    BY <1>2, <1>6, <2>1 DEF Ends
<1>7. \A s, op : MayCome(s, op) /\ (IsFor(cmd, s) => MayFollow(cmd.op, op))
                   => MayCome(s, op)'
  BY <1>3 DEF MayCome
<1>8. ChainInv'
  <2> SUFFICES ASSUME NEW s \in Sources, NEW i \in 1 .. n + 1, IsFor(_in_fifo'[i], s)
               PROVE  /\ (\A k \in 1 .. i - 1 : ~ IsFor(_in_fifo'[k], s))
                           => Stage(s) = Before(_in_fifo'[i].op)
                      /\ \A j \in 1 .. i - 1 :
                           IsFor(_in_fifo'[j], s)
                           /\ (\A k \in j + 1 .. i - 1 : ~ IsFor(_in_fifo'[k], s))
                           => After(_in_fifo'[j].op) = Before(_in_fifo'[i].op)
    BY <1>2, <1>4 DEF ChainInv
  <2>1. CASE i \in 1 .. n
    <3>1. /\ \A k \in 1 .. i : k \in 1 .. n /\ _in_fifo'[k] = _in_fifo[k]
          /\ \A k \in 1 .. i - 1 : k \in 1 .. i
          /\ i \in 1 .. i
      BY <1>2, <2>1
    <3>2. \A j \in 1 .. i - 1 : \A k \in j + 1 .. i - 1 : k \in 1 .. i
      BY <2>1
    <3> QED
      BY <2>1, <3>1, <3>2 DEF ChainInv
  <2>2. CASE i = n + 1
    <3>1. IsFor(cmd, s) /\ cmd.op # "wait" /\ cmd.of = s
      BY <1>2, <2>2 DEF IsFor
    <3>2. Ends(s, Before(cmd.op))
      BY <3>1
    <3>3. i - 1 = n /\ \A k \in 1 .. n : _in_fifo'[k] = _in_fifo[k]
      BY <1>2, <2>2
    <3>4. ASSUME \A k \in 1 .. n : ~ IsFor(_in_fifo[k], s)
          PROVE  Stage(s) = Before(cmd.op)
      BY <3>2, <3>4 DEF Ends
    <3>5. ASSUME NEW j \in 1 .. n, IsFor(_in_fifo[j], s),
                 \A k \in j + 1 .. n : ~ IsFor(_in_fifo[k], s)
          PROVE  After(_in_fifo[j].op) = Before(cmd.op)
      <4>1. PICK last \in 1 .. n : /\ IsFor(_in_fifo[last], s)
                                   /\ After(_in_fifo[last].op) = Before(cmd.op)
                                   /\ \A k \in last + 1 .. n : ~ IsFor(_in_fifo[k], s)
        BY <3>2, <3>5 DEF Ends
      <4>2. ~ (j < last) /\ ~ (last < j)
        BY <1>2, <3>5, <4>1
      <4>3. j = last
        BY <1>2, <4>2
      <4> QED
        BY <4>1, <4>3
    <3>6. \A j \in 1 .. n : \A k \in j + 1 .. n : k \in 1 .. n
      BY <1>2
    <3> QED
      BY <1>2, <2>2, <3>3, <3>4, <3>5, <3>6
  <2> QED
    BY <1>2, <2>1, <2>2
<1>9. OrderInv'
  <2> SUFFICES ASSUME NEW s \in Sources, NEW i \in 1 .. n + 1, IsFor(_in_fifo'[i], s)
               PROVE  /\ \A j \in 1 .. i - 1 :
                           IsFor(_in_fifo'[j], s) => MayFollow(_in_fifo'[j].op, _in_fifo'[i].op)
                      /\ \A old \in Executed :
                           IsFor(old, s) => MayFollow(old.op, _in_fifo'[i].op)
    BY <1>2, <1>3 DEF OrderInv
  <2>1. CASE i \in 1 .. n
    <3>1. _in_fifo'[i] = _in_fifo[i] /\ \A j \in 1 .. i - 1 : _in_fifo'[j] = _in_fifo[j]
      BY <1>2, <2>1
    <3> QED
      BY <2>1, <3>1 DEF OrderInv
  <2>2. CASE i = n + 1
    <3>1. cmd.op # "wait" /\ cmd.of = s
      BY <1>2, <2>2 DEF IsFor
    <3>2. MayCome(s, cmd.op)
      BY <3>1
    <3>3. \A j \in 1 .. i - 1 : _in_fifo'[j] = _in_fifo[j] /\ _in_fifo[j] \in Known
      BY <1>2, <2>2 DEF Known
    <3> QED
      BY <1>2, <2>2, <3>2, <3>3 DEF MayCome, Known
  <2> QED
    BY <1>2, <2>1, <2>2
<1> QED
  BY <1>2, <1>3, <1>5, <1>6, <1>7, <1>8, <1>9

LEMMA Tuples ==
  ASSUME NEW a, NEW b, NEW d
  PROVE  /\ <<a>> # <<>> /\ Head(<<a>>) = a /\ <<a>>[1] = a /\ Tail(<<a>>) = <<>>
         /\ <<a, b>> # <<>> /\ Head(<<a, b>>) = a /\ <<a, b>>[1] = a /\ Tail(<<a, b>>) = <<b>>
         /\ <<a, b, d>> # <<>> /\ Head(<<a, b, d>>) = a /\ <<a, b, d>>[1] = a
         /\ Tail(<<a, b, d>>) = <<b, d>>
OBVIOUS

LEMMA Cmds ==
  ASSUME NEW op, NEW of
  PROVE  /\ Cmd(op, of).op = op /\ Cmd(op, of).of = of
         /\ op \in SourceOps /\ of \in Sources => Cmd(op, of) \in Commands
         /\ op = "wait" /\ of \in Clients => Cmd(op, of) \in Commands
BY DEF Cmd, Commands

LEMMA TodosOf ==
  ASSUME NEW c, NEW state
  PROVE  /\ state.then = "construct" =>
              Todos(c, state) = { <<>>, <<Cmd("add_input", state.source)>> }
         /\ state.then = "register" =>
              Todos(c, state) = { <<>>, <<Cmd("connect", state.source)>>,
                                  <<Cmd("add_source", state.source), Cmd("connect", state.source)>> }
         /\ state.then = "poll" => Todos(c, state) = { <<>>, <<Cmd("wait", c)>> }
         /\ state.then \in {"return", "next"} =>
              Todos(c, state) = Removal(state.source) \cup { <<Cmd("set", state.source)>> }
BY DEF Todos

\* What TypeOK says of a client.
States == [at : {"idle", "pushing", "inserting", "get", "enter", "all", "poll"},
           id : 0 .. MaxSources,
           source : 0 .. MaxSources,
           todo : Seq(Commands),
           then : {"construct", "register", "return", "next", "poll"}]

LEMMA ClientTypes ==
  ASSUME TypeOK, NEW c \in Clients
  PROVE  /\ client \in [Clients -> States]
         /\ client[c] \in States
         /\ client[c].id \in 0 .. MaxSources /\ client[c].source \in 0 .. MaxSources
         /\ client[c].todo \in Seq(Commands)
         /\ \A state \in States :
              /\ [client EXCEPT ![c] = state] \in [Clients -> States]
              /\ [client EXCEPT ![c] = state][c] = state
              /\ \A d \in Clients \ {c} : [client EXCEPT ![c] = state][d] = client[d]
BY DEF TypeOK, States

LEMMA IdleState == Idle \in States /\ Idle.at = "idle" /\ Idle.then = "return" /\ Idle.todo = <<>>
<1>1. <<>> \in Seq(Commands) /\ 0 \in 0 .. MaxSources
  BY BoundsAssumption
<1> QED
  BY <1>1 DEF Idle, States

LEMMA PushingState ==
  ASSUME NEW id \in 0 .. MaxSources, NEW source \in 0 .. MaxSources,
         NEW todo \in Seq(Commands), NEW then,
         then \in {"construct", "register", "return", "next", "poll"},
         NEW state, state = Pushing(id, source, todo, then)
  PROVE  /\ state \in States
         /\ state.at = "pushing" /\ state.id = id /\ state.source = source
         /\ state.todo = todo /\ state.then = then
BY DEF Pushing, States

\* The state after the next command was pushed.
Rest(state) == [state EXCEPT !.at = "pushing", !.todo = Tail(@)]

LEMMA RestState ==
  ASSUME NEW state \in States, state.todo # <<>>,
         NEW rest, rest = Rest(state)
  PROVE  /\ rest \in States
         /\ rest.at = "pushing" /\ rest.then = state.then /\ rest.source = state.source
         /\ rest.id = state.id /\ rest.todo = Tail(state.todo)
<1>1. /\ rest.at = "pushing" /\ rest.then = state.then /\ rest.source = state.source
      /\ rest.id = state.id
      /\ rest.todo = Tail(state.todo)
  BY DEF States, Rest
<1>2. state.todo \in Seq(Commands) /\ Tail(state.todo) \in Seq(Commands)
  BY ToSets DEF States
<1>3. rest \in States
  BY <1>2 DEF States, Rest
<1> QED
  BY <1>1, <1>3

\* How the next command of a client goes with what it has left after it.
LEMMA TodoStep ==
  ASSUME NEW c \in Clients, NEW state \in States,
         state.todo \in Todos(c, state), state.todo # <<>>,
         state.then = "poll" \/ state.source \in Sources,
         NEW rest \in States,
         rest.then = state.then, rest.source = state.source, rest.todo = Tail(state.todo),
         NEW cmd, cmd = Head(state.todo)
  PROVE  /\ cmd \in Commands
         /\ rest.todo \in Todos(c, rest)
         /\ IF state.then = "poll" THEN cmd = Cmd("wait", c) /\ rest.todo = <<>>
            ELSE /\ cmd.of = state.source
                 /\ cmd.op \in SourceOps
                 /\ cmd.op = NextOp(state)
                 /\ state.then \in {"construct", "register"} \/ rest.todo # <<>> =>
                      /\ After(cmd.op) = Before(NextOp(rest))
                      /\ MayFollow(cmd.op, NextOp(rest))
                      /\ cmd.op # "set"
                 /\ rest.todo # <<>> => NextOp(rest) # "set"
                 /\ state.then \in {"construct", "register"} => NextOp(rest) # "rem_input"
<1> DEFINE s == state.source
<1>1. /\ rest.then = state.then /\ rest.source = s
      /\ rest.todo = Tail(state.todo)
  OBVIOUS
<1>2. state.todo \in Seq(Commands) /\ Tail(state.todo) \in Seq(Commands)
  BY ToSets DEF States
<1>4. state.then \in {"construct", "register", "return", "next", "poll"}
  BY DEF States
<1>5. cmd \in Commands
  BY <1>2, ToSets
<1>6. CASE state.then = "construct"
  <2>1. state.todo = <<Cmd("add_input", s)>>
    BY <1>6, TodosOf
  <2> QED
    <3>1. cmd = Cmd("add_input", s) /\ rest.todo = <<>> /\ state.todo[1] = cmd
      BY <1>1, <2>1, Tuples
    <3>2. cmd.op = "add_input" /\ cmd.of = s
      BY <3>1, Cmds
    <3>3. rest.then = "construct"
      BY <1>1, <1>6
    <3>4. Todos(c, rest) = { <<>>, <<Cmd("add_input", rest.source)>> }
      BY <3>3, TodosOf
    <3>5. rest.todo \in Todos(c, rest)
      BY <1>1, <3>1, <3>4
    <3>6. NextOp(state) = "add_input"
      BY <3>1, <3>2, <2>1, Tuples DEF NextOp
    <3>7. NextOp(rest) = "add_source"
      BY <3>1, <3>3, Tuples, Cmds DEF NextOp
    <3>8. After(cmd.op) = Before("add_source") /\ MayFollow(cmd.op, "add_source")
      BY <3>2 DEF After, Before, MayFollow, Rank
    <3> QED
      BY <1>1, <1>5, <1>6, <3>1, <3>2, <3>5, <3>6, <3>7, <3>8, Tuples DEF SourceOps
<1>7. CASE state.then = "register"
  <2>1. CASE state.todo = <<Cmd("add_source", s), Cmd("connect", s)>>
    <3>1. cmd = Cmd("add_source", s) /\ rest.todo = <<Cmd("connect", s)>> /\ state.todo[1] = cmd
      BY <1>1, <2>1, Tuples
    <3>2. cmd.op = "add_source" /\ cmd.of = s
      BY <3>1, Cmds
    <3>3. rest.then = "register"
      BY <1>1, <1>7
    <3>4. Todos(c, rest) = { <<>>, <<Cmd("connect", rest.source)>>,
                              <<Cmd("add_source", rest.source), Cmd("connect", rest.source)>> }
      BY <3>3, TodosOf
    <3>5. rest.todo \in Todos(c, rest)
      BY <1>1, <3>1, <3>4
    <3>6. NextOp(state) = "add_source"
      BY <3>1, <3>2, <2>1, Tuples DEF NextOp
    <3>7. NextOp(rest) = "connect"
      <4>1. rest.todo # <<>> /\ rest.todo[1] = Cmd("connect", s)
        BY <3>1, Tuples
      <4> QED
        BY <4>1, Cmds DEF NextOp
    <3>8. After(cmd.op) = Before("connect") /\ MayFollow(cmd.op, "connect")
      BY <3>2 DEF After, Before, MayFollow, Rank
    <3> QED
      BY <1>1, <1>5, <1>7, <3>1, <3>2, <3>5, <3>6, <3>7, <3>8, Tuples DEF SourceOps
  <2>2. CASE state.todo = <<Cmd("connect", s)>>
    <3>1. cmd = Cmd("connect", s) /\ rest.todo = <<>> /\ state.todo[1] = cmd
      BY <1>1, <2>2, Tuples
    <3>2. cmd.op = "connect" /\ cmd.of = s
      BY <3>1, Cmds
    <3>3. rest.then = "register"
      BY <1>1, <1>7
    <3>4. Todos(c, rest) = { <<>>, <<Cmd("connect", rest.source)>>,
                              <<Cmd("add_source", rest.source), Cmd("connect", rest.source)>> }
      BY <3>3, TodosOf
    <3>5. rest.todo \in Todos(c, rest)
      BY <1>1, <3>1, <3>4
    <3>6. NextOp(state) = "connect"
      BY <3>1, <3>2, <2>2, Tuples DEF NextOp
    <3>7. NextOp(rest) = "set"
      BY <3>1, <3>3, Tuples, Cmds DEF NextOp
    <3>8. After(cmd.op) = Before("set") /\ MayFollow(cmd.op, "set")
      BY <3>2 DEF After, Before, MayFollow, Rank
    <3> QED
      BY <1>1, <1>5, <1>7, <3>1, <3>2, <3>5, <3>6, <3>7, <3>8, Tuples DEF SourceOps
  <2> QED
    BY <1>7, <2>1, <2>2, TodosOf
<1>8. CASE state.then = "poll"
  <2>1. state.todo = <<Cmd("wait", c)>>
    BY <1>8, TodosOf
  <2>2. cmd = Cmd("wait", c) /\ rest.todo = <<>>
    BY <1>1, <2>1, Tuples
  <2>3. rest.then = "poll"
    BY <1>1, <1>8
  <2>4. Todos(c, rest) = { <<>>, <<Cmd("wait", c)>> }
    BY <2>3, TodosOf
  <2> QED
    BY <1>1, <1>5, <1>8, <2>2, <2>4
<1>9. CASE state.then \in {"return", "next"}
  <2>1. state.todo \in Removal(s) \cup { <<Cmd("set", s)>> }
    BY <1>9, TodosOf
  <2>2. CASE state.todo = <<Cmd("set", s)>>
    <3>1. cmd = Cmd("set", s) /\ rest.todo = <<>> /\ state.todo[1] = cmd
      BY <1>1, <2>2, Tuples
    <3>2. cmd.op = "set" /\ cmd.of = s
      BY <3>1, Cmds
    <3>3. rest.then \in {"return", "next"}
      BY <1>1, <1>9
    <3>4. Todos(c, rest) = Removal(rest.source) \cup { <<Cmd("set", rest.source)>> }
      BY <3>3, TodosOf
    <3>5. rest.todo \in Todos(c, rest)
      BY <1>1, <3>1, <3>4 DEF Removal
    <3>6. NextOp(state) = "set"
      BY <3>1, <3>2, <2>2, Tuples DEF NextOp
    <3> QED
      BY <1>1, <1>5, <1>9, <3>1, <3>2, <3>5, <3>6 DEF SourceOps
  <2>3. CASE state.todo = <<Cmd("rem_input", s)>>
    <3>1. cmd = Cmd("rem_input", s) /\ rest.todo = <<>> /\ state.todo[1] = cmd
      BY <1>1, <2>3, Tuples
    <3>2. cmd.op = "rem_input" /\ cmd.of = s
      BY <3>1, Cmds
    <3>3. rest.then \in {"return", "next"}
      BY <1>1, <1>9
    <3>4. Todos(c, rest) = Removal(rest.source) \cup { <<Cmd("set", rest.source)>> }
      BY <3>3, TodosOf
    <3>5. rest.todo \in Todos(c, rest)
      BY <1>1, <3>1, <3>4 DEF Removal
    <3>6. NextOp(state) = "rem_input"
      BY <3>1, <3>2, <2>3, Tuples DEF NextOp
    <3> QED
      BY <1>1, <1>5, <1>9, <3>1, <3>2, <3>5, <3>6 DEF SourceOps
  <2>4. CASE state.todo = <<Cmd("rem_source", s), Cmd("rem_input", s)>>
    <3>1. cmd = Cmd("rem_source", s) /\ rest.todo = <<Cmd("rem_input", s)>> /\ state.todo[1] = cmd
      BY <1>1, <2>4, Tuples
    <3>2. cmd.op = "rem_source" /\ cmd.of = s
      BY <3>1, Cmds
    <3>3. rest.then \in {"return", "next"}
      BY <1>1, <1>9
    <3>4. Todos(c, rest) = Removal(rest.source) \cup { <<Cmd("set", rest.source)>> }
      BY <3>3, TodosOf
    <3>5. rest.todo \in Todos(c, rest)
      BY <1>1, <3>1, <3>4 DEF Removal
    <3>6. NextOp(state) = "rem_source"
      BY <3>1, <3>2, <2>4, Tuples DEF NextOp
    <3>7. NextOp(rest) = "rem_input"
      <4>1. rest.todo # <<>> /\ rest.todo[1] = Cmd("rem_input", s)
        BY <3>1, Tuples
      <4> QED
        BY <4>1, Cmds DEF NextOp
    <3>8. After(cmd.op) = Before("rem_input") /\ MayFollow(cmd.op, "rem_input")
      BY <3>2 DEF After, Before, MayFollow, Rank
    <3> QED
      BY <1>1, <1>5, <1>9, <3>1, <3>2, <3>5, <3>6, <3>7, <3>8, Tuples DEF SourceOps
  <2>5. CASE state.todo = <<Cmd("disconnect", s), Cmd("rem_source", s), Cmd("rem_input", s)>>
    <3>1. cmd = Cmd("disconnect", s) /\ rest.todo = <<Cmd("rem_source", s), Cmd("rem_input", s)>> /\ state.todo[1] = cmd
      BY <1>1, <2>5, Tuples
    <3>2. cmd.op = "disconnect" /\ cmd.of = s
      BY <3>1, Cmds
    <3>3. rest.then \in {"return", "next"}
      BY <1>1, <1>9
    <3>4. Todos(c, rest) = Removal(rest.source) \cup { <<Cmd("set", rest.source)>> }
      BY <3>3, TodosOf
    <3>5. rest.todo \in Todos(c, rest)
      BY <1>1, <3>1, <3>4 DEF Removal
    <3>6. NextOp(state) = "disconnect"
      BY <3>1, <3>2, <2>5, Tuples DEF NextOp
    <3>7. NextOp(rest) = "rem_source"
      <4>1. rest.todo # <<>> /\ rest.todo[1] = Cmd("rem_source", s)
        <5>1. \A x, y : <<x, y>> # <<>> /\ <<x, y>>[1] = x
          BY Tuples
        <5> QED
          BY <3>1, <5>1, ZenonT(20)
      <4> QED
        BY <4>1, Cmds DEF NextOp
    <3>8. After(cmd.op) = Before("rem_source") /\ MayFollow(cmd.op, "rem_source")
      BY <3>2 DEF After, Before, MayFollow, Rank
    <3> QED
      BY <1>1, <1>5, <1>9, <3>1, <3>2, <3>5, <3>6, <3>7, <3>8, Tuples DEF SourceOps
  <2> QED
    BY <2>1, <2>2, <2>3, <2>4, <2>5 DEF Removal
<1> QED
  BY <1>4, <1>6, <1>7, <1>8, <1>9

------------------------------------------------------------------------------
(* Types *)

\* The lock: who takes it finds that nobody holds it.
LockInv == \A c, d \in Clients : Holds(c) /\ Holds(d) => c = d

\* TypeOK without the clients.
DataTypes ==
  /\ _source_map \in [Ids -> 0 .. MaxSources]
  /\ _highest_id \in 0 .. MaxSources /\ created \in 0 .. MaxSources
  /\ inputs \subseteq Sources /\ sources \subseteq Sources
  /\ _input_list \subseteq Sources /\ _source_list \subseteq Sources
  /\ connected \subseteq Sources
  /\ _in_fifo \in Seq(Commands) /\ _out_fifo \in Seq(Commands)
  /\ lost \subseteq Commands /\ done \subseteq Clients

LEMMA TypeSplit ==
  /\ TypeOK => DataTypes /\ client \in [Clients -> States] /\ LockInv
  /\ DataTypes' /\ client' \in [Clients -> States] /\ LockInv' => TypeOK'
BY DEF TypeOK, DataTypes, States, LockInv

\* A client that moves on takes the lock only when nobody holds it.
LEMMA LockStep ==
  ASSUME TypeOK, NEW c \in Clients, NEW state \in States, Become(c, state),
         state.at \in {"pushing", "inserting"} /\ state.then # "poll" => Holds(c) \/ Unlocked
  PROVE  client' \in [Clients -> States] /\ LockInv'
<1>1. /\ client' \in [Clients -> States]
      /\ client'[c] = state
      /\ \A d \in Clients \ {c} : client'[d] = client[d]
  BY ClientTypes DEF Become
<1>2. \A d \in Clients \ {c} : Holds(d)' => Holds(d)
  BY <1>1 DEF Holds
<1>3. Holds(c)' => Holds(c) \/ Unlocked
  BY <1>1 DEF Holds
<1>4. \A d, e \in Clients : Holds(d) /\ Holds(e) => d = e
  BY DEF TypeOK
<1> QED
  BY <1>1, <1>2, <1>3, <1>4 DEF LockInv, Unlocked

LEMMA CleanUpTypes ==
  ASSUME TypeOK, CleanUp
  PROVE  /\ inputs' \subseteq inputs /\ sources' \subseteq sources
         /\ done' \subseteq Clients
         /\ _out_fifo' = <<>> /\ _out_fifo' \in Seq(Commands)
<1>1. ToSet(_out_fifo) \subseteq Commands
  BY ToSets DEF TypeOK
<1>2. Of("wait", ToSet(_out_fifo)) \subseteq Clients
  BY <1>1, CommandTypes DEF Of
<1> QED
  BY <1>2 DEF CleanUp, TypeOK

LEMMA ExecuteTypes ==
  ASSUME TypeOK, NestedInv, ChainInv, Execute
  PROVE  TypeOK'
<1>1. /\ _in_fifo \in Seq(Commands) /\ _in_fifo # <<>> /\ _out_fifo \in Seq(Commands)
      /\ lost \subseteq Commands
  BY DEF TypeOK, Execute
<1>2. Head(_in_fifo) \in Commands /\ Tail(_in_fifo) \in Seq(Commands)
  BY <1>1, ToSets
<1>3. _in_fifo' \in Seq(Commands) /\ _out_fifo' \in Seq(Commands) /\ lost' \subseteq Commands
  <2>1. Append(_out_fifo, Head(_in_fifo)) \in Seq(Commands)
    BY <1>1, <1>2, ToSets
  <2>2. \/ _out_fifo' = Append(_out_fifo, Head(_in_fifo)) /\ lost' = lost
        \/ _out_fifo' = _out_fifo /\ lost' = lost \cup {Head(_in_fifo)}
    BY DEF Execute
  <2>3. _in_fifo' = Tail(_in_fifo)
    BY DEF Execute
  <2> QED
    BY <1>1, <1>2, <2>1, <2>2, <2>3
<1>4. \A op \in SourceOps : Of(op, {Head(_in_fifo)}) \subseteq Sources
  BY <1>2, Ops, CommandTypes DEF Of
<1>5. /\ _input_list' \subseteq Sources /\ _source_list' \subseteq Sources
      /\ connected' \subseteq Sources
  BY <1>4 DEF Execute, TypeOK, SourceOps
<1>6. UNCHANGED <<objects, inputs, sources, done, client>>
  BY DEF Execute
<1> QED
  BY <1>3, <1>5, <1>6 DEF TypeOK, objects, Holds

------------------------------------------------------------------------------
(* What other sources and clients keep *)

Kept(s) ==
  /\ \A stage : Ends(s, stage) => Ends(s, stage)'
  /\ \A op : MayCome(s, op) => MayCome(s, op)'
  /\ s \in inputs /\ (\E op \in SourceOps : MayCome(s, op)) => s \in inputs'
  /\ s \in sources /\ (\E op \in SourceOps \ {"rem_input"} : MayCome(s, op)) => s \in sources'

LEMMA Quiet ==
  ASSUME SafetyInv, UNCHANGED <<_in_fifo, _out_fifo, lost, lists>>,
         created' \in Nat, created <= created',
         inputs \subseteq inputs', sources \subseteq sources', \A s \in inputs' : s <= created'
  PROVE  (\A s : Kept(s)) /\ NestedInv' /\ ChainInv' /\ OrderInv' /\ ObjectsInv'
<1> USE DEF SafetyInv
<1>1. Executed' = Executed /\ Known' = Known
  BY DEF Executed, Known
<1>2. /\ \A s, stage : Ends(s, stage)' = Ends(s, stage)
      /\ \A s, op : MayCome(s, op) => MayCome(s, op)'
      /\ ChainInv' /\ OrderInv'
  BY <1>1, QueueStays
<1>3. \A s : Kept(s)
  BY <1>2 DEF Kept
<1>4. NestedInv'
  BY DEF NestedInv, lists
<1>5. ObjectsInv'
  <2>1. \A cmd \in Known : cmd.op # "wait" => cmd.of \in Nat
    <3>1. Known \subseteq Commands
      BY ToSets DEF TypeOK, Known, Executed
    <3> QED
      BY <3>1, CommandTypes, BoundsAssumption DEF Sources
  <2>2. created \in Nat
    BY DEF TypeOK
  <2>3. \A cmd \in Known : cmd.op # "wait" => cmd.of <= created'
    BY <2>1, <2>2 DEF ObjectsInv, CreatedInv, AddedInv, RemovedInv
  <2> QED
    BY <1>1, <2>3 DEF ObjectsInv, CreatedInv, AddedInv, RemovedInv, lists
<1> QED
  BY <1>2, <1>3, <1>4, <1>5

LEMMA Cleans ==
  ASSUME SafetyInv, CleanUp, UNCHANGED <<_in_fifo, lost, lists, created>>
  PROVE  (\A s : Kept(s)) /\ NestedInv' /\ ChainInv' /\ OrderInv' /\ ObjectsInv'
<1> USE DEF SafetyInv
<1>0. AddedInv /\ RemovedInv
  BY DEF ObjectsInv
<1>1. Executed' = lost /\ Executed' \subseteq Executed /\ ToSet(_out_fifo) \subseteq Executed
  <2>1. ToSet(<<>>) = {}
    BY DEF ToSet
  <2> QED
    BY <2>1 DEF Executed, CleanUp
<1>2. /\ Known' \subseteq Known
      /\ \A s, stage : Ends(s, stage)' = Ends(s, stage)
      /\ \A s, op : MayCome(s, op) => MayCome(s, op)'
      /\ ChainInv' /\ OrderInv'
  BY <1>1, QueueStays
<1>3. ASSUME NEW s, NEW op, NEW rem, rem \in SourceOps, s \in Of(rem, ToSet(_out_fifo)),
             MayCome(s, op)
      PROVE  MayFollow(rem, op)
  <2>1. PICK cmd \in ToSet(_out_fifo) : cmd.op = rem /\ cmd.of = s
    BY <1>3 DEF Of
  <2>2. cmd \in Known /\ IsFor(cmd, s)
    BY <1>1, <1>3, <2>1, Ops DEF Known, IsFor
  <2> QED
    BY <1>3, <2>1, <2>2 DEF MayCome
<1>4. ASSUME NEW s \in inputs, NEW op \in SourceOps, MayCome(s, op)
      PROVE  s \in inputs'
  BY <1>3, <1>4, Ops DEF CleanUp, SourceOps
<1>5. ASSUME NEW s \in sources, NEW op \in SourceOps \ {"rem_input"}, MayCome(s, op)
      PROVE  s \in sources'
  BY <1>3, <1>5, Ops DEF CleanUp, SourceOps
<1>6. \A s : Kept(s)
  BY <1>2, <1>4, <1>5 DEF Kept
<1>7. NestedInv'
  <2>1. \A s \in _input_list : s \notin Of("rem_input", ToSet(_out_fifo))
    BY <1>0, <1>1 DEF RemovedInv, Of
  <2>2. \A s \in _source_list : s \notin Of("rem_source", ToSet(_out_fifo))
    BY <1>0, <1>1 DEF RemovedInv, Of
  <2> QED
    BY <2>1, <2>2 DEF NestedInv, lists, CleanUp
<1>8. ASSUME NEW cmd \in ToSet(_in_fifo), cmd.op \in SourceOps, NEW rem \in SourceOps,
             cmd.of \in Of(rem, ToSet(_out_fifo))
      PROVE  MayFollow(rem, cmd.op)
  <2>1. _in_fifo \in Seq(Commands)
    BY DEF TypeOK
  <2>2. PICK i \in 1 .. Len(_in_fifo) : cmd = _in_fifo[i]
    BY <2>1, ToSets
  <2>3. cmd \in Commands
    BY <2>1, ToSets
  <2>4. cmd.of \in Sources /\ cmd.op # "wait"
    BY <1>8, <2>3, CommandTypes, Ops
  <2>5. PICK old \in ToSet(_out_fifo) : old.op = rem /\ old.of = cmd.of
    BY <1>8 DEF Of
  <2>6. old \in Executed /\ IsFor(old, cmd.of) /\ IsFor(_in_fifo[i], cmd.of)
    BY <1>1, <1>8, <2>2, <2>4, <2>5, Ops DEF IsFor
  <2> QED
    BY <2>2, <2>4, <2>5, <2>6 DEF OrderInv
<1>9. ObjectsInv'
  <2>1. \A cmd \in ToSet(_in_fifo) : /\ cmd.op = "add_input" => cmd.of \in inputs'
                                     /\ cmd.op = "add_source" => cmd.of \in sources'
    <3>1. ASSUME NEW cmd \in ToSet(_in_fifo), cmd.op = "add_input"
          PROVE  cmd.of \in inputs'
      <4>1. cmd.of \in inputs /\ cmd.op \in SourceOps /\ "rem_input" \in SourceOps
        BY <1>0, <3>1 DEF AddedInv, SourceOps
      <4> QED
        BY <1>8, <4>1, Ops DEF CleanUp
    <3>2. ASSUME NEW cmd \in ToSet(_in_fifo), cmd.op = "add_source"
          PROVE  cmd.of \in sources'
      <4>1. /\ cmd.of \in sources /\ cmd.op \in SourceOps /\ "rem_source" \in SourceOps
            /\ cmd.op # "rem_input"
        BY <1>0, <3>2 DEF AddedInv, SourceOps
      <4> QED
        BY <1>8, <4>1, Ops DEF CleanUp
    <3> QED
      BY <3>1, <3>2
  <2> QED
    <3>1. \A cmd \in Known' : cmd.op # "wait" => cmd.of <= created'
      BY <1>2 DEF ObjectsInv, CreatedInv, AddedInv, RemovedInv
    <3>2. \A cmd \in Executed' : /\ cmd.op = "rem_input" => cmd.of \notin _input_list'
                                 /\ cmd.op = "rem_source" => cmd.of \notin _source_list'
      BY <1>1 DEF ObjectsInv, CreatedInv, AddedInv, RemovedInv, lists
    <3>3. \A s \in inputs' : s <= created'
      BY DEF ObjectsInv, CreatedInv, AddedInv, RemovedInv, CleanUp
    <3>4. ToSet(_in_fifo)' = ToSet(_in_fifo)
      OBVIOUS
    <3>5. AddedInv'
      BY <2>1, <3>4 DEF AddedInv
    <3> QED
      BY <3>1, <3>2, <3>3, <3>5 DEF ObjectsInv, CreatedInv, RemovedInv
<1> QED
  BY <1>2, <1>6, <1>7, <1>9

LEMMA MapStays ==
  ASSUME SafetyInv, UNCHANGED _source_map, created' \in Nat, created <= created',
         \A s \in Mapped : Kept(s)
  PROVE  MapInv'
<1> USE DEF SafetyInv
<1>1. ASSUME NEW id \in Ids, _source_map[id] # 0
      PROVE  /\ _source_map'[id] <= created'
             /\ Ends(_source_map[id], 3)'
             /\ MayCome(_source_map[id], "set")'
             /\ _source_map'[id] \in inputs' \cap sources'
  <2>1. PICK s : s = _source_map[id]
    OBVIOUS
  <2>2. /\ s \in Mapped /\ s \in 0 .. MaxSources
        /\ s <= created /\ Ends(s, 3) /\ MayCome(s, "set") /\ s \in inputs \cap sources
    BY <1>1, <2>1 DEF MapInv, Mapped, TypeOK
  <2>3. Ends(s, 3)' /\ MayCome(s, "set")' /\ s \in inputs' \cap sources'
    BY <2>2 DEF Kept, SourceOps
  <2>4. _source_map'[id] = s
    BY <2>1
  <2>5. created \in Nat /\ s <= created'
    BY <2>2, BoundsAssumption DEF TypeOK
  <2> QED
    BY <2>3, <2>4, <2>5 DEF Ends, MayCome
<1> QED
  BY <1>1 DEF MapInv

LEMMA BusyOp ==
  ASSUME SafetyInv, NEW c \in Clients, Busy(c)
  PROVE  /\ NextOp(client[c]) \in SourceOps
         /\ client[c].then = "construct" => NextOp(client[c]) # "rem_input"
         /\ Holds(c)
         /\ client[c].source \in Sources
<1>1. /\ client[c] \in States /\ client[c].todo \in Todos(c, client[c])
      /\ client[c].source \in Sources /\ client[c].then # "poll" /\ Holds(c)
      /\ client[c].then \in {"construct", "register", "return", "next", "poll"}
  BY ClientTypes, BoundsAssumption
     DEF SafetyInv, TypeOK, ClientInv, ClientOK, TodoOK, BusyOK, Busy, AtWork, Holds, States, Sources
<1>2. CASE client[c].todo = <<>>
  BY <1>1, <1>2 DEF NextOp, SourceOps, Busy
<1>3. CASE client[c].todo # <<>>
  <2>1. PICK state, cmd, rest :
          /\ state = client[c] /\ cmd = Head(state.todo)
          /\ rest = Rest(state)
    OBVIOUS
  <2>2. NextOp(state) \in SourceOps
    <3>1. /\ rest \in States /\ rest.then = state.then /\ rest.source = state.source
          /\ rest.todo = Tail(state.todo)
      BY <1>1, <1>3, <2>1, RestState
    <3>2. /\ state \in States /\ state.todo \in Todos(c, state) /\ state.todo # <<>>
          /\ state.then # "poll" /\ state.source \in Sources /\ cmd = Head(state.todo)
      BY <1>1, <1>3, <2>1
    <3> QED
      BY <3>1, <3>2, TodoStep
  <2>3. ASSUME client[c].then = "construct"
        PROVE  NextOp(state) # "rem_input"
    <3>1. state.todo = <<Cmd("add_input", state.source)>>
      BY <1>1, <1>3, <2>1, <2>3, TodosOf
    <3>2. state.todo[1] = Cmd("add_input", state.source)
      BY <3>1
    <3> QED
      BY <1>3, <2>1, <3>2, Cmds DEF NextOp
  <2> QED
    BY <1>1, <2>1, <2>2, <2>3
<1> QED
  BY <1>2, <1>3

LEMMA OtherClients ==
  ASSUME SafetyInv, created' \in Nat, created <= created',
         NEW d \in Clients, client'[d] = client[d],
         \A s : Busy(d) /\ s = client[d].source =>
                 Kept(s) /\ \A id \in Ids : _source_map'[id] = s => _source_map[id] = s
  PROVE  ClientOK(d)'
<1> USE DEF SafetyInv
<1>1. ClientOK(d) /\ created \in Nat
  BY DEF ClientInv, TypeOK
<1>2. /\ AtWork(d)' = AtWork(d) /\ Busy(d)' = Busy(d) /\ Changes(d)' = Changes(d)
      /\ Todos(d, client[d])' = Todos(d, client[d]) /\ NextOp(client[d])' = NextOp(client[d])
  BY DEF AtWork, Busy, Changes, Todos, Removal, NextOp
<1>3. ASSUME Busy(d)
      PROVE  /\ client'[d].source \in 1 .. created'
             /\ Ends(client[d].source, Before(NextOp(client[d])))'
             /\ MayCome(client[d].source, NextOp(client[d]))'
             /\ client'[d].source \in inputs'
             /\ client[d].then = "construct" \/ NextOp(client[d]) = "rem_input"
                  \/ client'[d].source \in sources'
             /\ Changes(d) => \A id \in Ids : _source_map'[id] # client'[d].source
  <2>1. PICK s, op : s = client[d].source /\ op = NextOp(client[d])
    OBVIOUS
  <2>2. /\ s \in 1 .. created /\ Ends(s, Before(op)) /\ MayCome(s, op) /\ s \in inputs
        /\ client[d].then = "construct" \/ op = "rem_input" \/ s \in sources
        /\ Changes(d) => \A id \in Ids : _source_map[id] # s
    BY <1>1, <1>3, <2>1 DEF ClientOK, TodoOK, BusyOK
  <2>3. op \in SourceOps
    BY <1>3, <2>1, BusyOp
  <2>4. Kept(s) /\ \A id \in Ids : _source_map'[id] = s => _source_map[id] = s
    BY <1>3, <2>1
  <2>5. Ends(s, Before(op))' /\ MayCome(s, op)' /\ s \in inputs'
    BY <2>2, <2>3, <2>4 DEF Kept
  <2>6. client[d].then = "construct" \/ op = "rem_input" \/ s \in sources'
    BY <2>2, <2>3, <2>4 DEF Kept
  <2>7. s \in 1 .. created'
    BY <1>1, <2>2
  <2>8. client'[d].source = s /\ NextOp(client[d])' = op
    BY <1>2, <2>1
  <2>9. Ends(client[d].source, Before(NextOp(client[d])))'
    BY <2>5, <2>8 DEF Ends
  <2>10. MayCome(client[d].source, NextOp(client[d]))'
    BY <2>5, <2>8 DEF MayCome
  <2> QED
    BY <2>1, <2>2, <2>4, <2>5, <2>6, <2>7, <2>8, <2>9, <2>10
<1>4. /\ client'[d].at = "get" => client'[d].id \in Ids
      /\ client'[d].at \in {"get", "enter", "all"} => client'[d].then \in {"return", "next"}
      /\ client'[d].at = "inserting" => client'[d].todo # <<>>
      /\ AtWork(d)' => client'[d].todo \in Todos(d, client[d])'
  BY <1>1, <1>2 DEF ClientOK, TodoOK, BusyOK
<1>5. NextOp(client[d])' = NextOp(client[d]) /\ client'[d].then = client[d].then
  BY <1>2
<1>6. TodoOK(d)' /\ (Busy(d) => BusyOK(d)')
  BY <1>2, <1>3, <1>4, <1>5 DEF TodoOK, BusyOK
<1>7. Changes(d) => Busy(d)
  BY DEF Changes
<1> QED
  BY <1>2, <1>3, <1>6, <1>7 DEF ClientOK

------------------------------------------------------------------------------
(* The steps *)

LEMMA Facts ==
  ASSUME SafetyInv, NEW c \in Clients
  PROVE  /\ TypeOK /\ DataTypes /\ NestedInv /\ ChainInv /\ OrderInv /\ ObjectsInv
         /\ MapInv /\ ClientInv
         /\ client[c] \in States
         /\ client[c].id \in 0 .. MaxSources /\ client[c].source \in 0 .. MaxSources
         /\ client[c].todo \in Seq(Commands)
         /\ client[c].then \in {"construct", "register", "return", "next", "poll"}
         /\ ClientOK(c)
         /\ _highest_id \in 0 .. created /\ created \in 0 .. MaxSources /\ MaxSources \in Nat
         /\ \A id \in Ids : _source_map[id] \in 0 .. MaxSources
<1>1. TypeOK /\ DataTypes /\ client[c] \in States
  BY ClientTypes, TypeSplit DEF SafetyInv
<1>2. _highest_id \in 0 .. created /\ created \in 0 .. MaxSources /\ MaxSources \in Nat
  BY <1>1, BoundsAssumption DEF DataTypes, SafetyInv
<1> QED
  BY <1>1, <1>2 DEF DataTypes, SafetyInv, ClientInv, States

\* Whoever is busy holds the lock, and nobody else does.
LEMMA OneBusy ==
  ASSUME SafetyInv, NEW c \in Clients, NEW d \in Clients, Busy(d), Holds(c) \/ Unlocked
  PROVE  d = c
BY BusyOp DEF SafetyInv, TypeOK, Unlocked

\* A client changes nothing but its own state.
LEMMA Moves ==
  ASSUME SafetyInv, NEW c \in Clients, NEW state \in States, Become(c, state),
         state.at \in {"pushing", "inserting"} /\ state.then # "poll" => Holds(c) \/ Unlocked,
         UNCHANGED <<_source_map, created, lists, inputs, sources, _in_fifo, _out_fifo, lost>>,
         _highest_id' \in 0 .. created, done' \subseteq Clients,
         ClientOK(c)'
  PROVE  SafetyInv'
<1> USE DEF lists
<1>1. TypeOK'
  <2>1. client' \in [Clients -> States] /\ LockInv'
    BY Facts, LockStep
  <2>2. _highest_id' \in 0 .. MaxSources
    BY Facts
  <2>3. DataTypes'
    BY <2>2, Facts DEF DataTypes
  <2> QED
    BY <2>1, <2>3, TypeSplit
<1>2. created' \in Nat /\ created <= created' /\ \A s \in inputs' : s <= created'
  BY Facts DEF ObjectsInv
<1>3. (\A s : Kept(s)) /\ NestedInv' /\ ChainInv' /\ OrderInv' /\ ObjectsInv'
  BY <1>2, Quiet
<1>4. MapInv'
  BY <1>2, <1>3, MapStays
<1>5. ASSUME NEW d \in Clients
      PROVE  ClientOK(d)'
  <2>1. CASE d = c
    BY <2>1
  <2>2. CASE d # c
    <3>1. client'[d] = client[d]
      BY <2>2, Facts, ClientTypes DEF Become
    <3> QED
      BY <1>2, <1>3, <3>1, OtherClients
  <2> QED
    BY <2>1, <2>2
<1> QED
  BY <1>1, <1>2, <1>3, <1>4, <1>5 DEF SafetyInv, ClientInv

\* What has to be shown of a client's new state.
LEMMA NewState ==
  ASSUME NEW c \in Clients, NEW state, client'[c] = state,
         NEW s, s = state.source, NEW op, op = NextOp(state),
         state.at = "get" => state.id \in Ids,
         state.at \in {"get", "enter", "all"} => state.then \in {"return", "next"},
         state.at = "inserting" => state.todo # <<>>,
         state.at \in {"pushing", "inserting"} => state.todo \in Todos(c, state),
         /\ state.at \in {"pushing", "inserting"}
         /\ \/ state.then \in {"construct", "register"}
            \/ state.then \in {"return", "next"} /\ state.todo # <<>>
         => /\ s \in 1 .. created' /\ Ends(s, Before(op))' /\ MayCome(s, op)' /\ s \in inputs'
            /\ state.then = "construct" \/ op = "rem_input" \/ s \in sources'
            /\ op # "set" \/ state.then = "register" => \A id \in Ids : _source_map'[id] # s
  PROVE  ClientOK(c)'
<1>1. NextOp(client[c])' = op /\ client'[c].source = s /\ Todos(c, client[c])' = Todos(c, state)
  BY DEF NextOp, Todos, Removal
<1>2. TodoOK(c)'
  BY <1>1 DEF TodoOK, AtWork
<1>3. Busy(c)' => BusyOK(c)'
  <2> SUFFICES ASSUME Busy(c)'
               PROVE  BusyOK(c)'
    OBVIOUS
  <2>1. /\ s \in 1 .. created' /\ Ends(s, Before(op))' /\ MayCome(s, op)' /\ s \in inputs'
        /\ state.then = "construct" \/ op = "rem_input" \/ s \in sources'
    BY DEF Busy, AtWork
  <2>2. Ends(client[c].source, Before(NextOp(client[c])))'
    BY <1>1, <2>1 DEF Ends
  <2>3. MayCome(client[c].source, NextOp(client[c]))'
    BY <1>1, <2>1 DEF MayCome
  <2> QED
    BY <1>1, <2>1, <2>2, <2>3 DEF BusyOK
<1>4. Changes(c)' => \A id \in Ids : _source_map'[id] # client'[c].source
  BY <1>1 DEF Changes, Busy, AtWork
<1> QED
  BY <1>2, <1>3, <1>4 DEF ClientOK

LEMMA LeavesStep ==
  ASSUME SafetyInv, NEW c \in Clients,
         \/ \E id \in Ids : delete_source(c, id)
         \/ Return(c) \/ get_source(c) \/ delete_all_sources(c) \/ RemNext(c) \/ WaitReturns(c)
  PROVE  SafetyInv'
<1>1. PICK state \in States :
        /\ Become(c, state)
        /\ state.at \notin {"pushing", "inserting"}
        /\ state.at = "get" => state.id \in Ids
        /\ state.at \in {"get", "enter", "all"} => state.then \in {"return", "next"}
  <2> DEFINE Leaves(st) == /\ Become(c, st) /\ st \in States
                           /\ st.at \notin {"pushing", "inserting"}
                           /\ st.at = "get" => st.id \in Ids
                           /\ st.at \in {"get", "enter", "all"} => st.then \in {"return", "next"}
  <2> SUFFICES \E st : Leaves(st)
    OBVIOUS
  <2>0. PICK idle \in States : /\ idle = Idle
                               /\ idle.at = "idle" /\ idle.then = "return"
    BY IdleState
  <2>1. ASSUME NEW id \in Ids, delete_source(c, id)
        PROVE  \E st : Leaves(st)
    <3>1. PICK st : st = [idle EXCEPT !.at = "get", !.id = id]
      OBVIOUS
    <3>2. Become(c, st)
      BY <2>0, <2>1, <3>1 DEF delete_source
    <3>3. st.id = id /\ st.then = "return"
      BY <2>0, <3>1 DEF States
    <3>4. 0 \in 0 .. MaxSources /\ id \in 0 .. MaxSources
      BY BoundsAssumption DEF Ids
    <3>5. st \in States /\ st.at = "get"
      BY <3>1, <3>4 DEF States
    <3> QED
      BY <3>2, <3>3, <3>5
  <2>2. ASSUME Become(c, [Idle EXCEPT !.at = "all"])
        PROVE  \E st : Leaves(st)
    <3>1. PICK st : st = [idle EXCEPT !.at = "all"]
      OBVIOUS
    <3>2. st \in States /\ st.at = "all" /\ st.then = "return"
      BY <2>0, <3>1 DEF States
    <3> QED
      BY <2>0, <2>2, <3>1, <3>2
  <2>3. ASSUME Become(c, [Idle EXCEPT !.at = "poll"])
        PROVE  \E st : Leaves(st)
    <3>1. PICK st : st = [idle EXCEPT !.at = "poll"]
      OBVIOUS
    <3>2. st \in States /\ st.at = "poll"
      BY <2>0, <3>1 DEF States
    <3> QED
      BY <2>0, <2>3, <3>1, <3>2
  <2>4. ASSUME Become(c, Idle)
        PROVE  \E st : Leaves(st)
    BY <2>0, <2>4
  <2>5. CASE get_source(c)
    <3>1. PICK before, st, source :
            /\ before = client[c]
            /\ source = _source_map[before.id]
            /\ st = [before EXCEPT !.at = "enter", !.source = source]
      OBVIOUS
    <3>2. Become(c, st)
      BY <2>5, <3>1 DEF get_source
    <3>3. /\ before \in States /\ source \in 0 .. MaxSources
          /\ before.then \in {"return", "next"}
      BY <2>5, <3>1, Facts DEF get_source, ClientOK, TodoOK
    <3>4. st \in States /\ st.at = "enter" /\ st.then = before.then
      BY <3>1, <3>3 DEF States
    <3> QED
      BY <3>2, <3>3, <3>4
  <2>6. CASE RemNext(c)
    <3>1. PICK id \in Ids :
            Become(c, [client[c] EXCEPT !.at = "enter", !.id = id,
                                        !.source = _source_map[id], !.then = "next"])
      BY <2>6 DEF RemNext
    <3>2. PICK before, st, source :
            /\ before = client[c]
            /\ source = _source_map[id]
            /\ st = [before EXCEPT !.at = "enter", !.id = id, !.source = source, !.then = "next"]
      OBVIOUS
    <3>3. Become(c, st)
      BY <3>1, <3>2
    <3>4. before \in States /\ id \in 0 .. MaxSources /\ source \in 0 .. MaxSources
      BY <3>2, Facts DEF Ids
    <3>5. st \in States /\ st.at = "enter" /\ st.then = "next"
      BY <3>2, <3>4 DEF States
    <3> QED
      BY <3>3, <3>5
  <2> QED
    BY <2>1, <2>2, <2>3, <2>4, <2>5, <2>6 DEF Return, delete_all_sources, WaitReturns
<1>2. UNCHANGED <<objects, lists, queue>>
  BY DEF delete_source, Return, get_source, delete_all_sources, RemNext, WaitReturns
<1>3. client'[c] = state
  BY <1>1, Facts, ClientTypes DEF Become
<1>4. ClientOK(c)'
  BY <1>1, <1>3 DEF ClientOK, TodoOK, AtWork, Busy, Changes
<1> QED
  BY <1>1, <1>2, <1>4, Facts, Moves DEF objects, lists, queue, DataTypes

LEMMA ExecuteStep ==
  ASSUME SafetyInv, Execute
  PROVE  SafetyInv'
<1> USE DEF SafetyInv
<1>1. TypeOK'
  BY ExecuteTypes
<1>2. /\ Known' = Known /\ Executed' = Executed \cup {Head(_in_fifo)} /\ _in_fifo' = Tail(_in_fifo)
      /\ \A s \in Sources : \A stage : Ends(s, stage) => Ends(s, stage)'
      /\ \A s, op : MayCome(s, op) => MayCome(s, op)'
      /\ ChainInv' /\ OrderInv'
  BY Executes
<1>3. UNCHANGED <<objects, inputs, sources, done, client>>
  BY DEF Execute
<1> USE DEF objects
<1>4. \A s \in Sources : Kept(s)
  BY <1>2, <1>3 DEF Kept
<1> DEFINE cmd == Head(_in_fifo)
<1>5. /\ cmd = _in_fifo[1] /\ cmd \in Commands /\ cmd \in ToSet(_in_fifo) /\ 1 \in 1 .. Len(_in_fifo)
      /\ ToSet(_in_fifo') \subseteq ToSet(_in_fifo)
  BY <1>2, ToSets DEF TypeOK, Execute
<1>6. cmd.op \in SourceOps => cmd.of \in Sources /\ IsFor(cmd, cmd.of)
  BY <1>5, CommandTypes, Ops DEF IsFor
<1>7. /\ connected' \subseteq _source_list' /\ _source_list' \subseteq _input_list'
      /\ \A s : s \in _input_list' => s \in _input_list \/ (cmd.op = "add_input" /\ cmd.of = s)
      /\ \A s : s \in _source_list' => s \in _source_list \/ (cmd.op = "add_source" /\ cmd.of = s)
      /\ \A s : cmd.op = "rem_input" /\ cmd.of = s => s \notin _input_list'
      /\ \A s : cmd.op = "rem_source" /\ cmd.of = s => s \notin _source_list'
  <2>1. connected' \subseteq _source_list' /\ _source_list' \subseteq _input_list'
    BY StageStep
  <2>2. /\ _input_list' = (_input_list \cup Of("add_input", {cmd})) \ Of("rem_input", {cmd})
        /\ _source_list' = (_source_list \cup Of("add_source", {cmd})) \ Of("rem_source", {cmd})
    BY DEF Execute
  <2>3. \A op, x : x \in Of(op, {cmd}) <=> (cmd.op = op /\ cmd.of = x)
    BY DEF Of
  <2> QED
    BY <2>1, <2>2, <2>3
<1> HIDE DEF cmd
<1>8. AddedInv /\ CreatedInv /\ RemovedInv
  BY DEF ObjectsInv
<1>9. NestedInv'
  BY <1>3, <1>5, <1>7, <1>8 DEF NestedInv, AddedInv
<1>10. RemovedInv'
  <2>1. ASSUME NEW old \in Executed, NEW rem \in {"rem_input", "rem_source"}, old.op = rem,
               NEW op \in {"add_input", "add_source"}, cmd.op = op, cmd.of = old.of,
               MayFollow(rem, op)
        PROVE  FALSE
    BY <2>1 DEF MayFollow, Rank
  <2>2. ASSUME NEW old \in Executed, old.op \in {"rem_input", "rem_source"},
               cmd.op \in {"add_input", "add_source"}
        PROVE  cmd.of # old.of
    <3> SUFFICES ASSUME cmd.of = old.of
                 PROVE  FALSE
      OBVIOUS
    <3>1. cmd.of \in Sources /\ IsFor(_in_fifo[1], cmd.of) /\ IsFor(old, cmd.of)
      BY <1>5, <1>6, <2>2 DEF IsFor, SourceOps
    <3>2. MayFollow(old.op, _in_fifo[1].op)
      BY <1>5, <2>2, <3>1 DEF OrderInv
    <3> QED
      BY <1>5, <2>1, <2>2, <3>2
  <2>3. ASSUME NEW old \in Executed, old.op = "rem_input"
        PROVE  old.of \notin _input_list'
    BY <1>7, <1>8, <2>2, <2>3 DEF RemovedInv
  <2>4. ASSUME NEW old \in Executed, old.op = "rem_source"
        PROVE  old.of \notin _source_list'
    BY <1>7, <1>8, <2>2, <2>4 DEF RemovedInv
  <2>5. Executed' = Executed \cup {cmd}
    BY <1>2 DEF cmd
  <2> QED
    BY <1>7, <2>3, <2>4, <2>5 DEF RemovedInv
<1>11. ObjectsInv'
  <2>1. CreatedInv'
    BY <1>2, <1>3, <1>8 DEF CreatedInv
  <2>2. AddedInv'
    BY <1>3, <1>5, <1>8 DEF AddedInv
  <2> QED
    BY <1>3, <1>10, <2>1, <2>2 DEF ObjectsInv
<1>12. created' \in Nat /\ created <= created'
  BY <1>3, BoundsAssumption DEF TypeOK
<1>13. MapInv'
  <2>1. Mapped \subseteq Sources
    BY BoundsAssumption DEF Mapped, TypeOK, Sources, Ids
  <2> QED
    BY <1>3, <1>4, <1>12, <2>1, MapStays
<1>14. ClientInv'
  <2> SUFFICES ASSUME NEW d \in Clients
               PROVE  ClientOK(d)'
    BY DEF ClientInv
  <2>1. Busy(d) => client[d].source \in Sources
    BY BusyOp
  <2> QED
    BY <1>3, <1>4, <1>12, <2>1, OtherClients
<1> QED
  BY <1>1, <1>2, <1>3, <1>9, <1>11, <1>13, <1>14

\* push() and wait() clean up.
LEMMA CleanUpStep ==
  ASSUME SafetyInv, NEW c \in Clients, Push(c) \/ Poll(c)
  PROVE  SafetyInv'
<1> USE DEF objects, lists
<1>1. CleanUp /\ UNCHANGED <<objects, lists, _in_fifo, lost>>
  BY DEF Push, Poll
<1>2. (\A s : Kept(s)) /\ NestedInv' /\ ChainInv' /\ OrderInv' /\ ObjectsInv'
  BY <1>1, Cleans
<1>3. created' \in Nat /\ created <= created' /\ _highest_id' <= created'
  BY <1>1, Facts
<1>4. MapInv'
  BY <1>1, <1>2, <1>3, MapStays
<1>5. DataTypes'
  BY <1>1, Facts, CleanUpTypes DEF DataTypes
<1>6. /\ client' \in [Clients -> States] /\ LockInv'
      /\ ClientOK(c)'
      /\ \A d \in Clients \ {c} : client'[d] = client[d]
  <2>1. CASE Poll(c)
    <3>1. client' = client
      BY <2>1 DEF Poll
    <3>2. client' \in [Clients -> States] /\ LockInv'
      BY <3>1, Facts, TypeSplit DEF LockInv, Holds
    <3> QED
      BY <1>2, <1>3, <3>1, <3>2, <1>1, OtherClients
  <2>2. CASE Push(c)
    <3>0. PICK before, state : /\ before = client[c] /\ before \in States
                               /\ state = [before EXCEPT !.at = "inserting"]
      BY Facts
    <3>1. /\ state \in States /\ state.at = "inserting" /\ state.then = client[c].then
          /\ state.todo = client[c].todo /\ state.source = client[c].source
      <4>1. /\ state \in States /\ state.at = "inserting" /\ state.then = before.then
            /\ state.todo = before.todo /\ state.source = before.source
        BY <3>0 DEF States
      <4> QED
        BY <3>0, <4>1
    <3>2. Become(c, state) /\ (state.then # "poll" => Holds(c)) /\ client[c].at = "pushing"
      BY <2>2, <3>0, <3>1 DEF Push, Holds
    <3>3. /\ client' \in [Clients -> States] /\ LockInv'
          /\ client'[c] = state
          /\ \A d \in Clients \ {c} : client'[d] = client[d]
      BY <3>1, <3>2, Facts, LockStep, ClientTypes DEF Become
    <3>4. PICK s, op : s = state.source /\ op = NextOp(state)
      OBVIOUS
    <3>5. /\ Todos(c, state) = Todos(c, client[c])
          /\ NextOp(state) = NextOp(client[c])
          /\ s = client[c].source /\ state.then = client[c].then /\ state.todo = client[c].todo
      BY <3>1, <3>4 DEF Todos, NextOp
    <3>6. ASSUME Busy(c)
          PROVE  /\ s \in 1 .. created' /\ Ends(s, Before(op))' /\ MayCome(s, op)' /\ s \in inputs'
                 /\ state.then = "construct" \/ op = "rem_input" \/ s \in sources'
                 /\ Changes(c) => \A id \in Ids : _source_map'[id] # s
      <4>1. /\ s \in 1 .. created /\ Ends(s, Before(op)) /\ MayCome(s, op) /\ s \in inputs
            /\ state.then = "construct" \/ op = "rem_input" \/ s \in sources
            /\ Changes(c) => \A id \in Ids : _source_map[id] # s
            /\ op \in SourceOps
        BY <3>4, <3>5, <3>6, Facts, BusyOp DEF ClientOK, BusyOK
      <4> QED
        BY <1>1, <1>2, <4>1 DEF Kept
    <3>7. state.todo # <<>> /\ state.todo \in Todos(c, state)
      BY <2>2, <3>5, Facts DEF Push, ClientOK, TodoOK, AtWork
    <3>8. state.then \in {"construct", "register", "return", "next"} => Busy(c)
      BY <2>2, <3>5, <3>7 DEF Busy, AtWork, Push
    <3>9. Busy(c) /\ (op # "set" \/ state.then = "register") => Changes(c)
      BY <3>4, <3>5 DEF Changes
    <3>10. ClientOK(c)'
      BY <3>1, <3>3, <3>4, <3>6, <3>7, <3>8, <3>9, NewState
    <3> QED
      BY <3>3, <3>10
  <2> QED
    BY <2>1, <2>2
<1>7. ClientInv'
  <2> SUFFICES ASSUME NEW d \in Clients
               PROVE  ClientOK(d)'
    BY DEF ClientInv
  <2> QED
    BY <1>1, <1>2, <1>3, <1>6, OtherClients
<1> QED
  BY <1>2, <1>3, <1>4, <1>5, <1>6, <1>7, TypeSplit DEF SafetyInv

\* What it means that a client inserts the command cmd, with rest left to do.
Insertion(c, state, cmd, rest, s, op) ==
  /\ state = client[c] /\ s = state.source /\ op = NextOp(state)
  /\ state \in States /\ state.at = "inserting"
  /\ state.then \in {"construct", "register", "return", "next", "poll"}
  /\ state.todo # <<>> /\ state.todo \in Todos(c, state)
  /\ _in_fifo' = Append(_in_fifo, cmd)
  /\ Become(c, rest)
  /\ UNCHANGED <<objects, lists, inputs, sources, _out_fifo, lost, done>>
  /\ state.then # "poll" =>
       /\ Busy(c)
       /\ s \in 1 .. created /\ Ends(s, Before(op)) /\ MayCome(s, op) /\ s \in inputs
       /\ state.then = "construct" \/ op = "rem_input" \/ s \in sources
       /\ op # "set" \/ state.then = "register" => \A id \in Ids : _source_map[id] # s
       /\ s \in Sources
       /\ Holds(c)
  /\ cmd \in Commands /\ rest \in States
  /\ rest.at = "pushing" /\ rest.then = state.then /\ rest.source = s
  /\ rest.id = state.id
  /\ rest.todo \in Todos(c, rest)
  /\ IF state.then = "poll" THEN cmd = Cmd("wait", c) /\ rest.todo = <<>>
     ELSE /\ cmd.of = s /\ cmd.op \in SourceOps /\ cmd.op = op
          /\ state.then \in {"construct", "register"} \/ rest.todo # <<>> =>
               /\ After(cmd.op) = Before(NextOp(rest))
               /\ MayFollow(cmd.op, NextOp(rest))
               /\ cmd.op # "set"
          /\ rest.todo # <<>> => NextOp(rest) # "set"
          /\ state.then \in {"construct", "register"} => NextOp(rest) # "rem_input"
  /\ cmd.op = "wait" <=> state.then = "poll"
  /\ cmd.op # "wait" => Ends(cmd.of, Before(cmd.op)) /\ MayCome(cmd.of, cmd.op)
  /\ cmd.op # "wait" => cmd.of = s
  /\ Known' = Known \cup {cmd} /\ Executed' = Executed
  /\ ToSet(_in_fifo)' = ToSet(_in_fifo) \cup {cmd}
  /\ \A t, stage : ~ IsFor(cmd, t) /\ Ends(t, stage) => Ends(t, stage)'
  /\ \A t : IsFor(cmd, t) => Ends(t, After(cmd.op))'
  /\ \A t, next : MayCome(t, next) /\ (IsFor(cmd, t) => MayFollow(cmd.op, next))
                    => MayCome(t, next)'
  /\ ChainInv' /\ OrderInv'
  /\ client'[c] = rest /\ \A d \in Clients \ {c} : client'[d] = client[d]
  /\ state.then = "construct" => cmd.op = "add_input"
  /\ state.then \in {"return", "next"} =>
       IF rest.todo = <<>> THEN op \in {"rem_input", "set"} ELSE op \in {"disconnect", "rem_source"}

\* The last command of a removal.
LEMMA Removing ==
  ASSUME NEW c, NEW state, state.then \in {"return", "next"},
         state.todo \in Todos(c, state), state.todo # <<>>
  PROVE  IF Tail(state.todo) = <<>> THEN NextOp(state) \in {"rem_input", "set"}
         ELSE NextOp(state) \in {"disconnect", "rem_source"}
<1>1. PICK s, todo : s = state.source /\ todo = state.todo
  OBVIOUS
<1>2. todo \in Removal(s) \cup { <<Cmd("set", s)>> }
  BY <1>1, TodosOf
<1>3. NextOp(state) = todo[1].op
  BY <1>1 DEF NextOp
<1>4. ASSUME NEW x, NEW y, NEW z
      PROVE  /\ <<x>>[1] = x /\ <<x, y>>[1] = x /\ <<x, y, z>>[1] = x
             /\ Tail(<<x>>) = <<>> /\ Tail(<<x, y>>) # <<>> /\ Tail(<<x, y, z>>) # <<>>
  BY Tuples
<1>5. CASE todo = <<Cmd("set", s)>>
  BY <1>1, <1>3, <1>4, <1>5, Cmds
<1>6. CASE todo = <<Cmd("rem_input", s)>>
  BY <1>1, <1>3, <1>4, <1>6, Cmds
<1>7. CASE todo = <<Cmd("rem_source", s), Cmd("rem_input", s)>>
  BY <1>1, <1>3, <1>4, <1>7, Cmds
<1>8. CASE todo = <<Cmd("disconnect", s), Cmd("rem_source", s), Cmd("rem_input", s)>>
  BY <1>1, <1>3, <1>4, <1>8, Cmds
<1> QED
  BY <1>1, <1>2, <1>5, <1>6, <1>7, <1>8 DEF Removal

LEMMA Inserting ==
  ASSUME SafetyInv, NEW c \in Clients, Insert(c)
  PROVE  \E state, cmd, rest, s, op : Insertion(c, state, cmd, rest, s, op)
<1> USE DEF objects, lists
<1>1. PICK state, cmd, rest :
        /\ state = client[c] /\ cmd = Head(state.todo)
        /\ rest = Rest(state)
  OBVIOUS
<1>2. PICK s, op : s = state.source /\ op = NextOp(state)
  OBVIOUS
<1>3. /\ state \in States /\ state.at = "inserting"
      /\ state.then \in {"construct", "register", "return", "next", "poll"}
      /\ state.todo # <<>> /\ state.todo \in Todos(c, state)
  BY <1>1, Facts DEF Insert, ClientOK, TodoOK, AtWork
<1>4. /\ _in_fifo' = Append(_in_fifo, cmd)
      /\ Become(c, rest)
      /\ UNCHANGED <<objects, lists, inputs, sources, _out_fifo, lost, done>>
  BY <1>1 DEF Insert, Rest
<1>5. state.then # "poll" =>
        /\ Busy(c)
        /\ s \in 1 .. created /\ Ends(s, Before(op)) /\ MayCome(s, op) /\ s \in inputs
        /\ state.then = "construct" \/ op = "rem_input" \/ s \in sources
        /\ op # "set" \/ state.then = "register" => \A id \in Ids : _source_map[id] # s
        /\ s \in Sources
        /\ Holds(c)
  <2> SUFFICES ASSUME state.then # "poll"
               PROVE  /\ Busy(c)
                      /\ s \in 1 .. created /\ Ends(s, Before(op)) /\ MayCome(s, op) /\ s \in inputs
                      /\ state.then = "construct" \/ op = "rem_input" \/ s \in sources
                      /\ op # "set" \/ state.then = "register" => \A id \in Ids : _source_map[id] # s
                      /\ s \in Sources
                      /\ Holds(c)
    OBVIOUS
  <2>1. Busy(c) /\ Holds(c)
    BY <1>1, <1>3 DEF Busy, AtWork, Holds
  <2>2. BusyOK(c) /\ s \in Sources
    BY <1>1, <1>2, <2>1, Facts, BusyOp DEF ClientOK
  <2>3. op # "set" \/ state.then = "register" => \A id \in Ids : _source_map[id] # s
    BY <1>1, <1>2, <2>1, Facts DEF ClientOK, Changes
  <2> QED
    BY <1>1, <1>2, <2>1, <2>2, <2>3 DEF BusyOK
<1>6. state.then = "poll" \/ state.source \in Sources
  BY <1>2, <1>5
<1>7. /\ cmd \in Commands /\ rest \in States
      /\ rest.at = "pushing" /\ rest.then = state.then /\ rest.source = s
      /\ rest.id = state.id
      /\ rest.todo \in Todos(c, rest)
      /\ IF state.then = "poll" THEN cmd = Cmd("wait", c) /\ rest.todo = <<>>
         ELSE /\ cmd.of = s /\ cmd.op \in SourceOps /\ cmd.op = op
              /\ state.then \in {"construct", "register"} \/ rest.todo # <<>> =>
                   /\ After(cmd.op) = Before(NextOp(rest))
                   /\ MayFollow(cmd.op, NextOp(rest))
                   /\ cmd.op # "set"
              /\ rest.todo # <<>> => NextOp(rest) # "set"
              /\ state.then \in {"construct", "register"} => NextOp(rest) # "rem_input"
  <2>0. /\ rest \in States
        /\ rest.at = "pushing" /\ rest.then = state.then /\ rest.source = state.source
        /\ rest.id = state.id /\ rest.todo = Tail(state.todo)
    BY <1>1, <1>3, RestState
  <2>1. /\ cmd \in Commands
        /\ rest.todo \in Todos(c, rest)
        /\ IF state.then = "poll" THEN cmd = Cmd("wait", c) /\ rest.todo = <<>>
           ELSE /\ cmd.of = state.source
                /\ cmd.op \in SourceOps
                /\ cmd.op = NextOp(state)
                /\ state.then \in {"construct", "register"} \/ rest.todo # <<>> =>
                     /\ After(cmd.op) = Before(NextOp(rest))
                     /\ MayFollow(cmd.op, NextOp(rest))
                     /\ cmd.op # "set"
                /\ rest.todo # <<>> => NextOp(rest) # "set"
                /\ state.then \in {"construct", "register"} => NextOp(rest) # "rem_input"
    <3>1. cmd = Head(state.todo)
      BY <1>1
    <3> QED
      BY <1>3, <1>6, <2>0, <3>1, TodoStep
  <2> QED
    BY <1>2, <2>0, <2>1
<1>8. /\ cmd.op = "wait" <=> state.then = "poll"
      /\ cmd.op # "wait" => Ends(cmd.of, Before(cmd.op)) /\ MayCome(cmd.of, cmd.op)
      /\ cmd.op # "wait" => cmd.of = s
  BY <1>5, <1>7, Cmds, Ops
<1>9. /\ Known' = Known \cup {cmd} /\ Executed' = Executed
      /\ ToSet(_in_fifo)' = ToSet(_in_fifo) \cup {cmd}
      /\ \A t, stage : ~ IsFor(cmd, t) /\ Ends(t, stage) => Ends(t, stage)'
      /\ \A t : IsFor(cmd, t) => Ends(t, After(cmd.op))'
      /\ \A t, next : MayCome(t, next) /\ (IsFor(cmd, t) => MayFollow(cmd.op, next))
                        => MayCome(t, next)'
      /\ ChainInv' /\ OrderInv'
  <2>1. TypeOK /\ ChainInv /\ OrderInv
    BY Facts
  <2> QED
    BY <1>4, <1>7, <1>8, <2>1, Inserts
<1>10. client'[c] = rest /\ \A d \in Clients \ {c} : client'[d] = client[d]
  BY <1>4, <1>7, Facts, ClientTypes DEF Become
<1>11. state.then = "construct" => cmd.op = "add_input"
  <2> SUFFICES ASSUME state.then = "construct"
               PROVE  cmd.op = "add_input"
    OBVIOUS
  <2>1. state.todo = <<Cmd("add_input", s)>>
    BY <1>2, <1>3, TodosOf
  <2> QED
    BY <1>1, <2>1, Tuples, Cmds
<1>12. state.then \in {"return", "next"} =>
         IF rest.todo = <<>> THEN op \in {"rem_input", "set"} ELSE op \in {"disconnect", "rem_source"}
  <2>1. rest.todo = Tail(state.todo)
    BY <1>1, <1>3, RestState
  <2> QED
    BY <1>2, <1>3, <2>1, Removing
<1>13. Insertion(c, state, cmd, rest, s, op)
  BY <1>1, <1>2, <1>3, <1>4, <1>5, <1>7, <1>8, <1>9, <1>10, <1>11, <1>12 DEF Insertion
<1> QED
  BY <1>13

\* A command that is pushed continues where its source's commands end.
LEMMA InsertStep ==
  ASSUME SafetyInv, NEW c \in Clients, Insert(c)
  PROVE  SafetyInv'
<1> USE DEF objects, lists
<1>1. PICK state, cmd, rest, s, op : Insertion(c, state, cmd, rest, s, op)
  BY Inserting
<1>3. /\ state \in States /\ state.at = "inserting"
      /\ state.then \in {"construct", "register", "return", "next", "poll"}
      /\ state.todo # <<>> /\ state.todo \in Todos(c, state)
  BY <1>1 DEF Insertion
<1>4. /\ _in_fifo' = Append(_in_fifo, cmd)
      /\ Become(c, rest)
      /\ UNCHANGED <<objects, lists, inputs, sources, _out_fifo, lost, done>>
  BY <1>1 DEF Insertion
<1>5. state.then # "poll" =>
        /\ Busy(c)
        /\ s \in 1 .. created /\ Ends(s, Before(op)) /\ MayCome(s, op) /\ s \in inputs
        /\ state.then = "construct" \/ op = "rem_input" \/ s \in sources
        /\ op # "set" \/ state.then = "register" => \A id \in Ids : _source_map[id] # s
        /\ s \in Sources
        /\ Holds(c)
  BY <1>1 DEF Insertion
<1>7. /\ cmd \in Commands /\ rest \in States
      /\ rest.at = "pushing" /\ rest.then = state.then /\ rest.source = s
      /\ rest.id = state.id
      /\ rest.todo \in Todos(c, rest)
      /\ IF state.then = "poll" THEN cmd = Cmd("wait", c) /\ rest.todo = <<>>
         ELSE /\ cmd.of = s /\ cmd.op \in SourceOps /\ cmd.op = op
              /\ state.then \in {"construct", "register"} \/ rest.todo # <<>> =>
                   /\ After(cmd.op) = Before(NextOp(rest))
                   /\ MayFollow(cmd.op, NextOp(rest))
                   /\ cmd.op # "set"
              /\ rest.todo # <<>> => NextOp(rest) # "set"
              /\ state.then \in {"construct", "register"} => NextOp(rest) # "rem_input"
  BY <1>1 DEF Insertion
<1>8. /\ cmd.op = "wait" <=> state.then = "poll"
      /\ cmd.op # "wait" => Ends(cmd.of, Before(cmd.op)) /\ MayCome(cmd.of, cmd.op)
      /\ cmd.op # "wait" => cmd.of = s
  BY <1>1 DEF Insertion
<1>9. /\ Known' = Known \cup {cmd} /\ Executed' = Executed
      /\ ToSet(_in_fifo)' = ToSet(_in_fifo) \cup {cmd}
      /\ \A t, stage : ~ IsFor(cmd, t) /\ Ends(t, stage) => Ends(t, stage)'
      /\ \A t : IsFor(cmd, t) => Ends(t, After(cmd.op))'
      /\ \A t, next : MayCome(t, next) /\ (IsFor(cmd, t) => MayFollow(cmd.op, next))
                        => MayCome(t, next)'
      /\ ChainInv' /\ OrderInv'
  BY <1>1 DEF Insertion
<1>10. TypeOK'
  <2>1. _in_fifo' \in Seq(Commands)
    BY <1>4, <1>7, Facts, ToSets DEF DataTypes
  <2>2. DataTypes'
    BY <1>4, <2>1, Facts DEF DataTypes
  <2>3. client' \in [Clients -> States] /\ LockInv'
    BY <1>4, <1>5, <1>7, Facts, LockStep
  <2> QED
    BY <2>2, <2>3, TypeSplit
<1>11. NestedInv'
  BY <1>4, Facts DEF NestedInv
<1>12. state.then = "construct" => cmd.op = "add_input"
  BY <1>1 DEF Insertion
<1>13. ObjectsInv'
  <2>1. CreatedInv /\ AddedInv /\ RemovedInv /\ \A t \in inputs : t <= created
    BY Facts DEF ObjectsInv
  <2>2. CreatedInv'
    BY <1>4, <1>5, <1>8, <1>9, <2>1, Facts DEF CreatedInv
  <2>3. AddedInv'
    BY <1>4, <1>5, <1>7, <1>8, <1>9, <1>12, <2>1 DEF AddedInv
  <2>4. RemovedInv'
    BY <1>4, <1>9, <2>1 DEF RemovedInv
  <2> QED
    BY <1>4, <2>1, <2>2, <2>3, <2>4 DEF ObjectsInv
<1>14. \A t : ~ IsFor(cmd, t) => Kept(t)
  BY <1>4, <1>9 DEF Kept
<1>15. MapInv'
  <2>1. ASSUME NEW id \in Ids, _source_map[id] # 0
        PROVE  /\ Ends(_source_map[id], 3)'
               /\ MayCome(_source_map[id], "set")'
    <3>1. PICK t : t = _source_map[id]
      OBVIOUS
    <3>2. Ends(t, 3) /\ MayCome(t, "set")
      BY <2>1, <3>1, Facts DEF MapInv
    <3>3. CASE ~ IsFor(cmd, t)
      <4>1. Ends(t, 3)' /\ MayCome(t, "set")'
        BY <1>9, <3>2, <3>3
      <4> QED
        BY <1>4, <3>1, <4>1 DEF Ends, MayCome
    <3>4. CASE IsFor(cmd, t)
      <4>1. t = s /\ cmd.op = "set"
        BY <1>5, <1>7, <1>8, <3>1, <3>4 DEF IsFor
      <4>2. After("set") = 3 /\ MayFollow("set", "set")
        BY DEF After, MayFollow
      <4>3. Ends(t, 3)' /\ MayCome(t, "set")'
        BY <1>9, <3>2, <3>4, <4>1, <4>2
      <4> QED
        BY <1>4, <3>1, <4>3 DEF Ends, MayCome
    <3> QED
      BY <3>3, <3>4
  <2>2. MapInv
    BY Facts
  <2> QED
    BY <1>4, <2>1, <2>2 DEF MapInv
<1>16. client'[c] = rest /\ \A d \in Clients \ {c} : client'[d] = client[d]
  BY <1>1 DEF Insertion
<1>17. ClientOK(c)'
  <2>1. PICK next : next = NextOp(rest)
    OBVIOUS
  <2>2. ASSUME \/ rest.then \in {"construct", "register"}
               \/ rest.then \in {"return", "next"} /\ rest.todo # <<>>
        PROVE  /\ s \in 1 .. created' /\ Ends(s, Before(next))' /\ MayCome(s, next)' /\ s \in inputs'
               /\ rest.then = "construct" \/ next = "rem_input" \/ s \in sources'
               /\ next # "set" \/ rest.then = "register" => \A id \in Ids : _source_map'[id] # s
    <3>1. /\ After(op) = Before(next) /\ MayFollow(op, next) /\ op # "set" /\ cmd.op = op
          /\ IsFor(cmd, s) /\ state.then # "poll" /\ rest.then = state.then /\ op \in SourceOps
      <4>1. state.then # "poll" /\ rest.then = state.then
        BY <1>7, <2>2
      <4>2. state.then \in {"construct", "register"} \/ rest.todo # <<>>
        BY <2>2, <4>1
      <4> QED
        BY <1>7, <2>1, <4>1, <4>2, Ops DEF IsFor
    <3>2. Ends(s, Before(next))'
      BY <1>9, <3>1
    <3>3. next \in SourceOps
      <4>1. CASE rest.todo = <<>>
        BY <2>1, <4>1 DEF NextOp, SourceOps
      <4>2. CASE rest.todo # <<>>
        <5>1. PICK cmd2, rest2 : /\ cmd2 = Head(rest.todo)
                                 /\ rest2 = Rest(rest)
          OBVIOUS
        <5>2. rest.then # "poll" /\ rest.source \in Sources /\ rest \in States
          BY <1>5, <1>7, <3>1
        <5>3. /\ rest2 \in States /\ rest2.then = rest.then /\ rest2.source = rest.source
              /\ rest2.todo = Tail(rest.todo)
          BY <4>2, <5>1, <5>2, RestState
        <5>4. rest.todo \in Todos(c, rest) /\ cmd2 = Head(rest.todo)
          BY <1>7, <5>1
        <5> QED
          BY <2>1, <4>2, <5>2, <5>3, <5>4, TodoStep
      <4> QED
        BY <4>1, <4>2
    <3>4. MayCome(s, next)
      <4>1. ASSUME NEW early \in SourceOps, MayFollow(early, op)
            PROVE  MayFollow(early, next)
        <5>1. /\ Rank(early) \in 1 .. 7 /\ Rank(op) \in 1 .. 7 /\ Rank(next) \in 1 .. 7
          BY <3>1, <3>3, Ops
        <5> QED
          BY <3>1, <4>1, <5>1 DEF MayFollow
      <4>2. \A k \in Known : IsFor(k, s) => k.op \in SourceOps
        <5>1. Known \subseteq Commands
          BY Facts, ToSets DEF DataTypes, Known, Executed
        <5> QED
          BY <5>1, CommandTypes DEF IsFor
      <4> QED
        BY <1>5, <3>1, <4>1, <4>2 DEF MayCome
    <3>5. MayCome(s, next)'
      BY <1>9, <3>1, <3>4
    <3>6. op # "rem_input"
      BY <3>1, <3>3, Ops
    <3> QED
      BY <1>4, <1>5, <3>1, <3>2, <3>5, <3>6
  <2> QED
    BY <1>7, <1>16, <2>1, <2>2, NewState
<1>18. ClientInv'
  <2> SUFFICES ASSUME NEW d \in Clients
               PROVE  ClientOK(d)'
    BY DEF ClientInv
  <2>1. CASE d = c
    BY <1>17, <2>1
  <2>2. CASE d # c
    <3>1. client'[d] = client[d] /\ created' \in Nat /\ created <= created'
      BY <1>4, <1>16, <2>2, Facts
    <3>2. Busy(d) => \A t : Kept(t)
      <4>1. CASE state.then = "poll"
        BY <1>8, <1>14, <4>1 DEF IsFor
      <4>2. CASE state.then # "poll"
        BY <1>5, <2>2, <4>2, OneBusy
      <4> QED
        BY <4>1, <4>2
    <3> QED
      BY <1>4, <3>1, <3>2, OtherClients
  <2> QED
    BY <2>1, <2>2
<1>19. _highest_id' <= created'
  BY <1>4, Facts
<1> QED
  BY <1>9, <1>10, <1>11, <1>13, <1>15, <1>18, <1>19 DEF SafetyInv

\* A client begins to push: the commands of its source continue where they end.
LEMMA Starting ==
  ASSUME NEW c \in Clients, NEW id \in 0 .. MaxSources, NEW s \in 0 .. MaxSources,
         NEW op \in SourceOps, NEW todo \in Seq(Commands), todo # <<>>, todo[1] = Cmd(op, s),
         NEW then \in {"register", "return", "next", "construct"},
         NEW state, state = Pushing(id, s, todo, then), client'[c] = state,
         todo \in Todos(c, state),
         /\ s \in 1 .. created' /\ Ends(s, Before(op))' /\ MayCome(s, op)' /\ s \in inputs'
         /\ then = "construct" \/ op = "rem_input" \/ s \in sources'
         /\ op # "set" => \A k \in Ids : _source_map'[k] # s,
         op = "set" => then # "register"
  PROVE  ClientOK(c)'
<1>1. /\ state.at = "pushing" /\ state.id = id /\ state.source = s
      /\ state.todo = todo /\ state.then = then
  BY PushingState
<1>2. NextOp(state) = op
  BY <1>1, Cmds DEF NextOp
<1> QED
  BY <1>1, <1>2, NewState

LEMMA SetStep ==
  ASSUME SafetyInv, NEW c \in Clients, NEW id \in Ids, set_source(c, id)
  PROVE  SafetyInv'
<1>1. PICK s, todo, state :
        /\ s = _source_map[id] /\ todo = <<Cmd("set", s)>>
        /\ state = Pushing(id, s, todo, "return")
  OBVIOUS
<1>2. /\ Become(c, state) /\ s # 0 /\ Unlocked
      /\ UNCHANGED <<objects, lists, queue>>
  BY <1>1 DEF set_source
<1>3. /\ s \in 1 .. created /\ s \in Sources /\ Ends(s, 3) /\ MayCome(s, "set")
      /\ s \in inputs /\ s \in sources
  BY <1>1, <1>2, Facts DEF MapInv, Sources
<1>4. Cmd("set", s) \in Commands /\ todo # <<>> /\ todo[1] = Cmd("set", s)
  BY <1>1, <1>3, Tuples, Cmds DEF SourceOps
<1>5. todo \in Seq(Commands)
  BY <1>1, <1>4
<1>6. id \in 0 .. MaxSources /\ s \in 0 .. MaxSources
  BY <1>1, Facts DEF Ids
<1>7. /\ state \in States /\ state.at = "pushing" /\ state.source = s /\ state.then = "return"
  <2>1. state = Pushing(id, s, todo, "return")
    BY <1>1
  <2> QED
    BY <2>1, <1>5, <1>6, PushingState
<1>8. todo \in Todos(c, state)
  BY <1>1, <1>7, TodosOf
<1>9. created' \in Nat /\ created <= created' /\ \A t \in inputs' : t <= created'
  BY <1>2, Facts DEF ObjectsInv, objects, queue
<1>10. Ends(s, 3)' /\ MayCome(s, "set")'
  <2>1. Kept(s)
    BY <1>2, <1>9, Quiet DEF objects, queue
  <2> QED
    BY <1>3, <2>1 DEF Kept
<1>11. client'[c] = state
  BY <1>2, <1>7, Facts, ClientTypes DEF Become
<1>12. Before("set") = 3 /\ "set" \in SourceOps
  BY DEF Before, SourceOps
<1>13. ClientOK(c)'
  BY <1>1, <1>2, <1>3, <1>4, <1>5, <1>6, <1>8, <1>10, <1>11, <1>12, Starting DEF objects, queue
<1> QED
  BY <1>2, <1>7, <1>13, Facts, Moves DEF objects, lists, queue, DataTypes

LEMMA AllDoneStep ==
  ASSUME SafetyInv, NEW c \in Clients, RemAllDone(c)
  PROVE  SafetyInv'
<1>1. PICK todo, state : todo = <<Cmd("wait", c)>> /\ state = Pushing(0, 0, todo, "poll")
  OBVIOUS
<1>2. /\ Become(c, state) /\ _highest_id' = 0 /\ done' = done \ {c}
      /\ UNCHANGED <<_source_map, created, lists, inputs, sources, _in_fifo, _out_fifo, lost>>
  BY <1>1 DEF RemAllDone
<1>3. Cmd("wait", c) \in Commands
  BY Cmds
<1>4. todo \in Seq(Commands) /\ 0 \in 0 .. MaxSources
  BY <1>1, <1>3, BoundsAssumption
<1>5. /\ state \in States /\ state.at = "pushing" /\ state.todo = todo /\ state.then = "poll"
  <2>1. state = Pushing(0, 0, todo, "poll")
    BY <1>1
  <2> QED
    BY <2>1, <1>4, PushingState
<1>6. todo \in Todos(c, state)
  BY <1>1, <1>5, TodosOf
<1>7. client'[c] = state
  BY <1>2, <1>5, Facts, ClientTypes DEF Become
<1>8. ClientOK(c)'
  <2>1. PICK s, op : s = state.source /\ op = NextOp(state)
    OBVIOUS
  <2> QED
    BY <1>5, <1>6, <1>7, <2>1, NewState
<1>9. _highest_id' \in 0 .. created /\ done' \subseteq Clients
  BY <1>2, Facts DEF DataTypes
<1> QED
  BY <1>2, <1>5, <1>8, <1>9, Moves

LEMMA AddStep ==
  ASSUME SafetyInv, NEW c \in Clients, add_source(c)
  PROVE  SafetyInv'
<1>1. PICK s, id, todo, state :
        /\ s = created + 1 /\ id = _highest_id + 1 /\ todo = <<Cmd("add_input", s)>>
        /\ state = Pushing(id, s, todo, "construct")
  OBVIOUS
<1>2. /\ Become(c, state) /\ Unlocked /\ created < MaxSources
      /\ created' = s /\ _highest_id' = id /\ inputs' = inputs \cup {s}
      /\ UNCHANGED <<_source_map, sources, lists, _in_fifo, _out_fifo, lost, done>>
  BY <1>1 DEF add_source
<1>3. /\ s \in Sources /\ id \in 0 .. MaxSources /\ s \in 0 .. MaxSources
      /\ id <= s /\ s \in 1 .. created'
  BY <1>1, <1>2, Facts DEF Sources
<1>4. Cmd("add_input", s) \in Commands /\ todo # <<>> /\ todo[1] = Cmd("add_input", s)
  BY <1>1, <1>3, Tuples, Cmds DEF SourceOps
<1>5. todo \in Seq(Commands)
  BY <1>1, <1>4
<1>6. /\ state \in States /\ state.at = "pushing" /\ state.source = s
      /\ state.then = "construct"
  <2>1. state = Pushing(id, s, todo, "construct")
    BY <1>1
  <2> QED
    BY <2>1, <1>3, <1>5, PushingState
<1>7. todo \in Todos(c, state)
  BY <1>1, <1>6, TodosOf
<1>8. created' \in Nat /\ created <= created' /\ \A t \in inputs' : t <= created'
  <2>1. \A t \in inputs : t \in Nat /\ t <= created
    BY Facts DEF ObjectsInv, DataTypes, Sources
  <2> QED
    BY <1>1, <1>2, <2>1, Facts
<1>9. (\A t : Kept(t)) /\ NestedInv' /\ ChainInv' /\ OrderInv' /\ ObjectsInv'
  BY <1>2, <1>8, Quiet
<1>10. client'[c] = state /\ \A d \in Clients \ {c} : client'[d] = client[d]
  BY <1>2, <1>6, Facts, ClientTypes DEF Become
<1>11. \A cmd \in Known : ~ IsFor(cmd, s)
  BY <1>1, Facts DEF ObjectsInv, CreatedInv, IsFor
<1>12. Ends(s, 0) /\ MayCome(s, "add_input")
  <2>1. s \notin inputs
    BY <1>1, Facts DEF ObjectsInv
  <2>2. Stage(s) = 0
    BY <2>1, Facts DEF Stage, NestedInv
  <2>3. \A i \in 1 .. Len(_in_fifo) : _in_fifo[i] \in Known
    BY Facts, ToSets DEF Known, DataTypes
  <2> QED
    BY <1>11, <2>2, <2>3 DEF Ends, MayCome
<1>13. Ends(s, 0)' /\ MayCome(s, "add_input")'
  BY <1>9, <1>12 DEF Kept
<1>14. \A k \in Ids : _source_map'[k] # s
  BY <1>1, <1>2, Facts DEF MapInv
<1>15. "add_input" \in SourceOps /\ Before("add_input") = 0
  BY DEF SourceOps, Before
<1>16. ClientOK(c)'
  BY <1>1, <1>2, <1>3, <1>4, <1>5, <1>7, <1>10, <1>13, <1>14, <1>15, Starting
<1>17. ClientInv'
  BY <1>2, <1>8, <1>9, <1>10, <1>16, OtherClients DEF ClientInv
<1>18. MapInv'
  BY <1>2, <1>8, <1>9, MapStays
<1>19. TypeOK' /\ _highest_id' <= created'
  <2>1. client' \in [Clients -> States] /\ LockInv'
    BY <1>2, <1>6, Facts, LockStep
  <2>2. DataTypes'
    BY <1>2, <1>3, Facts DEF DataTypes, lists
  <2> QED
    BY <1>2, <1>3, <2>1, <2>2, TypeSplit
<1> QED
  BY <1>9, <1>17, <1>18, <1>19 DEF SafetyInv

\* A command that is later than one that may come may come too.
LEMMA Later ==
  ASSUME TypeOK, NEW s, NEW op \in SourceOps, NEW late \in SourceOps,
         MayCome(s, op), MayFollow(op, late), late # "set"
  PROVE  MayCome(s, late)
<1>1. Known \subseteq Commands
  BY ToSets DEF TypeOK, Known, Executed
<1>2. SUFFICES ASSUME NEW cmd \in Known, IsFor(cmd, s)
               PROVE  MayFollow(cmd.op, late)
  BY DEF MayCome
<1>3. cmd.op \in SourceOps /\ MayFollow(cmd.op, op)
  BY <1>1, <1>2, CommandTypes DEF MayCome, IsFor
<1>4. Rank(cmd.op) \in 1 .. 7 /\ Rank(op) \in 1 .. 7 /\ Rank(late) \in 1 .. 7
  BY <1>3, Ops
<1> QED
  BY <1>3, <1>4 DEF MayFollow

\* What a client knows of the source that it has pushed everything for.
LEMMA Pushed ==
  ASSUME SafetyInv, NEW c \in Clients, client[c].at = "pushing", client[c].todo = <<>>,
         client[c].then \in {"construct", "register"},
         NEW s, s = client[c].source,
         NEW op, op = IF client[c].then = "construct" THEN "add_source" ELSE "set"
  PROVE  /\ Holds(c)
         /\ s \in 1 .. created /\ s \in Sources
         /\ Ends(s, Before(op)) /\ MayCome(s, op) /\ s \in inputs
         /\ client[c].then = "construct" \/ s \in sources
         /\ \A id \in Ids : _source_map[id] # s
<1>1. Busy(c) /\ NextOp(client[c]) = op
  BY DEF Busy, AtWork, NextOp
<1>2. Changes(c)
  BY <1>1 DEF Changes
<1>3. BusyOK(c) /\ \A id \in Ids : _source_map[id] # s
  BY <1>1, <1>2, Facts DEF ClientOK
<1>4. Holds(c) /\ s \in Sources
  BY <1>1, BusyOp
<1> QED
  BY <1>1, <1>3, <1>4 DEF BusyOK

LEMMA ConstructStep ==
  ASSUME SafetyInv, NEW c \in Clients, Construct(c)
  PROVE  SafetyInv'
<1>1. PICK s, id : s = client[c].source /\ id = client[c].id
  OBVIOUS
<1>2. /\ client[c].at = "pushing" /\ client[c].todo = <<>> /\ client[c].then = "construct"
      /\ UNCHANGED <<objects, lists, inputs, _in_fifo, _out_fifo, lost, done>>
  BY DEF Construct
<1>3. /\ Holds(c) /\ s \in 1 .. created /\ s \in Sources
      /\ Ends(s, Before("add_source")) /\ MayCome(s, "add_source") /\ s \in inputs
      /\ \A k \in Ids : _source_map[k] # s
  <2>1. PICK op : op = IF client[c].then = "construct" THEN "add_source" ELSE "set"
    OBVIOUS
  <2>2. op = "add_source"
    BY <1>2, <2>1
  <2> QED
    BY <1>1, <1>2, <2>1, <2>2, Pushed
<1>4. PICK todo, then, op, state :
        /\ \/ /\ todo = <<Cmd("add_source", s), Cmd("connect", s)>> /\ then = "register"
              /\ op = "add_source" /\ sources' = sources \cup {s}
           \/ /\ todo = <<Cmd("rem_input", s)>> /\ then = "return"
              /\ op = "rem_input" /\ sources' = sources
        /\ state = Pushing(id, s, todo, then)
        /\ Become(c, state)
  BY <1>1 DEF Construct
<1>5. /\ op \in SourceOps /\ Before(op) = 1 /\ Before("add_source") = 1 /\ op # "set"
      /\ then \in {"register", "return"}
      /\ op = "rem_input" \/ s \in sources'
  <2>1. /\ Before("add_source") = 1 /\ Before("rem_input") = 1
    BY DEF Before
  <2> QED
    BY <1>4, <2>1 DEF SourceOps
<1>6. todo \in Seq(Commands) /\ todo # <<>> /\ todo[1] = Cmd(op, s)
  <2>1. /\ Cmd("add_source", s) \in Commands /\ Cmd("connect", s) \in Commands
        /\ Cmd("rem_input", s) \in Commands
    BY <1>3, Cmds DEF SourceOps
  <2>2. /\ <<Cmd("add_source", s), Cmd("connect", s)>> \in Seq(Commands)
        /\ <<Cmd("rem_input", s)>> \in Seq(Commands)
    BY <2>1
  <2>3. ASSUME NEW x, NEW y
        PROVE  <<x, y>> # <<>> /\ <<x, y>>[1] = x /\ <<x>> # <<>> /\ <<x>>[1] = x
    BY Tuples
  <2>4. CASE op = "add_source"
    <3>1. todo = <<Cmd("add_source", s), Cmd("connect", s)>>
      BY <1>4, <2>4
    <3> QED
      BY <2>2, <2>3, <2>4, <3>1
  <2>5. CASE op = "rem_input"
    <3>1. todo = <<Cmd("rem_input", s)>>
      BY <1>4, <2>5
    <3> QED
      BY <2>2, <2>3, <2>5, <3>1
  <2> QED
    BY <1>4, <2>4, <2>5
<1>7. id \in 0 .. MaxSources /\ s \in 0 .. MaxSources
  BY <1>1, Facts
<1>8. /\ state \in States /\ state.at = "pushing" /\ state.source = s /\ state.then = then
  <2>1. state = Pushing(id, s, todo, then)
    BY <1>4
  <2> QED
    BY <2>1, <1>5, <1>6, <1>7, PushingState
<1>9. todo \in Todos(c, state)
  <2>1. CASE then = "register"
    <3>1. Todos(c, state) = { <<>>, <<Cmd("connect", s)>>,
                              <<Cmd("add_source", s), Cmd("connect", s)>> }
      BY <1>8, <2>1, TodosOf
    <3>2. todo = <<Cmd("add_source", s), Cmd("connect", s)>>
      BY <1>4, <2>1
    <3> QED
      BY <3>1, <3>2
  <2>2. CASE then = "return"
    <3>1. Todos(c, state) = Removal(s) \cup { <<Cmd("set", s)>> }
      BY <1>8, <2>2, TodosOf
    <3>2. todo = <<Cmd("rem_input", s)>>
      BY <1>4, <2>2
    <3> QED
      BY <3>1, <3>2 DEF Removal
  <2> QED
    BY <1>5, <2>1, <2>2
<1>10. created' \in Nat /\ created <= created' /\ \A t \in inputs' : t <= created'
  BY <1>2, Facts DEF ObjectsInv, objects
<1>11. (\A t : Kept(t)) /\ NestedInv' /\ ChainInv' /\ OrderInv' /\ ObjectsInv'
  <2>1. sources \subseteq sources' /\ inputs \subseteq inputs'
    BY <1>2, <1>4
  <2> QED
    BY <1>2, <1>10, <2>1, Quiet
<1>12. client'[c] = state /\ \A d \in Clients \ {c} : client'[d] = client[d]
  BY <1>4, <1>8, Facts, ClientTypes DEF Become
<1>13. MayCome(s, op)
  <2>1. op = "rem_input" => MayFollow("add_source", op)
    BY DEF MayFollow, Rank
  <2>2. "add_source" \in SourceOps
    BY DEF SourceOps
  <2> QED
    BY <1>3, <1>4, <1>5, <2>1, <2>2, Later, Facts
<1>14. Ends(s, Before(op))' /\ MayCome(s, op)'
  <2>1. Ends(s, Before(op))
    BY <1>3, <1>5
  <2> QED
    BY <1>11, <1>13, <2>1 DEF Kept
<1>15. ClientOK(c)'
  <2>1. state = Pushing(id, s, todo, then)
    BY <1>4
  <2>2. s \in 1 .. created' /\ s \in inputs' /\ \A k \in Ids : _source_map'[k] # s
    BY <1>2, <1>3 DEF objects
  <2> QED
    BY <1>5, <1>6, <1>7, <1>9, <1>12, <1>14, <2>1, <2>2, Starting
<1>16. ClientInv'
  BY <1>2, <1>10, <1>11, <1>12, <1>15, OtherClients DEF ClientInv, objects
<1>17. MapInv'
  BY <1>2, <1>10, <1>11, MapStays DEF objects
<1>18. TypeOK' /\ _highest_id' <= created'
  <2>1. client' \in [Clients -> States] /\ LockInv'
    BY <1>3, <1>4, <1>8, Facts, LockStep
  <2>2. sources' \subseteq Sources
    BY <1>3, <1>4, Facts DEF DataTypes
  <2>3. DataTypes'
    BY <1>2, <2>2, Facts DEF DataTypes, lists, objects
  <2> QED
    BY <1>2, <2>1, <2>3, Facts, TypeSplit DEF objects
<1> QED
  BY <1>11, <1>16, <1>17, <1>18 DEF SafetyInv

LEMMA RegisterStep ==
  ASSUME SafetyInv, NEW c \in Clients, Register(c)
  PROVE  SafetyInv'
<1>1. PICK s, id : s = client[c].source /\ id = client[c].id
  OBVIOUS
<1>2. /\ client[c].at = "pushing" /\ client[c].todo = <<>> /\ client[c].then = "register"
      /\ _source_map' = [_source_map EXCEPT ![id] = s]
      /\ Become(c, Idle)
      /\ UNCHANGED <<_highest_id, created, lists, queue>>
  BY <1>1 DEF Register
<1>3. /\ Holds(c) /\ s \in 1 .. created /\ s \in Sources
      /\ Ends(s, 3) /\ MayCome(s, "set") /\ s \in inputs /\ s \in sources
      /\ \A k \in Ids : _source_map[k] # s
  <2>1. PICK op : op = IF client[c].then = "construct" THEN "add_source" ELSE "set"
    OBVIOUS
  <2>2. op = "set" /\ Before("set") = 3
    BY <1>2, <2>1 DEF Before
  <2> QED
    BY <1>1, <1>2, <2>1, <2>2, Pushed
<1>4. created' \in Nat /\ created <= created' /\ \A t \in inputs' : t <= created'
  BY <1>2, Facts DEF ObjectsInv, queue
<1>5. (\A t : Kept(t)) /\ NestedInv' /\ ChainInv' /\ OrderInv' /\ ObjectsInv'
  BY <1>2, <1>4, Quiet DEF queue
<1>6. client'[c] = Idle /\ \A d \in Clients \ {c} : client'[d] = client[d]
  BY <1>2, Facts, ClientTypes, IdleState DEF Become
<1>7. /\ _source_map' \in [Ids -> 0 .. MaxSources]
      /\ \A k \in Ids : _source_map'[k] = IF k = id THEN s ELSE _source_map[k]
  <2>1. _source_map \in [Ids -> 0 .. MaxSources] /\ s \in 0 .. MaxSources
    BY <1>1, Facts DEF DataTypes
  <2> QED
    BY <1>2, <2>1
<1>8. MapInv'
  <2>1. ASSUME NEW k \in Ids, _source_map'[k] # 0
        PROVE  /\ _source_map'[k] <= created'
               /\ Ends(_source_map[k], 3)' /\ MayCome(_source_map[k], "set")'
               /\ _source_map'[k] \in inputs' \cap sources'
    <3>1. PICK t : t = _source_map'[k]
      OBVIOUS
    <3>2. /\ t <= created /\ Ends(t, 3) /\ MayCome(t, "set") /\ t \in inputs \cap sources
      BY <1>3, <1>7, <2>1, <3>1, Facts DEF MapInv
    <3>3. Ends(t, 3)' /\ MayCome(t, "set")'
      BY <1>5, <3>2 DEF Kept
    <3> QED
      BY <1>2, <3>1, <3>2, <3>3 DEF Ends, MayCome, queue
  <2>2. \A k, l \in Ids : _source_map'[k] = _source_map'[l] => k = l \/ _source_map'[k] = 0
    BY <1>3, <1>7, Facts DEF MapInv
  <2> QED
    BY <2>1, <2>2 DEF MapInv
<1>9. ClientInv'
  <2>1. ClientOK(c)'
    BY <1>6, IdleState DEF ClientOK, TodoOK, AtWork, Busy, Changes
  <2>2. ASSUME NEW d \in Clients \ {c}
        PROVE  ClientOK(d)'
    <3>1. ~ Busy(d)
      BY <1>3, OneBusy
    <3> QED
      BY <1>4, <1>6, <3>1, OtherClients
  <2> QED
    BY <2>1, <2>2 DEF ClientInv
<1>10. TypeOK' /\ _highest_id' <= created'
  <2>1. client' \in [Clients -> States] /\ LockInv'
    BY <1>2, <1>3, Facts, LockStep, IdleState
  <2>2. DataTypes'
    BY <1>2, <1>7, Facts DEF DataTypes, lists, queue
  <2> QED
    BY <1>2, <2>1, <2>2, Facts, TypeSplit
<1> QED
  BY <1>5, <1>8, <1>9, <1>10 DEF SafetyInv

LEMMA RemoveStep ==
  ASSUME SafetyInv, NEW c \in Clients, rem_source(c)
  PROVE  SafetyInv'
<1>1. PICK s, id, then, todo, state :
        /\ s = client[c].source /\ id = client[c].id /\ then = client[c].then
        /\ todo = <<Cmd("disconnect", s), Cmd("rem_source", s), Cmd("rem_input", s)>>
        /\ state = Pushing(id, s, todo, then)
  OBVIOUS
<1>2. /\ client[c].at = "enter" /\ Unlocked /\ s # 0 /\ Become(c, state)
      /\ UNCHANGED <<_highest_id, created, lists, queue>>
  BY <1>1 DEF rem_source
<1>3. PICK k \in Ids : _source_map[k] = s /\ _source_map' = [_source_map EXCEPT ![k] = 0]
  BY <1>1 DEF rem_source
<1>4. /\ s \in 1 .. created /\ s \in Sources /\ Ends(s, 3) /\ MayCome(s, "set")
      /\ s \in inputs /\ s \in sources
  BY <1>2, <1>3, Facts DEF MapInv, Sources
<1>5. /\ _source_map' \in [Ids -> 0 .. MaxSources]
      /\ \A l \in Ids : _source_map'[l] = IF l = k THEN 0 ELSE _source_map[l]
      /\ \A l \in Ids : _source_map'[l] # s
  BY <1>2, <1>3, Facts DEF DataTypes, MapInv
<1>6. then \in {"return", "next"}
  BY <1>1, <1>2, Facts DEF ClientOK, TodoOK
<1>7. todo \in Seq(Commands) /\ todo # <<>> /\ todo[1] = Cmd("disconnect", s)
  <2>1. /\ Cmd("disconnect", s) \in Commands /\ Cmd("rem_source", s) \in Commands
        /\ Cmd("rem_input", s) \in Commands
    BY <1>4, Cmds DEF SourceOps
  <2>2. <<Cmd("disconnect", s), Cmd("rem_source", s), Cmd("rem_input", s)>> \in Seq(Commands)
    BY <2>1
  <2> QED
    BY <1>1, <2>2, Tuples
<1>8. id \in 0 .. MaxSources /\ s \in 0 .. MaxSources
  BY <1>1, Facts
<1>9. /\ state \in States /\ state.at = "pushing" /\ state.source = s /\ state.then = then
  <2>1. state = Pushing(id, s, todo, then)
    BY <1>1
  <2> QED
    BY <2>1, <1>6, <1>7, <1>8, PushingState
<1>10. todo \in Todos(c, state)
  <2>1. Todos(c, state) = Removal(s) \cup { <<Cmd("set", s)>> }
    BY <1>6, <1>9, TodosOf
  <2>2. todo = <<Cmd("disconnect", s), Cmd("rem_source", s), Cmd("rem_input", s)>>
    BY <1>1
  <2> QED
    BY <2>1, <2>2 DEF Removal
<1>11. created' \in Nat /\ created <= created' /\ \A t \in inputs' : t <= created'
  BY <1>2, Facts DEF ObjectsInv, queue
<1>12. (\A t : Kept(t)) /\ NestedInv' /\ ChainInv' /\ OrderInv' /\ ObjectsInv'
  BY <1>2, <1>11, Quiet DEF queue
<1>13. client'[c] = state /\ \A d \in Clients \ {c} : client'[d] = client[d]
  BY <1>2, <1>9, Facts, ClientTypes DEF Become
<1>14. /\ "disconnect" \in SourceOps /\ "set" \in SourceOps /\ Before("disconnect") = 3
       /\ MayFollow("set", "disconnect")
  BY DEF SourceOps, Before, MayFollow, Rank
<1>15. Ends(s, 3)' /\ MayCome(s, "disconnect")'
  <2>1. MayCome(s, "disconnect")
    BY <1>4, <1>14, Later, Facts
  <2> QED
    BY <1>4, <1>12, <2>1 DEF Kept
<1>16. ClientOK(c)'
  <2>1. state = Pushing(id, s, todo, then)
    BY <1>1
  <2>2. s \in 1 .. created' /\ s \in inputs' /\ s \in sources'
    BY <1>2, <1>4 DEF queue
  <2> QED
    BY <1>5, <1>6, <1>7, <1>8, <1>10, <1>13, <1>14, <1>15, <2>1, <2>2, Starting
<1>17. ClientInv'
  <2>1. ASSUME NEW d \in Clients \ {c}
        PROVE  ClientOK(d)'
    <3>1. ~ Busy(d)
      BY <1>2, OneBusy
    <3> QED
      BY <1>11, <1>13, <3>1, OtherClients
  <2> QED
    BY <1>16, <2>1 DEF ClientInv
<1>18. MapInv'
  <2>1. ASSUME NEW l \in Ids, _source_map'[l] # 0
        PROVE  /\ _source_map'[l] <= created'
               /\ Ends(_source_map[l], 3)' /\ MayCome(_source_map[l], "set")'
               /\ _source_map'[l] \in inputs' \cap sources'
    <3>1. PICK t : t = _source_map'[l]
      OBVIOUS
    <3>2. /\ t <= created /\ Ends(t, 3) /\ MayCome(t, "set") /\ t \in inputs \cap sources
      BY <1>5, <2>1, <3>1, Facts DEF MapInv
    <3>3. Ends(t, 3)' /\ MayCome(t, "set")'
      BY <1>12, <3>2 DEF Kept
    <3> QED
      BY <1>2, <3>1, <3>2, <3>3 DEF Ends, MayCome, queue
  <2>2. \A l, m \in Ids : _source_map'[l] = _source_map'[m] => l = m \/ _source_map'[l] = 0
    BY <1>5, Facts DEF MapInv
  <2> QED
    BY <2>1, <2>2 DEF MapInv
<1>19. TypeOK' /\ _highest_id' <= created'
  <2>1. client' \in [Clients -> States] /\ LockInv'
    BY <1>2, <1>9, Facts, LockStep
  <2>2. DataTypes'
    BY <1>2, <1>5, Facts DEF DataTypes, lists, queue
  <2> QED
    BY <1>2, <2>1, <2>2, Facts, TypeSplit
<1> QED
  BY <1>12, <1>17, <1>18, <1>19 DEF SafetyInv

------------------------------------------------------------------------------
(* The invariant *)

LEMMA InitSafety == Init => SafetyInv
<1> SUFFICES ASSUME Init
             PROVE  SafetyInv
  OBVIOUS
<1>1. /\ _in_fifo = <<>> /\ _out_fifo = <<>> /\ lost = {} /\ Len(<<>>) = 0 /\ ToSet(<<>>) = {}
  BY DEF Init, ToSet
<1>2. Known = {} /\ Executed = {} /\ ToSet(_in_fifo) = {}
  BY <1>1 DEF Known, Executed
<1>3. \A c \in Clients : client[c] = Idle
  BY DEF Init
<1>4. TypeOK
  <2>1. \A c \in Clients : ~ Holds(c)
    BY <1>3, IdleState DEF Holds
  <2>2. client \in [Clients -> States]
    BY IdleState DEF Init
  <2>3. <<>> \in Seq(Commands) /\ 0 \in 0 .. MaxSources
    BY BoundsAssumption
  <2> QED
    BY <2>1, <2>2, <2>3 DEF Init, TypeOK, States
<1>5. ClientInv
  BY <1>3, IdleState DEF ClientInv, ClientOK, TodoOK, AtWork, Busy, Changes
<1>6. NestedInv /\ ChainInv /\ OrderInv
  BY <1>1 DEF Init, NestedInv, ChainInv, OrderInv
<1>7. ObjectsInv
  BY <1>2 DEF Init, ObjectsInv, CreatedInv, AddedInv, RemovedInv
<1>8. MapInv
  BY DEF Init, MapInv
<1> QED
  BY <1>4, <1>5, <1>6, <1>7, <1>8, BoundsAssumption DEF SafetyInv, Init

LEMMA SafetyStep == SafetyInv /\ [Next]_vars => SafetyInv'
<1> SUFFICES ASSUME SafetyInv, [Next]_vars
             PROVE  SafetyInv'
  OBVIOUS
<1>1. CASE Execute
  BY <1>1, ExecuteStep
<1>2. ASSUME NEW c \in Clients, Starts(c)
      PROVE  SafetyInv'
  BY <1>2, SetStep, AddStep, LeavesStep DEF Starts
<1>3. ASSUME NEW c \in Clients, Proceeds(c)
      PROVE  SafetyInv'
  BY <1>3, CleanUpStep, InsertStep, LeavesStep, ConstructStep, RegisterStep, RemoveStep, AllDoneStep
     DEF Proceeds
<1>4. CASE UNCHANGED vars
  <2> USE <1>4 DEF vars, objects, lists, queue
  <2>1. TypeOK'
    BY DEF SafetyInv, TypeOK, Holds
  <2>2. created' \in Nat /\ created <= created' /\ \A t \in inputs' : t <= created'
    BY BoundsAssumption DEF SafetyInv, TypeOK, ObjectsInv
  <2>3. (\A t : Kept(t)) /\ NestedInv' /\ ChainInv' /\ OrderInv' /\ ObjectsInv'
    BY <2>2, Quiet
  <2>4. MapInv'
    BY <2>2, <2>3, MapStays
  <2>5. ClientInv'
    BY <2>2, <2>3, OtherClients DEF ClientInv
  <2> QED
    BY <2>1, <2>3, <2>4, <2>5 DEF SafetyInv
<1> QED
  BY <1>1, <1>2, <1>3, <1>4 DEF Next

LEMMA Safety == Spec => []SafetyInv
BY InitSafety, SafetyStep, PTL DEF Spec

\* The types of all variables; at most one client holds the lock.
THEOREM Typing == Spec => []TypeOK
<1>1. SafetyInv => TypeOK
  BY DEF SafetyInv
<1> QED
  BY <1>1, Safety, PTL

\* In whatever state of the clients' operations the realtime thread processes
\* the lists, everything in them exists and comes in the right order; and the
\* next command finds what it needs (RendererBase::add_source, rem_source).
\* For every number of clients that add and delete sources.
THEOREM RealtimeThreadSafe == Spec => []RealtimeSafe
<1>1. SafetyInv => RealtimeSafe
  <2> SUFFICES ASSUME SafetyInv
               PROVE  RealtimeSafe
    OBVIOUS
  <2>1. TypeOK /\ NestedInv /\ ChainInv /\ AddedInv
    BY DEF SafetyInv, ObjectsInv
  <2>2. ListsUsable
    BY <2>1 DEF ListsUsable, NestedInv
  <2>3. ASSUME _in_fifo # <<>>
        PROVE  LET cmd == Head(_in_fifo)
               IN  /\ cmd.op \in {"add_input", "rem_input"} => cmd.of \in inputs
                   /\ cmd.op = "add_source" => cmd.of \in (sources \cap _input_list) \ _source_list
                   /\ cmd.op \in {"set", "rem_source", "connect"} => cmd.of \in _source_list
                   /\ cmd.op = "rem_source" => cmd.of \notin connected
                   /\ cmd.op = "disconnect" => cmd.of \in connected
                   /\ cmd.op = "rem_input" => cmd.of \in _input_list \ _source_list
    <3>1. PICK cmd : cmd = Head(_in_fifo)
      OBVIOUS
    <3>2. /\ cmd = _in_fifo[1] /\ cmd \in Commands /\ cmd \in ToSet(_in_fifo)
          /\ 1 \in 1 .. Len(_in_fifo)
      BY <2>1, <2>3, <3>1, ToSets DEF TypeOK
    <3>3. cmd.op # "wait" => cmd.op \in SourceOps /\ Stage(cmd.of) = Before(cmd.op)
      <4> SUFFICES ASSUME cmd.op # "wait"
                   PROVE  cmd.op \in SourceOps /\ Stage(cmd.of) = Before(cmd.op)
        OBVIOUS
      <4>1. cmd.op \in SourceOps /\ cmd.of \in Sources
        BY <3>2, CommandTypes
      <4>2. IsFor(_in_fifo[1], cmd.of) /\ \A k \in 1 .. 1 - 1 : FALSE
        BY <3>2 DEF IsFor
      <4> QED
        BY <2>1, <3>2, <4>1, <4>2 DEF ChainInv
    <3>4. PICK of : of = cmd.of
      OBVIOUS
    <3>5. /\ connected \subseteq _source_list /\ _source_list \subseteq _input_list
          /\ _input_list \subseteq inputs /\ _source_list \subseteq sources
          /\ cmd.op = "add_input" => of \in inputs
          /\ cmd.op = "add_source" => of \in sources
      BY <2>1, <3>2, <3>4 DEF NestedInv, AddedInv
    <3>6. /\ Stage(of) = 1 => of \in _input_list \ _source_list
          /\ Stage(of) = 2 => of \in _source_list \ connected
          /\ Stage(of) = 3 => of \in connected
      BY DEF Stage
    <3>7. /\ Before("add_source") = 1 /\ Before("rem_input") = 1
          /\ Before("connect") = 2 /\ Before("rem_source") = 2
          /\ Before("set") = 3 /\ Before("disconnect") = 3
      BY DEF Before
    <3>8. /\ cmd.op \in {"add_input", "rem_input"} => of \in inputs
          /\ cmd.op = "add_source" => of \in (sources \cap _input_list) \ _source_list
          /\ cmd.op \in {"set", "rem_source", "connect"} => of \in _source_list
          /\ cmd.op = "rem_source" => of \notin connected
          /\ cmd.op = "disconnect" => of \in connected
          /\ cmd.op = "rem_input" => of \in _input_list \ _source_list
      BY <3>3, <3>4, <3>5, <3>6, <3>7
    <3> QED
      BY <3>1, <3>4, <3>8
  <2> QED
    BY <2>2, <2>3 DEF RealtimeSafe, NextCommandSafe
<1> QED
  BY <1>1, Safety, PTL

------------------------------------------------------------------------------
(* With one controller: what else has to be kept                           *)

\* Who does what only a controller does is one.
LEMMA Roles ==
  ASSUME ControllerInv, NEW c \in Clients,
         \/ Changes(c) \/ Waiting(c)
         \/ client[c].at \in {"get", "enter", "all", "poll"} \/ client[c].then # "return"
  PROVE  c \in Controllers
<1> SUFFICES ASSUME c \notin Controllers
             PROVE  FALSE
  OBVIOUS
<1>1. SetsOnly(c)
  BY DEF ControllerInv
<1>2. client[c].then = "return" /\ client[c].at \in {"idle", "pushing", "inserting"}
  BY <1>1 DEF SetsOnly
<1>3. ~ Waiting(c)
  BY <1>2 DEF Waiting
<1>4. ~ Changes(c)
  BY <1>1, <1>2 DEF Changes, Busy, NextOp, SetsOnly
<1> QED
  BY <1>2, <1>3, <1>4

LEMMA ControllerStays ==
  ASSUME ControllerInv, UNCHANGED <<_source_map, _highest_id>>, NEW c \in Clients,
         \A d \in Clients \ {c} : client'[d] = client[d],
         c \notin Controllers => SetsOnly(c)',
         c \in Controllers => AddsOK(c)' /\ WaitsOK(c)'
  PROVE  ControllerInv'
<1>1. ASSUME NEW d \in Clients \ Controllers
      PROVE  SetsOnly(d)'
  BY DEF ControllerInv, SetsOnly
<1>2. ASSUME NEW d \in Controllers
      PROVE  AddsOK(d)' /\ WaitsOK(d)'
  <2>1. d \in Clients /\ AddsOK(d) /\ WaitsOK(d)
    BY ControllersAssumption DEF ControllerInv
  <2>2. CASE d = c
    BY <1>2, <2>2
  <2>3. CASE d # c
    <3>1. client'[d] = client[d]
      BY <2>1, <2>3
    <3> QED
      BY <2>1, <3>1 DEF AddsOK, WaitsOK, AtWork, Waiting
  <2> QED
    BY <2>2, <2>3
<1> QED
  BY <1>1, <1>2 DEF ControllerInv

\* Who changes its source goes on with it.
Continues(c) ==
  Changes(c) => /\ Changes(c)'
                /\ client'[c].source = client[c].source
                /\ NextOp(client[c]) # "rem_input" => NextOp(client'[c]) # "rem_input"

LEMMA SameClient ==
  ASSUME NEW d \in Clients, client'[d] = client[d]
  PROVE  /\ AtWork(d)' = AtWork(d) /\ Busy(d)' = Busy(d) /\ Changes(d)' = Changes(d)
         /\ Waiting(d)' = Waiting(d) /\ NextOp(client'[d]) = NextOp(client[d])
         /\ Continues(d)
BY DEF AtWork, Busy, Changes, Waiting, NextOp, Continues

LEMMA CoveredStays ==
  ASSUME Mapped \subseteq Mapped', \A d \in Clients : Continues(d)
  PROVE  /\ \A s : Covered(s) => Covered(s)'
         /\ \A s : CoveredSource(s) => CoveredSource(s)'
<1>1. ASSUME NEW s, Covered(s)
      PROVE  Covered(s)'
  BY <1>1 DEF Covered, Continues
<1>2. ASSUME NEW s, CoveredSource(s)
      PROVE  CoveredSource(s)'
  <2>1. CASE s \in Mapped
    BY <2>1 DEF CoveredSource
  <2>2. CASE s \notin Mapped
    <3>1. PICK d \in Clients : /\ Changes(d) /\ client[d].source = s
                               /\ NextOp(client[d]) # "rem_input"
      BY <1>2, <2>2 DEF CoveredSource
    <3>2. Changes(d)' /\ client'[d].source = s /\ NextOp(client'[d]) # "rem_input"
      BY <3>1 DEF Continues
    <3> QED
      BY <3>2 DEF CoveredSource
  <2> QED
    BY <2>1, <2>2
<1> QED
  BY <1>1, <1>2

LEMMA AccountStays ==
  ASSUME SafetyInv, AccountInv, UNCHANGED <<_in_fifo, _out_fifo, lost, lists>>,
         inputs \subseteq inputs', sources \subseteq sources',
         \A s \in 1 .. created : Covered(s) => Covered(s)',
         \A s \in 1 .. created' : s \in 1 .. created \/ Covered(s)',
         \A s \in inputs' : s \in inputs \/ Covered(s)',
         \A s \in sources' : (s \in sources /\ ~ CoveredSource(s)) \/ CoveredSource(s)',
         \A s \in sources' : s <= created',
         \A c \in Clients : AtWork(c)' /\ client'[c].then = "construct"
                              => client'[c].source \notin sources'
  PROVE  AccountInv'
<1>1. Known' = Known /\ ToSet(_out_fifo)' = ToSet(_out_fifo)
  BY DEF Known, Executed
<1>2. \A s, stage : Ends(s, stage)' = Ends(s, stage)
  <2>1. Executed' \subseteq Executed
    BY DEF Executed
  <2> QED
    BY <2>1, QueueStays
<1>3. \A s \in inputs : s \in 1 .. created
  BY DEF SafetyInv, ObjectsInv, TypeOK, Sources
<1>4. \A s \in 1 .. created' : Covered(s)' \/ Ends(s, 0)'
  BY <1>2 DEF AccountInv
<1>5. \A s \in inputs' : Covered(s)' \/ Cmd("rem_input", s) \in Known'
  BY <1>1, <1>3 DEF AccountInv
<1>6. \A s \in sources' : CoveredSource(s)' \/ Cmd("rem_source", s) \in Known'
  BY <1>1 DEF AccountInv
<1>7. \A cmd \in Known' : /\ cmd.op = "rem_input" => cmd.of \in inputs'
                          /\ cmd.op = "rem_source" => cmd.of \in sources'
  BY <1>1 DEF AccountInv
<1>8. \A cmd \in ToSet(_out_fifo)' : cmd.op \in {"rem_input", "rem_source"} => cmd \notin lost'
  BY <1>1 DEF AccountInv
<1> QED
  BY <1>4, <1>5, <1>6, <1>7, <1>8 DEF AccountInv

LEMMA WaitStays ==
  ASSUME WaitInv, UNCHANGED <<_in_fifo, _out_fifo, lost>>,
         \A d \in Controllers : d \notin done /\ Waiting(d) /\ client[d].todo = <<>>
           => d \notin done' /\ Waiting(d)' /\ client'[d].todo = <<>>,
         \A d \in Controllers : d \in done' /\ Waiting(d)'
           => d \in done /\ Waiting(d) /\ (client[d].todo = <<>> => client'[d].todo = <<>>),
         inputs' = inputs \/ \A d \in Controllers : ~ Waiting(d)
  PROVE  WaitInv'
<1>1. Known' = Known /\ Executed' = Executed /\ ToSet(_out_fifo)' = ToSet(_out_fifo)
  BY DEF Known, Executed
<1>2. OwnersInv'
  BY <1>1 DEF WaitInv, OwnersInv
<1>3. CASE inputs' = inputs
  <2>1. BehindInv'
    BY <1>1, <1>3 DEF WaitInv, BehindInv
  <2>2. PassedInv'
    BY <1>1, <1>3 DEF WaitInv, PassedInv
  <2>3. DoneInv'
    BY <1>3 DEF WaitInv, DoneInv
  <2> QED
    BY <1>2, <2>1, <2>2, <2>3 DEF WaitInv
<1>4. CASE \A d \in Controllers : ~ Waiting(d)
  <2>1. \A cmd \in Known : cmd.op # "wait"
    BY <1>4 DEF WaitInv, OwnersInv
  <2>2. \A i \in 1 .. Len(_in_fifo) : _in_fifo[i] \in ToSet(_in_fifo)
    BY DEF ToSet
  <2>3. BehindInv'
    BY <2>1, <2>2 DEF BehindInv, Known
  <2>4. PassedInv'
    BY <1>1, <2>1 DEF PassedInv, Known
  <2>5. DoneInv'
    BY <1>4 DEF DoneInv
  <2> QED
    BY <1>2, <2>3, <2>4, <2>5 DEF WaitInv
<1> QED
  BY <1>3, <1>4

\* A client that is the only one to change keeps all of this.
LEMMA OthersContinue ==
  ASSUME NEW c \in Clients, \A d \in Clients \ {c} : client'[d] = client[d], Continues(c)
  PROVE  \A d \in Clients : Continues(d)
BY SameClient

\* What a step means for a client that is not pushing after it.
LeavesOK(c) ==
  /\ client'[c].at \notin {"pushing", "inserting"}
  /\ c \notin Controllers => client'[c] = Idle
  /\ ~ Changes(c)
  /\ Waiting(c)' => Waiting(c) /\ client'[c].todo = <<>>
  /\ Waiting(c) => Waiting(c)' \/ c \in done

LEMMA LeavesSettles ==
  ASSUME SafetyInv, SettlingInv, NEW c \in Clients,
         \/ c \in Controllers /\ \E id \in Ids : delete_source(c, id)
         \/ c \in Controllers /\ delete_all_sources(c)
         \/ Return(c) \/ get_source(c) \/ RemNext(c) \/ WaitReturns(c)
  PROVE  SettlingInv'
<1> USE DEF SettlingInv
<1>1. /\ client \in [Clients -> States] /\ DOMAIN client = Clients
      /\ UNCHANGED <<objects, lists, queue>>
  BY ClientTypes, Facts DEF delete_source, Return, get_source, delete_all_sources, RemNext, WaitReturns
<1>2. PICK idle \in States : /\ idle = Idle
                             /\ idle.at = "idle" /\ idle.then = "return" /\ idle.todo = <<>>
  BY IdleState
<1>3. PICK state : Become(c, state)
  BY DEF delete_source, Return, get_source, delete_all_sources, RemNext, WaitReturns
<1>4. \A d \in Clients \ {c} : client'[d] = client[d]
  BY <1>1, <1>3 DEF Become
<1>5. ASSUME NEW st, Become(c, st)
      PROVE  client'[c] = st
  BY <1>1, <1>5 DEF Become
<1>6. LeavesOK(c)
  <2>1. ASSUME NEW id \in Ids, c \in Controllers, delete_source(c, id)
        PROVE  LeavesOK(c)
    <3>1. PICK st : st = [idle EXCEPT !.at = "get", !.id = id]
      OBVIOUS
    <3>2. st.at = "get"
      BY <3>1 DEF States
    <3>3. client'[c] = st /\ client[c].at = "idle"
      BY <1>2, <1>5, <2>1, <3>1 DEF delete_source
    <3> QED
      BY <2>1, <3>2, <3>3 DEF LeavesOK, Waiting, AtWork, Changes, Busy
  <2>2. CASE c \in Controllers /\ delete_all_sources(c)
    <3>1. PICK st : st = [idle EXCEPT !.at = "all"]
      OBVIOUS
    <3>2. st.at = "all"
      BY <3>1 DEF States
    <3>3. client'[c] = st /\ client[c].at = "idle"
      BY <1>2, <1>5, <2>2, <3>1 DEF delete_all_sources
    <3> QED
      BY <2>2, <3>2, <3>3 DEF LeavesOK, Waiting, AtWork, Changes, Busy
  <2>3. CASE Return(c)
    <3>1. client[c].at = "pushing" /\ client[c].todo = <<>>
      BY <2>3 DEF Return
    <3>2. CASE client[c].then = "return" /\ Become(c, Idle)
      <4>1. client'[c] = idle
        BY <1>2, <1>5, <3>2
      <4> QED
        BY <1>2, <3>1, <3>2, <4>1 DEF LeavesOK, Waiting, AtWork, Changes, Busy
    <3>3. CASE client[c].then = "next" /\ Become(c, [Idle EXCEPT !.at = "all"])
      <4>1. PICK st : st = [idle EXCEPT !.at = "all"]
        OBVIOUS
      <4>2. st.at = "all"
        BY <4>1 DEF States
      <4>3. client'[c] = st
        BY <1>2, <1>5, <3>3, <4>1
      <4>4. c \in Controllers
        BY <3>3, Roles
      <4> QED
        BY <3>1, <3>3, <4>2, <4>3, <4>4 DEF LeavesOK, Waiting, AtWork, Changes, Busy
    <3>4. CASE client[c].then = "poll" /\ Become(c, [Idle EXCEPT !.at = "poll"])
      <4>1. PICK st : st = [idle EXCEPT !.at = "poll"]
        OBVIOUS
      <4>2. st.at = "poll" /\ st.todo = <<>>
        BY <1>2, <4>1 DEF States
      <4>3. client'[c] = st
        BY <1>2, <1>5, <3>4, <4>1
      <4>4. c \in Controllers
        BY <3>4, Roles
      <4> QED
        BY <3>1, <3>4, <4>2, <4>3, <4>4 DEF LeavesOK, Waiting, AtWork, Changes, Busy
    <3> QED
      BY <2>3, <3>2, <3>3, <3>4 DEF Return
  <2>4. CASE get_source(c)
    <3>1. PICK before, st, source :
            /\ before = client[c] /\ source = _source_map[before.id]
            /\ st = [before EXCEPT !.at = "enter", !.source = source]
      OBVIOUS
    <3>2. before \in States
      BY <3>1, Facts
    <3>3. st.at = "enter"
      BY <3>1, <3>2 DEF States
    <3>4. client'[c] = st /\ client[c].at = "get"
      BY <1>5, <2>4, <3>1 DEF get_source
    <3>5. c \in Controllers
      BY <3>4, Roles
    <3> QED
      BY <3>3, <3>4, <3>5 DEF LeavesOK, Waiting, AtWork, Changes, Busy
  <2>5. CASE RemNext(c)
    <3>1. PICK id \in Ids :
            Become(c, [client[c] EXCEPT !.at = "enter", !.id = id,
                                        !.source = _source_map[id], !.then = "next"])
      BY <2>5 DEF RemNext
    <3>2. PICK before, st, source :
            /\ before = client[c] /\ source = _source_map[id]
            /\ st = [before EXCEPT !.at = "enter", !.id = id, !.source = source, !.then = "next"]
      OBVIOUS
    <3>3. before \in States
      BY <3>2, Facts
    <3>4. st.at = "enter"
      BY <3>2, <3>3 DEF States
    <3>5. client'[c] = st /\ client[c].at = "all"
      BY <1>5, <2>5, <3>1, <3>2 DEF RemNext
    <3>6. c \in Controllers
      BY <3>5, Roles
    <3> QED
      BY <3>4, <3>5, <3>6 DEF LeavesOK, Waiting, AtWork, Changes, Busy
  <2>6. CASE WaitReturns(c)
    <3>1. client'[c] = idle /\ client[c].at = "poll" /\ c \in done
      BY <1>2, <1>5, <2>6 DEF WaitReturns
    <3> QED
      BY <1>2, <3>1 DEF LeavesOK, Waiting, AtWork, Changes, Busy
  <2> QED
    BY <2>1, <2>2, <2>3, <2>4, <2>5, <2>6
<1>7. ControllerInv'
  <2>1. c \notin Controllers => SetsOnly(c)'
    BY <1>6, IdleState DEF LeavesOK, SetsOnly
  <2>2. AddsOK(c)'
    BY <1>6 DEF LeavesOK, AddsOK, AtWork
  <2>3. c \in Controllers => WaitsOK(c)'
    BY <1>1, <1>6 DEF LeavesOK, WaitsOK, ControllerInv, objects
  <2> QED
    BY <1>1, <1>4, <2>1, <2>2, <2>3, ControllerStays DEF objects
<1>8. \A d \in Clients : Continues(d)
  BY <1>4, <1>6, OthersContinue DEF LeavesOK, Continues
<1>9. AccountInv'
  <2>1. /\ \A s : Covered(s) => Covered(s)'
        /\ \A s : CoveredSource(s) => CoveredSource(s)'
    BY <1>1, <1>8, CoveredStays DEF Mapped, objects
  <2>2. ASSUME NEW d \in Clients, AtWork(d)', client'[d].then = "construct"
        PROVE  client'[d].source \notin sources'
    <3>1. d # c
      BY <1>6, <2>2 DEF LeavesOK, AtWork
    <3> QED
      BY <1>1, <1>4, <2>2, <3>1, SameClient DEF AccountInv, queue
  <2> QED
    BY <1>1, <2>1, <2>2, AccountStays DEF objects, queue, AccountInv
<1>10. WaitInv'
  <2>1. ASSUME NEW d \in Controllers
        PROVE  /\ d \notin done /\ Waiting(d) /\ client[d].todo = <<>>
                    => d \notin done' /\ Waiting(d)' /\ client'[d].todo = <<>>
               /\ d \in done' /\ Waiting(d)'
                    => d \in done /\ Waiting(d) /\ (client[d].todo = <<>> => client'[d].todo = <<>>)
    <3>1. d \in Clients /\ done' = done
      BY <1>1, ControllersAssumption DEF queue
    <3>2. CASE d = c
      BY <1>6, <3>1, <3>2 DEF LeavesOK
    <3>3. CASE d # c
      BY <1>4, <3>1, <3>3, SameClient
    <3> QED
      BY <3>2, <3>3
  <2> QED
    BY <1>1, <2>1, WaitStays DEF queue
<1> QED
  BY <1>7, <1>9, <1>10

\* A client that begins to push, and was not waiting: what has to be shown.
LEMMA BeginsSettles ==
  ASSUME SafetyInv, SettlingInv, NEW c \in Clients,
         \A d \in Clients \ {c} : client'[d] = client[d],
         client[c].at \in {"idle", "enter"}, client'[c].at = "pushing", client'[c].then # "poll",
         UNCHANGED <<_in_fifo, _out_fifo, lost, lists, done>>,
         inputs' = inputs \/ c \in Controllers, OneController
  PROVE  WaitInv' /\ ~ Waiting(c) /\ ~ Waiting(c)' /\ (\A d \in Clients : Continues(d))
<1>1. ~ Waiting(c) /\ ~ Waiting(c)' /\ ~ Changes(c)
  BY DEF Waiting, AtWork, Changes, Busy
<1>2. \A d \in Clients : Continues(d)
  BY <1>1, OthersContinue DEF Continues
<1>3. ASSUME NEW d \in Controllers
      PROVE  /\ d \notin done /\ Waiting(d) /\ client[d].todo = <<>>
                  => d \notin done' /\ Waiting(d)' /\ client'[d].todo = <<>>
             /\ d \in done' /\ Waiting(d)'
                  => d \in done /\ Waiting(d) /\ (client[d].todo = <<>> => client'[d].todo = <<>>)
  <2>1. d \in Clients
    BY ControllersAssumption
  <2>2. CASE d = c
    BY <1>1, <2>2
  <2>3. CASE d # c
    BY <2>1, <2>3, SameClient
  <2> QED
    BY <2>2, <2>3
<1>4. inputs' = inputs \/ \A d \in Controllers : ~ Waiting(d)
  BY <1>1 DEF OneController
<1>5. WaitInv'
  BY <1>3, <1>4, WaitStays DEF SettlingInv
<1> QED
  BY <1>1, <1>2, <1>5

LEMMA SetSettles ==
  ASSUME SafetyInv, SettlingInv, OneController, NEW c \in Clients, NEW id \in Ids, set_source(c, id)
  PROVE  SettlingInv'
<1> USE DEF SettlingInv
<1>1. PICK s, todo, state :
        /\ s = _source_map[id] /\ todo = <<Cmd("set", s)>>
        /\ state = Pushing(id, s, todo, "return")
  OBVIOUS
<1>2. /\ client[c].at = "idle" /\ Become(c, state)
      /\ UNCHANGED <<objects, lists, queue>>
  BY <1>1 DEF set_source
<1>3. /\ state.at = "pushing" /\ state.then = "return" /\ state.todo = todo
  BY <1>1 DEF Pushing
<1>4. client'[c] = state /\ \A d \in Clients \ {c} : client'[d] = client[d]
  BY <1>2, Facts, ClientTypes DEF Become
<1>5. todo[1].op = "set"
  BY <1>1, Tuples, Cmds
<1>6. WaitInv' /\ ~ Waiting(c)' /\ (\A d \in Clients : Continues(d))
  BY <1>2, <1>3, <1>4, BeginsSettles DEF queue
<1>7. ControllerInv'
  <2>1. SetsOnly(c)'
    BY <1>3, <1>4, <1>5 DEF SetsOnly
  <2>2. AddsOK(c)' /\ WaitsOK(c)'
    BY <1>3, <1>4, <1>6 DEF AddsOK, WaitsOK
  <2> QED
    BY <1>2, <1>4, <2>1, <2>2, ControllerStays DEF objects
<1>8. AccountInv'
  <2>1. /\ \A s1 : Covered(s1) => Covered(s1)'
        /\ \A s1 : CoveredSource(s1) => CoveredSource(s1)'
    BY <1>2, <1>6, CoveredStays DEF Mapped, objects
  <2>2. ASSUME NEW d \in Clients, AtWork(d)', client'[d].then = "construct"
        PROVE  client'[d].source \notin sources'
    <3>1. d # c
      BY <1>3, <1>4, <2>2
    <3> QED
      BY <1>2, <1>4, <2>2, <3>1, SameClient DEF AccountInv, queue
  <2> QED
    BY <1>2, <2>1, <2>2, AccountStays DEF objects, queue, AccountInv
<1> QED
  BY <1>6, <1>7, <1>8

LEMMA AllDoneSettles ==
  ASSUME SafetyInv, SettlingInv, OneController, NEW c \in Clients, RemAllDone(c)
  PROVE  SettlingInv'
<1> USE DEF SettlingInv
<1>1. PICK todo, state : todo = <<Cmd("wait", c)>> /\ state = Pushing(0, 0, todo, "poll")
  OBVIOUS
<1>2. /\ client[c].at = "all" /\ \A id \in Ids : _source_map[id] = 0
      /\ Become(c, state) /\ _highest_id' = 0 /\ done' = done \ {c}
      /\ UNCHANGED <<_source_map, created, lists, inputs, sources, _in_fifo, _out_fifo, lost>>
  BY <1>1 DEF RemAllDone
<1>3. /\ state.at = "pushing" /\ state.then = "poll" /\ state.todo = todo
  BY <1>1 DEF Pushing
<1>4. client'[c] = state /\ \A d \in Clients \ {c} : client'[d] = client[d]
  BY <1>2, Facts, ClientTypes DEF Become
<1>5. c \in Controllers /\ ~ Waiting(c) /\ ~ Changes(c)
  BY <1>2, Roles DEF Waiting, AtWork, Changes, Busy
<1>6. \A d \in Clients : Continues(d)
  BY <1>4, <1>5, OthersContinue DEF Continues
<1>7. \A d \in Controllers : d = c
  BY <1>5 DEF OneController
<1>8. ControllerInv'
  <2>1. \A d \in Clients \ Controllers : SetsOnly(d)'
    BY <1>4, <1>5 DEF ControllerInv, SetsOnly
  <2>2. AddsOK(c)'
    BY <1>3, <1>4 DEF AddsOK
  <2>3. WaitsOK(c)'
    BY <1>2 DEF WaitsOK
  <2> QED
    BY <1>2, <1>7, <2>1, <2>2, <2>3 DEF ControllerInv
<1>9. AccountInv'
  <2>1. /\ \A s : Covered(s) => Covered(s)'
        /\ \A s : CoveredSource(s) => CoveredSource(s)'
    BY <1>2, <1>6, CoveredStays DEF Mapped
  <2>2. ASSUME NEW d \in Clients, AtWork(d)', client'[d].then = "construct"
        PROVE  client'[d].source \notin sources'
    <3>1. d # c
      BY <1>3, <1>4, <2>2
    <3> QED
      BY <1>2, <1>4, <2>2, <3>1, SameClient DEF AccountInv
  <2> QED
    BY <1>2, <2>1, <2>2, AccountStays DEF AccountInv
<1>10. WaitInv'
  BY <1>2, <1>5, <1>7, WaitStays
<1> QED
  BY <1>8, <1>9, <1>10

LEMMA AddSettles ==
  ASSUME SafetyInv, SettlingInv, OneController, NEW c \in Controllers, add_source(c)
  PROVE  SettlingInv'
<1> USE DEF SettlingInv
<1>1. PICK s, id, todo, state :
        /\ s = created + 1 /\ id = _highest_id + 1 /\ todo = <<Cmd("add_input", s)>>
        /\ state = Pushing(id, s, todo, "construct")
  OBVIOUS
<1>2. /\ client[c].at = "idle" /\ Become(c, state) /\ created < MaxSources
      /\ created' = s /\ _highest_id' = id /\ inputs' = inputs \cup {s}
      /\ UNCHANGED <<_source_map, sources, lists, _in_fifo, _out_fifo, lost, done>>
  BY <1>1 DEF add_source
<1>3. /\ state.at = "pushing" /\ state.then = "construct" /\ state.todo = todo
      /\ state.id = id /\ state.source = s
  BY <1>1 DEF Pushing
<1>4. client'[c] = state /\ \A d \in Clients \ {c} : client'[d] = client[d]
  BY <1>2, Facts, ClientTypes, ControllersAssumption DEF Become
<1>5. c \in Clients /\ \A d \in Controllers : d = c
  BY ControllersAssumption DEF OneController
<1>6. /\ _highest_id \in 0 .. created /\ created \in Nat /\ MaxSources \in Nat
      /\ id \in Ids /\ s \in Nat /\ s > created
  BY <1>1, <1>2, <1>5, Facts DEF Ids
<1>7. WaitInv' /\ ~ Waiting(c)' /\ (\A d \in Clients : Continues(d))
  BY <1>2, <1>3, <1>4, <1>5, BeginsSettles
<1>8. todo[1].op = "add_input" /\ todo # <<>>
  BY <1>1, Tuples, Cmds
<1>9. Changes(c)' /\ client'[c].source = s /\ NextOp(client'[c]) = "add_input"
  BY <1>3, <1>4, <1>8 DEF Changes, Busy, AtWork, NextOp
<1>10. ControllerInv'
  <2>1. \A d \in Clients \ Controllers : SetsOnly(d)'
    BY <1>4, <1>5 DEF ControllerInv, SetsOnly
  <2>2. \A k \in Ids : k > _highest_id => _source_map[k] = 0
    BY DEF ControllerInv
  <2>3. \A k \in Ids : k > _highest_id' => _source_map'[k] = 0
    BY <1>1, <1>2, <1>6, <2>2 DEF Ids
  <2>4. AddsOK(c)'
    BY <1>1, <1>2, <1>3, <1>4, <1>6, <2>2 DEF AddsOK
  <2>5. WaitsOK(c)'
    BY <1>7 DEF WaitsOK
  <2> QED
    BY <1>5, <2>1, <2>3, <2>4, <2>5 DEF ControllerInv
<1>11. AccountInv'
  <2>1. /\ \A t : Covered(t) => Covered(t)'
        /\ \A t : CoveredSource(t) => CoveredSource(t)'
    BY <1>2, <1>7, CoveredStays DEF Mapped
  <2>2. Covered(s)'
    BY <1>5, <1>9 DEF Covered
  <2>3. \A t \in 1 .. created' : t \in 1 .. created \/ t = s
    BY <1>1, <1>2, <1>6
  <2>4. \A t \in sources' : t \in Nat /\ t <= created /\ t <= created' /\ t # s
    BY <1>1, <1>2, <1>5, <1>6, Facts DEF AccountInv, DataTypes, Sources
  <2>5. ASSUME NEW d \in Clients, AtWork(d)', client'[d].then = "construct"
        PROVE  client'[d].source \notin sources'
    <3>1. CASE d # c
      BY <1>2, <1>4, <2>5, <3>1, SameClient DEF AccountInv
    <3>2. CASE d = c
      BY <1>3, <1>4, <2>4, <3>2
    <3> QED
      BY <3>1, <3>2
  <2> QED
    BY <1>2, <2>1, <2>2, <2>3, <2>4, <2>5, AccountStays
<1> QED
  BY <1>7, <1>10, <1>11

LEMMA ConstructSettles ==
  ASSUME SafetyInv, SettlingInv, OneController, NEW c \in Clients, Construct(c)
  PROVE  SettlingInv'
<1> USE DEF SettlingInv
<1>1. PICK s, id : s = client[c].source /\ id = client[c].id
  OBVIOUS
<1>2. /\ client[c].at = "pushing" /\ client[c].todo = <<>> /\ client[c].then = "construct"
      /\ UNCHANGED <<objects, lists, inputs, _in_fifo, _out_fifo, lost, done>>
  BY DEF Construct
<1>3. PICK todo, then, op, state :
        /\ \/ /\ todo = <<Cmd("add_source", s), Cmd("connect", s)>> /\ then = "register"
              /\ op = "add_source" /\ sources' = sources \cup {s}
           \/ /\ todo = <<Cmd("rem_input", s)>> /\ then = "return"
              /\ op = "rem_input" /\ sources' = sources
        /\ state = Pushing(id, s, todo, then)
        /\ Become(c, state)
  BY <1>1 DEF Construct
<1>4. /\ state.at = "pushing" /\ state.then = then /\ state.todo = todo
      /\ state.id = id /\ state.source = s
  <2>1. state = Pushing(id, s, todo, then)
    BY <1>3
  <2> QED
    BY <2>1 DEF Pushing
<1>5. client'[c] = state /\ \A d \in Clients \ {c} : client'[d] = client[d]
  BY <1>3, Facts, ClientTypes DEF Become
<1>6. todo # <<>> /\ todo[1].op = op
  <2>1. ASSUME NEW x, NEW y
        PROVE  <<x, y>> # <<>> /\ <<x, y>>[1] = x /\ <<x>> # <<>> /\ <<x>>[1] = x
    BY Tuples
  <2>2. CASE op = "add_source"
    <3>1. todo = <<Cmd("add_source", s), Cmd("connect", s)>>
      BY <1>3, <2>2
    <3> QED
      BY <2>1, <2>2, <3>1, Cmds
  <2>3. CASE op = "rem_input"
    <3>1. todo = <<Cmd("rem_input", s)>>
      BY <1>3, <2>3
    <3> QED
      BY <2>1, <2>3, <3>1, Cmds
  <2> QED
    BY <1>3, <2>2, <2>3
<1>7. c \in Controllers /\ s \in 1 .. created /\ s \notin sources
  <2>1. PICK next : next = IF client[c].then = "construct" THEN "add_source" ELSE "set"
    OBVIOUS
  <2>2. s \in 1 .. created
    BY <1>1, <1>2, <2>1, Pushed
  <2>3. s \notin sources
    BY <1>1, <1>2 DEF AccountInv, AtWork
  <2> QED
    BY <1>2, <2>2, <2>3, Roles
<1>8. Changes(c)' /\ client'[c].source = s /\ NextOp(client'[c]) = op
  BY <1>3, <1>4, <1>5, <1>6 DEF Changes, Busy, AtWork, NextOp
<1>9. ~ Waiting(c) /\ ~ Waiting(c)'
  BY <1>2, <1>3, <1>4, <1>5 DEF Waiting, AtWork
<1>10. WaitInv'
  <2>1. ASSUME NEW d \in Controllers
        PROVE  /\ d \notin done /\ Waiting(d) /\ client[d].todo = <<>>
                    => d \notin done' /\ Waiting(d)' /\ client'[d].todo = <<>>
               /\ d \in done' /\ Waiting(d)'
                    => d \in done /\ Waiting(d) /\ (client[d].todo = <<>> => client'[d].todo = <<>>)
    BY <1>7, <1>9 DEF OneController
  <2> QED
    BY <1>2, <2>1, WaitStays
<1>11. ControllerInv'
  <2>1. AddsOK(c)
    BY <1>7 DEF ControllerInv
  <2>2. AddsOK(c)'
    BY <1>1, <1>2, <1>4, <1>5, <2>1 DEF AddsOK, AtWork, objects
  <2>3. WaitsOK(c)'
    BY <1>9 DEF WaitsOK
  <2> QED
    BY <1>2, <1>5, <1>7, <2>2, <2>3, ControllerStays DEF objects
<1>12. AccountInv'
  <2>1. ASSUME NEW t, Covered(t)
        PROVE  Covered(t)'
    <3>1. CASE t \in Mapped
      BY <1>2, <3>1 DEF Covered, Mapped, objects
    <3>2. CASE t \notin Mapped
      <4>1. PICK d \in Clients : Changes(d) /\ client[d].source = t
        BY <2>1, <3>2 DEF Covered
      <4>2. d = c
        BY <1>7, <4>1, Roles DEF OneController
      <4> QED
        BY <1>1, <1>8, <4>1, <4>2 DEF Covered
    <3> QED
      BY <3>1, <3>2
  <2>2. ASSUME NEW t, t # s, CoveredSource(t)
        PROVE  CoveredSource(t)'
    <3>1. CASE t \in Mapped
      BY <1>2, <3>1 DEF CoveredSource, Mapped, objects
    <3>2. CASE t \notin Mapped
      <4>1. PICK d \in Clients : Changes(d) /\ client[d].source = t
        BY <2>2, <3>2 DEF CoveredSource
      <4>2. d = c
        BY <1>7, <4>1, Roles DEF OneController
      <4> QED
        BY <1>1, <2>2, <4>1, <4>2
    <3> QED
      BY <3>1, <3>2
  <2>3. s \in sources' => CoveredSource(s)'
    BY <1>3, <1>7, <1>8 DEF CoveredSource
  <2>4. \A t \in sources' : t <= created' /\ (t \in sources \/ t = s)
    BY <1>2, <1>3, <1>7 DEF AccountInv, objects
  <2>5. ASSUME NEW d \in Clients, AtWork(d)', client'[d].then = "construct"
        PROVE  client'[d].source \notin sources'
    <3>1. d # c /\ client'[d] = client[d] /\ AtWork(d)
      BY <1>3, <1>4, <1>5, <2>5 DEF AtWork
    <3>2. d \in Controllers
      BY <2>5, <3>1, Roles
    <3> QED
      BY <1>7, <3>1, <3>2 DEF OneController
  <2>6. \A t \in sources' : (t \in sources /\ ~ CoveredSource(t)) \/ CoveredSource(t)'
    BY <2>2, <2>3, <2>4
  <2>7. sources \subseteq sources'
    BY <1>3
  <2> QED
    BY <1>2, <2>1, <2>4, <2>5, <2>6, <2>7, AccountStays DEF objects
<1> QED
  BY <1>10, <1>11, <1>12

LEMMA RegisterSettles ==
  ASSUME SafetyInv, SettlingInv, OneController, NEW c \in Clients, Register(c)
  PROVE  SettlingInv'
<1> USE DEF SettlingInv
<1>1. PICK s, id, idle :
        /\ s = client[c].source /\ id = client[c].id
        /\ idle = Idle /\ idle.at = "idle"
  BY IdleState
<1>2. /\ client[c].at = "pushing" /\ client[c].todo = <<>> /\ client[c].then = "register"
      /\ _source_map' = [_source_map EXCEPT ![id] = s] /\ Become(c, idle)
      /\ UNCHANGED <<_highest_id, created, lists, queue>>
  BY <1>1 DEF Register
<1>3. client'[c] = idle /\ \A d \in Clients \ {c} : client'[d] = client[d]
  BY <1>2, Facts, ClientTypes DEF Become
<1>4. c \in Controllers /\ \A d \in Controllers : d = c
  BY <1>2, Roles DEF OneController
<1>5. id = _highest_id /\ id \in Ids /\ _source_map[id] = 0
  BY <1>1, <1>2, <1>4 DEF ControllerInv, AddsOK, AtWork
<1>6. s \in 1 .. created
  <2>1. PICK next : next = IF client[c].then = "construct" THEN "add_source" ELSE "set"
    OBVIOUS
  <2> QED
    BY <1>1, <1>2, <2>1, Pushed
<1>7. ~ Waiting(c) /\ ~ Waiting(c)' /\ ~ AtWork(c)'
  BY <1>1, <1>2, <1>3 DEF Waiting, AtWork
<1>8. _source_map'[id] = s /\ \A k \in Ids : k # id => _source_map'[k] = _source_map[k]
  <2>1. _source_map \in [Ids -> 0 .. MaxSources]
    BY Facts DEF DataTypes
  <2> QED
    BY <1>2, <1>5, <2>1
<1>9. s \in Mapped' /\ Mapped \subseteq Mapped'
  <2>1. s # 0
    BY <1>6
  <2>2. ASSUME NEW t \in Mapped
        PROVE  t \in Mapped'
    <3>1. PICK k \in Ids : _source_map[k] = t /\ t # 0
      BY DEF Mapped
    <3>2. k # id
      BY <1>5, <3>1
    <3>3. _source_map'[k] = t
      BY <1>8, <3>1, <3>2
    <3> QED
      BY <3>1, <3>3 DEF Mapped
  <2> QED
    BY <1>5, <1>8, <2>1, <2>2 DEF Mapped
<1>10. WaitInv'
  <2>1. ASSUME NEW d \in Controllers
        PROVE  /\ d \notin done /\ Waiting(d) /\ client[d].todo = <<>>
                    => d \notin done' /\ Waiting(d)' /\ client'[d].todo = <<>>
               /\ d \in done' /\ Waiting(d)'
                    => d \in done /\ Waiting(d) /\ (client[d].todo = <<>> => client'[d].todo = <<>>)
    BY <1>4, <1>7
  <2> QED
    BY <1>2, <2>1, WaitStays DEF queue
<1>11. ControllerInv'
  <2>1. \A d \in Clients \ Controllers : SetsOnly(d)'
    BY <1>3, <1>4 DEF ControllerInv, SetsOnly
  <2>2. ASSUME NEW k \in Ids, k > _highest_id'
        PROVE  _source_map'[k] = 0
    <3>1. k > _highest_id /\ k # id
      BY <1>2, <1>5, <2>2 DEF Ids
    <3> QED
      BY <1>8, <3>1 DEF ControllerInv
  <2>3. AddsOK(c)' /\ WaitsOK(c)'
    BY <1>7 DEF AddsOK, WaitsOK
  <2> QED
    BY <1>4, <2>1, <2>2, <2>3 DEF ControllerInv
<1>12. AccountInv'
  <2>1. ASSUME NEW d \in Clients, Changes(d)
        PROVE  client[d].source \in Mapped'
    <3>1. d = c
      BY <1>4, <2>1, Roles
    <3> QED
      BY <1>1, <1>9, <3>1
  <2>2. \A t : Covered(t) => Covered(t)'
    BY <1>9, <2>1 DEF Covered
  <2>3. \A t : CoveredSource(t) => CoveredSource(t)'
    BY <1>9, <2>1 DEF CoveredSource
  <2>4. ASSUME NEW d \in Clients, AtWork(d)', client'[d].then = "construct"
        PROVE  client'[d].source \notin sources'
    <3>1. d # c
      BY <1>7, <2>4
    <3> QED
      BY <1>2, <1>3, <2>4, <3>1, SameClient DEF AccountInv, queue
  <2> QED
    BY <1>2, <2>2, <2>3, <2>4, AccountStays DEF queue, AccountInv
<1> QED
  BY <1>10, <1>11, <1>12

LEMMA RemoveSettles ==
  ASSUME SafetyInv, SettlingInv, OneController, NEW c \in Clients, rem_source(c)
  PROVE  SettlingInv'
<1> USE DEF SettlingInv
<1>1. PICK s, id, todo, then, state :
        /\ s = client[c].source /\ id = client[c].id /\ then = client[c].then
        /\ todo = <<Cmd("disconnect", s), Cmd("rem_source", s), Cmd("rem_input", s)>>
        /\ state = Pushing(id, s, todo, then)
  OBVIOUS
<1>2. /\ client[c].at = "enter" /\ s # 0 /\ Become(c, state)
      /\ UNCHANGED <<_highest_id, created, lists, queue>>
  BY <1>1 DEF rem_source
<1>3. PICK k \in Ids : _source_map[k] = s /\ _source_map' = [_source_map EXCEPT ![k] = 0]
  BY <1>1 DEF rem_source
<1>4. /\ state.at = "pushing" /\ state.then = then /\ state.todo = todo
      /\ state.id = id /\ state.source = s
  <2>1. state = Pushing(id, s, todo, then)
    BY <1>1
  <2> QED
    BY <2>1 DEF Pushing
<1>5. client'[c] = state /\ \A d \in Clients \ {c} : client'[d] = client[d]
  BY <1>2, Facts, ClientTypes DEF Become
<1>6. todo # <<>> /\ todo[1].op = "disconnect"
  <2>1. ASSUME NEW x, NEW y, NEW z
        PROVE  <<x, y, z>> # <<>> /\ <<x, y, z>>[1] = x
    BY Tuples
  <2>2. todo = <<Cmd("disconnect", s), Cmd("rem_source", s), Cmd("rem_input", s)>>
    BY <1>1
  <2> QED
    BY <2>1, <2>2, Cmds
<1>7. then \in {"return", "next"}
  BY <1>1, <1>2, Facts DEF ClientOK, TodoOK
<1>8. c \in Controllers /\ \A d \in Controllers : d = c
  BY <1>2, Roles DEF OneController
<1>9. Changes(c)' /\ client'[c].source = s /\ NextOp(client'[c]) = "disconnect"
  BY <1>4, <1>5, <1>6, <1>7 DEF Changes, Busy, AtWork, NextOp
<1>10. WaitInv' /\ ~ Waiting(c)'
  BY <1>2, <1>4, <1>5, <1>7, BeginsSettles DEF queue
<1>11. /\ _source_map'[k] = 0
       /\ \A j \in Ids : j # k => _source_map'[j] = _source_map[j]
  <2>1. _source_map \in [Ids -> 0 .. MaxSources]
    BY Facts DEF DataTypes
  <2> QED
    BY <1>3, <2>1
<1>12. ControllerInv'
  <2>1. \A d \in Clients \ Controllers : SetsOnly(d)'
    BY <1>5, <1>8 DEF ControllerInv, SetsOnly
  <2>2. \A j \in Ids : j > _highest_id' => _source_map'[j] = 0
    BY <1>2, <1>11 DEF ControllerInv
  <2>3. AddsOK(c)' /\ WaitsOK(c)'
    BY <1>4, <1>5, <1>7, <1>10 DEF AddsOK, WaitsOK
  <2> QED
    BY <1>8, <2>1, <2>2, <2>3 DEF ControllerInv
<1>13. AccountInv'
  <2>1. ASSUME NEW t, t \in Mapped
        PROVE  t \in Mapped' \/ t = s
    <3>1. PICK j \in Ids : _source_map[j] = t /\ t # 0
      BY <2>1 DEF Mapped
    <3>2. CASE j = k
      BY <1>3, <3>1, <3>2
    <3>3. CASE j # k
      BY <1>11, <3>1, <3>3 DEF Mapped
    <3> QED
      BY <3>2, <3>3
  <2>2. Covered(s)' /\ CoveredSource(s)'
    BY <1>9 DEF Covered, CoveredSource
  <2>3. ASSUME NEW d \in Clients
        PROVE  ~ Changes(d)
    <3>1. Changes(d) => d = c
      BY <1>8, Roles
    <3> QED
      BY <1>2, <3>1 DEF Changes, Busy, AtWork
  <2>4. \A t : Covered(t) => Covered(t)'
    BY <2>1, <2>2, <2>3 DEF Covered
  <2>5. \A t : CoveredSource(t) => CoveredSource(t)'
    BY <2>1, <2>2, <2>3 DEF CoveredSource
  <2>6. ASSUME NEW d \in Clients, AtWork(d)', client'[d].then = "construct"
        PROVE  client'[d].source \notin sources'
    <3>1. d # c
      BY <1>4, <1>5, <1>7, <2>6
    <3> QED
      BY <1>2, <1>5, <2>6, <3>1, SameClient DEF AccountInv, queue
  <2> QED
    BY <1>2, <2>4, <2>5, <2>6, AccountStays DEF queue, AccountInv
<1> QED
  BY <1>10, <1>12, <1>13

\* What push() and wait() change in the clients when they clean up.
LEMMA Pushes ==
  ASSUME SafetyInv, NEW c \in Clients, Push(c) \/ Poll(c), NEW d \in Clients
  PROVE  /\ AtWork(d)' = AtWork(d) /\ Waiting(d)' = Waiting(d)
         /\ Changes(d)' = Changes(d) /\ NextOp(client'[d]) = NextOp(client[d])
         /\ client'[d].then = client[d].then /\ client'[d].todo = client[d].todo
         /\ client'[d].source = client[d].source /\ client'[d].id = client[d].id
         /\ SetsOnly(d) => SetsOnly(d)'
<1>1. CASE client'[d] = client[d]
  BY <1>1, SameClient DEF SetsOnly
<1>2. CASE Push(c) /\ d = c
  <2>1. PICK before, state : /\ before = client[c] /\ before \in States
                             /\ state = [before EXCEPT !.at = "inserting"]
    BY Facts
  <2>2. /\ state.at = "inserting" /\ state.then = before.then /\ state.todo = before.todo
        /\ state.source = before.source /\ state.id = before.id
    BY <2>1 DEF States
  <2>3. client'[d] = state /\ client[d] = before /\ before.at = "pushing"
    BY <1>2, <2>1, Facts, ClientTypes DEF Push, Become
  <2> QED
    BY <2>2, <2>3 DEF AtWork, Waiting, Changes, Busy, NextOp, SetsOnly
<1>3. CASE Push(c) /\ d # c
  <2>1. client'[d] = client[d]
    BY <1>3, Facts, ClientTypes DEF Push, Become
  <2> QED
    BY <1>1, <2>1
<1>4. CASE Poll(c)
  BY <1>1, <1>4 DEF Poll
<1> QED
  BY <1>2, <1>3, <1>4

\* What a command in _out_fifo refers to.
LEMMA Referred ==
  ASSUME TypeOK, NEW op, NEW of
  PROVE  of \in Of(op, ToSet(_out_fifo)) <=> Cmd(op, of) \in ToSet(_out_fifo)
<1>1. ASSUME of \in Of(op, ToSet(_out_fifo))
      PROVE  Cmd(op, of) \in ToSet(_out_fifo)
  <2>1. PICK cmd \in ToSet(_out_fifo) : cmd.op = op /\ cmd.of = of
    BY <1>1 DEF Of
  <2>2. cmd \in Commands
    BY ToSets DEF TypeOK
  <2>3. cmd = Cmd(op, of)
    BY <2>1, <2>2, CommandTypes DEF Cmd
  <2> QED
    BY <2>3
<1>2. ASSUME Cmd(op, of) \in ToSet(_out_fifo)
      PROVE  of \in Of(op, ToSet(_out_fifo))
  <2>1. PICK cmd \in ToSet(_out_fifo) : cmd = Cmd(op, of)
    BY <1>2
  <2>2. cmd.op = op /\ cmd.of = of
    BY <2>1, Cmds
  <2> QED
    BY <2>2 DEF Of
<1> QED
  BY <1>1, <1>2

LEMMA CleanUpSettles ==
  ASSUME SafetyInv, SettlingInv, NEW c \in Clients, Push(c) \/ Poll(c)
  PROVE  SettlingInv'
<1> USE DEF SettlingInv
<1>1. CleanUp /\ UNCHANGED <<_source_map, _highest_id, created, lists, _in_fifo, lost>>
  BY DEF Push, Poll, objects
<1>2. /\ TypeOK /\ OrderInv /\ _in_fifo \in Seq(Commands)
      /\ \A cmd \in Known : cmd \in Commands
  <2>1. TypeOK
    BY DEF SafetyInv
  <2>2. ToSet(_in_fifo) \subseteq Commands /\ ToSet(_out_fifo) \subseteq Commands
    BY <2>1, ToSets DEF TypeOK
  <2> QED
    BY <2>1, <2>2 DEF SafetyInv, Known, Executed, TypeOK
<1>3. \A d \in Clients :
        /\ AtWork(d)' = AtWork(d) /\ Waiting(d)' = Waiting(d)
        /\ Changes(d)' = Changes(d) /\ NextOp(client'[d]) = NextOp(client[d])
        /\ client'[d].then = client[d].then /\ client'[d].todo = client[d].todo
        /\ client'[d].source = client[d].source /\ client'[d].id = client[d].id
        /\ SetsOnly(d) => SetsOnly(d)'
  BY Pushes
<1>4. /\ Executed' = lost /\ Known' = ToSet(_in_fifo) \cup lost
      /\ ToSet(_out_fifo)' = {} /\ Known' \subseteq Known /\ ToSet(_out_fifo) \subseteq Executed
      /\ Executed' \subseteq Executed
  <2>1. ToSet(<<>>) = {}
    BY DEF ToSet
  <2>2. ToSet(_out_fifo)' = {}
    BY <1>1, <2>1 DEF CleanUp
  <2> QED
    BY <1>1, <2>2 DEF Executed, Known
<1>5. /\ \A s : s \in inputs' <=> s \in inputs /\ Cmd("rem_input", s) \notin ToSet(_out_fifo)
      /\ \A s : s \in sources' <=> s \in sources /\ Cmd("rem_source", s) \notin ToSet(_out_fifo)
      /\ \A d : d \in done' <=> d \in done \/ Cmd("wait", d) \in ToSet(_out_fifo)
  BY <1>1, <1>2, Referred DEF CleanUp
<1>6. ControllerInv'
  <2>1. \A d \in Clients \ Controllers : SetsOnly(d)'
    BY <1>3 DEF ControllerInv
  <2>2. ASSUME NEW d \in Controllers
        PROVE  AddsOK(d)' /\ WaitsOK(d)'
    <3>1. d \in Clients /\ AddsOK(d) /\ WaitsOK(d)
      BY ControllersAssumption DEF ControllerInv
    <3> QED
      BY <1>1, <1>3, <3>1 DEF AddsOK, WaitsOK
  <2> QED
    BY <1>1, <2>1, <2>2 DEF ControllerInv
<1>7. /\ \A s : Covered(s) => Covered(s)'
      /\ \A s : CoveredSource(s) => CoveredSource(s)'
  <2>1. \A d \in Clients : Continues(d)
    BY <1>3 DEF Continues
  <2> QED
    BY <1>1, <2>1, CoveredStays DEF Mapped
<1>8. ASSUME NEW op \in {"rem_input", "rem_source"}, NEW cmd \in Known', cmd.op = op
      PROVE  cmd \notin ToSet(_out_fifo)
  <2>1. cmd \in Commands /\ cmd.op # "wait" /\ cmd.of \in Sources /\ op \in SourceOps
    BY <1>2, <1>4, <1>8, CommandTypes DEF SourceOps
  <2>2. CASE cmd \in lost
    BY <1>8, <2>2 DEF AccountInv
  <2>3. CASE cmd \in ToSet(_in_fifo)
    <3>1. PICK i \in 1 .. Len(_in_fifo) : _in_fifo[i] = cmd
      BY <1>2, <2>3, ToSets
    <3>2. IsFor(cmd, cmd.of)
      BY <2>1 DEF IsFor
    <3>3. ~ MayFollow(op, op)
      BY <1>8, <2>1, Ops DEF MayFollow
    <3> QED
      BY <1>2, <1>4, <1>8, <2>1, <3>1, <3>2, <3>3 DEF OrderInv
  <2> QED
    BY <1>4, <2>2, <2>3
<1>9. AccountInv'
  <2>1. \A s \in 1 .. created' : Covered(s)' \/ Ends(s, 0)'
    <3>1. \A s, stage : Ends(s, stage)' = Ends(s, stage)
      BY <1>1, <1>4, QueueStays
    <3> QED
      BY <1>1, <1>7, <3>1 DEF AccountInv
  <2>2. \A s \in inputs' : Covered(s)' \/ Cmd("rem_input", s) \in Known'
    BY <1>4, <1>5, <1>7 DEF AccountInv, Known, Executed
  <2>3. \A s \in sources' : CoveredSource(s)' \/ Cmd("rem_source", s) \in Known'
    BY <1>4, <1>5, <1>7 DEF AccountInv, Known, Executed
  <2>4. ASSUME NEW cmd \in Known'
        PROVE  /\ cmd.op = "rem_input" => cmd.of \in inputs'
               /\ cmd.op = "rem_source" => cmd.of \in sources'
    <3>1. cmd = Cmd(cmd.op, cmd.of)
      BY <1>2, <1>4, CommandTypes DEF Cmd
    <3>2. CASE cmd.op = "rem_input"
      <4>1. cmd.of \in inputs
        BY <1>4, <3>2 DEF AccountInv
      <4> QED
        BY <1>5, <1>8, <3>1, <3>2, <4>1
    <3>3. CASE cmd.op = "rem_source"
      <4>1. cmd.of \in sources
        BY <1>4, <3>3 DEF AccountInv
      <4> QED
        BY <1>5, <1>8, <3>1, <3>3, <4>1
    <3> QED
      BY <3>2, <3>3
  <2>5. \A s \in sources' : s <= created'
    BY <1>1, <1>5 DEF AccountInv
  <2>6. \A d \in Clients : AtWork(d)' /\ client'[d].then = "construct"
                             => client'[d].source \notin sources'
    BY <1>3, <1>5 DEF AccountInv
  <2> QED
    BY <1>4, <2>1, <2>2, <2>3, <2>4, <2>5, <2>6 DEF AccountInv
<1>10. OwnersInv /\ BehindInv /\ PassedInv /\ DoneInv
  BY DEF WaitInv
<1>11. OwnersInv'
  <2> SUFFICES ASSUME NEW cmd \in Known', cmd.op = "wait"
               PROVE  /\ cmd.of \in Controllers \ done'
                      /\ Waiting(cmd.of)' /\ client'[cmd.of].todo = <<>>
    BY DEF OwnersInv
  <2>1. /\ cmd.of \in Controllers \ done /\ Waiting(cmd.of) /\ client[cmd.of].todo = <<>>
        /\ cmd.of \in Clients
    BY <1>4, <1>10, ControllersAssumption DEF OwnersInv
  <2>2. cmd \notin ToSet(_out_fifo)
    <3>1. CASE cmd \in lost
      BY <1>4, <1>10, <3>1 DEF PassedInv
    <3>2. CASE cmd \in ToSet(_in_fifo)
      <4>1. PICK i \in 1 .. Len(_in_fifo) : _in_fifo[i] = cmd
        BY <1>2, <3>2, ToSets
      <4> QED
        BY <1>4, <1>10, <4>1 DEF BehindInv
    <3> QED
      BY <1>4, <3>1, <3>2
  <2>3. cmd = Cmd("wait", cmd.of)
    BY <1>2, <1>4, CommandTypes DEF Cmd
  <2> QED
    BY <1>3, <1>5, <2>1, <2>2, <2>3
<1>12. BehindInv'
  <2> SUFFICES ASSUME NEW i \in 1 .. Len(_in_fifo), _in_fifo[i].op = "wait"
               PROVE  /\ _in_fifo[i] \notin Executed'
                      /\ \A j \in 1 .. Len(_in_fifo) : _in_fifo[j].op = "wait" => i = j
                      /\ \A s \in inputs' : \/ Cmd("rem_input", s) \in Executed'
                                            \/ \E j \in 1 .. i - 1 : _in_fifo[j] = Cmd("rem_input", s)
    BY <1>1 DEF BehindInv
  <2>1. \A s \in inputs' : Cmd("rem_input", s) \in Executed => Cmd("rem_input", s) \in Executed'
    BY <1>4, <1>5 DEF Executed
  <2> QED
    BY <1>4, <1>5, <1>10, <2>1 DEF BehindInv
<1>13. PassedInv'
  BY <1>4, <1>5, <1>10 DEF PassedInv, Executed
<1>14. DoneInv'
  <2> SUFFICES ASSUME NEW d \in done' \cap Controllers, Waiting(d)'
               PROVE  /\ client'[d].todo = <<>>
                      /\ \A s \in inputs' : Cmd("rem_input", s) \in lost'
    BY DEF DoneInv
  <2>1. d \in Clients /\ Waiting(d)
    BY <1>3, ControllersAssumption
  <2>2. CASE d \in done
    BY <1>1, <1>3, <1>5, <1>10, <2>1, <2>2 DEF DoneInv
  <2>3. CASE Cmd("wait", d) \in ToSet(_out_fifo)
    <3>1. PICK cmd \in ToSet(_out_fifo) : cmd = Cmd("wait", d)
      BY <2>3
    <3>2. cmd.op = "wait" /\ cmd.of = d
      BY <3>1, Cmds
    <3>3. client[d].todo = <<>>
      BY <1>4, <1>10, <3>2 DEF OwnersInv, Known
    <3>4. \A s \in inputs : Cmd("rem_input", s) \in Executed
      BY <1>4, <1>10, <3>2 DEF PassedInv
    <3> QED
      BY <1>1, <1>3, <1>5, <2>1, <3>3, <3>4 DEF Executed
  <2> QED
    BY <1>5, <2>2, <2>3
<1> QED
  BY <1>6, <1>9, <1>11, <1>12, <1>13, <1>14 DEF WaitInv

LEMMA ExecuteSettles ==
  ASSUME SafetyInv, SettlingInv, Execute
  PROVE  SettlingInv'
<1> USE DEF SettlingInv
<1>1. /\ _in_fifo # <<>> /\ _in_fifo \in Seq(Commands) /\ _out_fifo \in Seq(Commands)
      /\ UNCHANGED <<objects, inputs, sources, done, client>>
      /\ OrderInv /\ AccountInv /\ ControllerInv
      /\ OwnersInv /\ BehindInv /\ PassedInv /\ DoneInv
  BY DEF Execute, SafetyInv, TypeOK, WaitInv
<1>2. PICK cmd : cmd = Head(_in_fifo)
  OBVIOUS
<1>3. /\ cmd = _in_fifo[1] /\ cmd \in Commands /\ 1 \in 1 .. Len(_in_fifo)
      /\ cmd \in ToSet(_in_fifo)
      /\ Len(Tail(_in_fifo)) = Len(_in_fifo) - 1 /\ Len(_in_fifo) \in Nat
      /\ \A i \in 1 .. Len(_in_fifo) - 1 : Tail(_in_fifo)[i] = _in_fifo[i + 1]
  BY <1>1, <1>2, ToSets
<1>4. /\ Known' = Known /\ Executed' = Executed \cup {cmd} /\ _in_fifo' = Tail(_in_fifo)
      /\ \A s \in Sources : \A stage : Ends(s, stage) => Ends(s, stage)'
  BY <1>2, Executes DEF SafetyInv
<1>5. \/ ToSet(_out_fifo)' = ToSet(_out_fifo) \cup {cmd} /\ lost' = lost
      \/ ToSet(_out_fifo)' = ToSet(_out_fifo) /\ lost' = lost \cup {cmd}
  <2>1. ToSet(Append(_out_fifo, cmd)) = ToSet(_out_fifo) \cup {cmd}
    BY <1>1, <1>3, ToSets
  <2>2. \/ _out_fifo' = Append(_out_fifo, cmd) /\ lost' = lost
        \/ _out_fifo' = _out_fifo /\ lost' = lost \cup {cmd}
    BY <1>2 DEF Execute
  <2> QED
    BY <2>1, <2>2
<1>6. cmd.op \in {"rem_input", "rem_source"} => cmd \notin Executed
  <2> SUFFICES ASSUME cmd.op \in {"rem_input", "rem_source"}, cmd \in Executed
               PROVE  FALSE
    OBVIOUS
  <2>1. cmd.op # "wait" /\ cmd.of \in Sources /\ cmd.op \in SourceOps
    BY <1>3, CommandTypes
  <2>2. IsFor(cmd, cmd.of) /\ ~ MayFollow(cmd.op, cmd.op)
    BY <2>1, Ops DEF IsFor, MayFollow
  <2> QED
    BY <1>1, <1>3, <2>1, <2>2 DEF OrderInv
<1>7. /\ ControllerInv'
      /\ \A s : Covered(s)' = Covered(s) /\ CoveredSource(s)' = CoveredSource(s)
  <2>1. UNCHANGED <<_source_map, _highest_id, created, client>>
    BY <1>1 DEF objects
  <2>2. \A d \in Clients : SetsOnly(d)' = SetsOnly(d) /\ AddsOK(d)' = AddsOK(d) /\ WaitsOK(d)' = WaitsOK(d)
    BY <2>1 DEF SetsOnly, AddsOK, WaitsOK, AtWork, Waiting
  <2>3. ControllerInv'
    BY <1>1, <2>1, <2>2, ControllersAssumption DEF ControllerInv
  <2>4. ASSUME NEW s
        PROVE  Covered(s)' = Covered(s) /\ CoveredSource(s)' = CoveredSource(s)
    BY <2>1 DEF Covered, CoveredSource, Mapped, Changes, Busy, AtWork, NextOp
  <2> QED
    BY <2>3, <2>4
<1>8. AccountInv'
  <2>1. \A s \in 1 .. created' : Covered(s)' \/ Ends(s, 0)'
    <3>1. \A s \in 1 .. created : s \in Sources
      BY BoundsAssumption DEF SafetyInv, TypeOK, Sources
    <3> QED
      BY <1>1, <1>4, <1>7, <3>1 DEF AccountInv, objects
  <2>2. \A s \in inputs' : Covered(s)' \/ Cmd("rem_input", s) \in Known'
    BY <1>1, <1>4, <1>7 DEF AccountInv
  <2>3. \A s \in sources' : CoveredSource(s)' \/ Cmd("rem_source", s) \in Known'
    BY <1>1, <1>4, <1>7 DEF AccountInv
  <2>4. \A k \in Known' : /\ k.op = "rem_input" => k.of \in inputs'
                          /\ k.op = "rem_source" => k.of \in sources'
    BY <1>1, <1>4 DEF AccountInv
  <2>5. \A k \in ToSet(_out_fifo)' : k.op \in {"rem_input", "rem_source"} => k \notin lost'
    BY <1>1, <1>5, <1>6 DEF AccountInv, Executed
  <2>6. \A s \in sources' : s <= created'
    BY <1>1 DEF AccountInv, objects
  <2>7. \A d \in Clients : AtWork(d)' /\ client'[d].then = "construct"
                             => client'[d].source \notin sources'
    BY <1>1 DEF AccountInv, AtWork
  <2> QED
    BY <2>1, <2>2, <2>3, <2>4, <2>5, <2>6, <2>7 DEF AccountInv
<1>9. cmd.op = "wait" => cmd \notin Executed /\ \A s \in inputs : Cmd("rem_input", s) \in Executed
  BY <1>1, <1>3 DEF BehindInv
<1>10. OwnersInv'
  BY <1>1, <1>4 DEF OwnersInv, Waiting, AtWork
<1>11. BehindInv'
  <2> SUFFICES ASSUME NEW i \in 1 .. Len(_in_fifo'), _in_fifo'[i].op = "wait"
               PROVE  /\ _in_fifo'[i] \notin Executed'
                      /\ \A j \in 1 .. Len(_in_fifo') : _in_fifo'[j].op = "wait" => i = j
                      /\ \A s \in inputs' : \/ Cmd("rem_input", s) \in Executed'
                                            \/ \E j \in 1 .. i - 1 : _in_fifo'[j] = Cmd("rem_input", s)
    BY DEF BehindInv
  <2>0. /\ Len(_in_fifo') = Len(_in_fifo) - 1 /\ inputs' = inputs
        /\ \A j \in 1 .. Len(_in_fifo) - 1 : _in_fifo'[j] = _in_fifo[j + 1]
        /\ i \in 1 .. Len(_in_fifo) - 1 /\ _in_fifo'[i] = _in_fifo[i + 1]
    BY <1>1, <1>3, <1>4
  <2>1. i + 1 \in 1 .. Len(_in_fifo) /\ i + 1 # 1 /\ _in_fifo[i + 1].op = "wait"
    BY <1>3, <2>0
  <2>2. /\ _in_fifo[i + 1] \notin Executed
        /\ \A j \in 1 .. Len(_in_fifo) : _in_fifo[j].op = "wait" => i + 1 = j
        /\ \A s \in inputs : \/ Cmd("rem_input", s) \in Executed
                             \/ \E j \in 1 .. (i + 1) - 1 : _in_fifo[j] = Cmd("rem_input", s)
    BY <1>1, <2>1 DEF BehindInv
  <2>3. _in_fifo[i + 1] # cmd
    BY <1>3, <2>1, <2>2
  <2>4. ASSUME NEW j \in 1 .. Len(_in_fifo'), _in_fifo'[j].op = "wait"
        PROVE  i = j
    <3>1. j + 1 \in 1 .. Len(_in_fifo) /\ _in_fifo'[j] = _in_fifo[j + 1]
      BY <1>3, <2>0
    <3>2. i + 1 = j + 1
      BY <2>2, <2>4, <3>1
    <3> QED
      BY <2>0, <3>2
  <2>5. ASSUME NEW s \in inputs, Cmd("rem_input", s) \notin Executed'
        PROVE  \E j \in 1 .. i - 1 : _in_fifo'[j] = Cmd("rem_input", s)
    <3>1. PICK j \in 1 .. (i + 1) - 1 : _in_fifo[j] = Cmd("rem_input", s)
      BY <1>4, <2>2, <2>5
    <3>2. j # 1
      BY <1>3, <1>4, <2>5, <3>1
    <3>3. j - 1 \in 1 .. i - 1 /\ _in_fifo'[j - 1] = _in_fifo[j]
      BY <1>3, <2>0, <3>2
    <3> QED
      BY <3>1, <3>3
  <2> QED
    BY <1>4, <2>0, <2>2, <2>3, <2>4, <2>5
<1>12. PassedInv'
  <2> SUFFICES ASSUME NEW k \in Executed', k.op = "wait"
               PROVE  /\ ~ (k \in lost' /\ k \in ToSet(_out_fifo)')
                      /\ \A s \in inputs' : Cmd("rem_input", s) \in Executed'
    BY DEF PassedInv
  <2>1. CASE k = cmd
    BY <1>1, <1>4, <1>5, <1>9, <2>1 DEF Executed
  <2>2. CASE k # cmd
    <3>1. k \in Executed
      BY <1>4, <2>2
    <3> QED
      BY <1>1, <1>4, <1>5, <2>2, <3>1 DEF PassedInv
  <2> QED
    BY <2>1, <2>2
<1>13. DoneInv'
  <2>1. lost \subseteq lost'
    BY <1>5
  <2> QED
    BY <1>1, <2>1 DEF DoneInv, Waiting, AtWork
<1> QED
  BY <1>7, <1>8, <1>10, <1>11, <1>12, <1>13 DEF WaitInv

\* There is one stage where the commands of a source end.
LEMMA EndsOnce ==
  ASSUME TypeOK, NEW s, NEW a, NEW b, Ends(s, a), Ends(s, b)
  PROVE  a = b
<1>1. Len(_in_fifo) \in Nat
  BY DEF TypeOK
<1>2. CASE \A i \in 1 .. Len(_in_fifo) : ~ IsFor(_in_fifo[i], s)
  BY <1>2 DEF Ends
<1>3. CASE ~ \A i \in 1 .. Len(_in_fifo) : ~ IsFor(_in_fifo[i], s)
  <2>1. PICK i \in 1 .. Len(_in_fifo) :
          /\ IsFor(_in_fifo[i], s) /\ After(_in_fifo[i].op) = a
          /\ \A k \in i + 1 .. Len(_in_fifo) : ~ IsFor(_in_fifo[k], s)
    BY <1>3 DEF Ends
  <2>2. PICK j \in 1 .. Len(_in_fifo) :
          /\ IsFor(_in_fifo[j], s) /\ After(_in_fifo[j].op) = b
          /\ \A k \in j + 1 .. Len(_in_fifo) : ~ IsFor(_in_fifo[k], s)
    BY <1>3 DEF Ends
  <2>3. i = j
    BY <1>1, <2>1, <2>2
  <2> QED
    BY <2>1, <2>2, <2>3
<1> QED
  BY <1>2, <1>3

LEMMA InsertSettles ==
  ASSUME SafetyInv, SettlingInv, OneController, NEW c \in Clients, Insert(c)
  PROVE  SettlingInv'
<1> USE DEF SettlingInv
<1>1. PICK state, cmd, rest, s, op : Insertion(c, state, cmd, rest, s, op)
  BY Inserting
<1>2. /\ state = client[c] /\ s = state.source /\ op = NextOp(state)
      /\ state.at = "inserting" /\ state.todo # <<>>
      /\ state.then \in {"construct", "register", "return", "next", "poll"}
      /\ rest.at = "pushing" /\ rest.then = state.then /\ rest.source = s /\ rest.id = state.id
      /\ client'[c] = rest /\ \A d \in Clients \ {c} : client'[d] = client[d]
  BY <1>1 DEF Insertion
<1>3. UNCHANGED <<objects, lists, inputs, sources, _out_fifo, lost, done>>
  BY <1>1 DEF Insertion
<1>4. /\ _in_fifo' = Append(_in_fifo, cmd) /\ cmd \in Commands
      /\ Known' = Known \cup {cmd} /\ Executed' = Executed
      /\ \A t, stage : ~ IsFor(cmd, t) /\ Ends(t, stage) => Ends(t, stage)'
      /\ \A t : IsFor(cmd, t) => Ends(t, After(cmd.op))'
  BY <1>1 DEF Insertion
<1>5. state.then # "poll" =>
        /\ cmd.op # "wait" /\ cmd.of = s /\ cmd.op = op /\ op \in SourceOps
        /\ s \in Sources /\ s \in inputs /\ Ends(s, Before(op))
        /\ state.then = "construct" \/ op = "rem_input" \/ s \in sources
        /\ Busy(c) /\ Holds(c)
        /\ cmd = Cmd(op, s)
  <2>1. state.then # "poll" =>
          /\ cmd.op # "wait" /\ cmd.of = s /\ cmd.op = op /\ op \in SourceOps
          /\ s \in Sources /\ s \in inputs /\ Ends(s, Before(op))
          /\ state.then = "construct" \/ op = "rem_input" \/ s \in sources
          /\ Busy(c) /\ Holds(c)
    BY <1>1 DEF Insertion
  <2> QED
    BY <1>4, <2>1, CommandTypes DEF Cmd
<1>6. state.then = "poll" => cmd = Cmd("wait", c) /\ rest.todo = <<>>
  BY <1>1 DEF Insertion
<1>7. state.then # "poll" =>
        /\ state.then \in {"construct", "register"} \/ rest.todo # <<>> => op # "set"
        /\ rest.todo # <<>> => NextOp(rest) # "set"
        /\ state.then \in {"construct", "register"} => NextOp(rest) # "rem_input"
        /\ state.then = "construct" => op = "add_input" /\ After(op) = Before(NextOp(rest))
        /\ state.then \in {"return", "next"} =>
             IF rest.todo = <<>> THEN op \in {"rem_input", "set"}
             ELSE op \in {"disconnect", "rem_source"} /\ After(op) = Before(NextOp(rest))
  BY <1>1, <1>5 DEF Insertion
<1>8. /\ Busy(c)' <=> \/ rest.then \in {"construct", "register"}
                      \/ rest.then \in {"return", "next"} /\ rest.todo # <<>>
      /\ Changes(c)' <=> Busy(c)' /\ (NextOp(rest) # "set" \/ rest.then = "register")
      /\ Changes(c) <=> Busy(c) /\ (op # "set" \/ state.then = "register")
      /\ Waiting(c) <=> state.then = "poll"
      /\ Waiting(c)' <=> state.then = "poll"
      /\ AtWork(c) /\ AtWork(c)'
  BY <1>2 DEF Busy, Changes, Waiting, AtWork
\* After its last command that changes something, the source is gone.
<1>9. Changes(c) => Changes(c)' \/ op = "rem_input"
  <2> SUFFICES ASSUME Changes(c), ~ Changes(c)'
               PROVE  op = "rem_input"
    OBVIOUS
  <2>1. state.then \notin {"poll", "register"}
    BY <1>2, <1>8 DEF Busy
  <2>2. state.then # "construct"
    <3> SUFFICES ASSUME state.then = "construct"
                 PROVE  FALSE
      OBVIOUS
    <3>1. NextOp(rest) = "set" /\ op = "add_input" /\ After(op) = Before(NextOp(rest))
      BY <1>2, <1>7, <1>8
    <3> QED
      BY <3>1 DEF After, Before
  <2>3. state.then \in {"return", "next"} /\ op # "set"
    BY <1>2, <1>8, <2>1, <2>2
  <2>4. rest.todo = <<>>
    BY <1>2, <1>7, <1>8, <2>3
  <2> QED
    BY <1>7, <2>3, <2>4
<1>10. Changes(c) /\ op # "rem_input" =>
         Changes(c)' /\ (NextOp(rest) # "rem_input" \/ op = "rem_source")
  <2> SUFFICES ASSUME Changes(c), op # "rem_input", NextOp(rest) = "rem_input", op # "rem_source"
               PROVE  FALSE
    BY <1>9
  <2>1. state.then \in {"return", "next"} /\ rest.todo # <<>>
    BY <1>2, <1>7, <1>8, <1>9 DEF Busy
  <2>2. op = "disconnect" /\ After(op) = Before("rem_input")
    BY <1>7, <2>1
  <2> QED
    BY <2>2 DEF After, Before
<1>11. ControllerInv'
  <2>1. c \notin Controllers => SetsOnly(c)'
    <3> SUFFICES ASSUME c \notin Controllers
                 PROVE  SetsOnly(c)'
      OBVIOUS
    <3>1. state.then = "return" /\ op = "set"
      BY <1>2 DEF ControllerInv, SetsOnly, NextOp
    <3>2. rest.todo = <<>>
      BY <1>7, <3>1
    <3> QED
      BY <1>2, <3>1, <3>2 DEF SetsOnly
  <2>2. c \in Controllers => AddsOK(c)' /\ WaitsOK(c)'
    <3> SUFFICES ASSUME c \in Controllers
                 PROVE  AddsOK(c)' /\ WaitsOK(c)'
      OBVIOUS
    <3>1. AddsOK(c) /\ WaitsOK(c)
      BY DEF ControllerInv
    <3> QED
      BY <1>2, <1>3, <1>8, <3>1 DEF AddsOK, WaitsOK, objects
  <2> QED
    BY <1>2, <1>3, <2>1, <2>2, ControllerStays DEF objects
<1>12. Mapped' = Mapped
  BY <1>3 DEF objects, Mapped
<1>13. ASSUME NEW t, Covered(t)
       PROVE  Covered(t)' \/ (t = s /\ Changes(c) /\ op = "rem_input")
  <2>1. CASE t \in Mapped
    BY <1>12, <2>1 DEF Covered
  <2>2. CASE t \notin Mapped
    <3>1. PICK d \in Clients : Changes(d) /\ client[d].source = t
      BY <1>13, <2>2 DEF Covered
    <3>2. CASE d = c
      <4>1. t = s
        BY <1>2, <3>1, <3>2
      <4>2. CASE Changes(c)'
        BY <1>2, <4>1, <4>2 DEF Covered
      <4> QED
        BY <1>9, <3>1, <3>2, <4>1, <4>2
    <3>3. CASE d # c
      <4>1. Changes(d)' /\ client'[d].source = t
        BY <1>2, <3>1, <3>3, SameClient
      <4> QED
        BY <4>1 DEF Covered
    <3> QED
      BY <3>2, <3>3
  <2> QED
    BY <2>1, <2>2
<1>14. ASSUME NEW t, CoveredSource(t)
       PROVE  CoveredSource(t)' \/ (t = s /\ Changes(c) /\ op = "rem_source")
  <2>1. CASE t \in Mapped
    BY <1>12, <2>1 DEF CoveredSource
  <2>2. CASE t \notin Mapped
    <3>1. PICK d \in Clients : Changes(d) /\ client[d].source = t /\ NextOp(client[d]) # "rem_input"
      BY <1>14, <2>2 DEF CoveredSource
    <3>2. CASE d = c
      <4>1. t = s /\ op # "rem_input"
        BY <1>2, <3>1, <3>2
      <4>2. CASE NextOp(rest) # "rem_input"
        BY <1>2, <1>10, <3>1, <3>2, <4>1, <4>2 DEF CoveredSource
      <4> QED
        BY <1>10, <3>1, <3>2, <4>1, <4>2
    <3>3. CASE d # c
      <4>1. Changes(d)' /\ client'[d].source = t /\ NextOp(client'[d]) # "rem_input"
        BY <1>2, <3>1, <3>3, SameClient
      <4> QED
        BY <4>1 DEF CoveredSource
    <3> QED
      BY <3>2, <3>3
  <2> QED
    BY <2>1, <2>2
<1>15. Changes(c) => state.then # "poll" /\ cmd \in Known' /\ cmd = Cmd(op, s)
  BY <1>2, <1>4, <1>5 DEF Changes, Busy
<1>16. AccountInv'
  <2>1. ASSUME NEW t \in 1 .. created'
        PROVE  Covered(t)' \/ Ends(t, 0)'
    <3>1. Covered(t) \/ Ends(t, 0)
      BY <1>3 DEF AccountInv, objects
    <3>2. CASE ~ IsFor(cmd, t)
      <4>1. ~ (t = s /\ Changes(c))
        BY <1>5, <1>15, <3>2 DEF IsFor
      <4> QED
        BY <1>4, <1>13, <3>1, <3>2, <4>1
    <3>3. CASE IsFor(cmd, t)
      <4>1. t = s /\ state.then # "poll" /\ cmd.op = op
        BY <1>5, <1>6, <3>3, Cmds DEF IsFor
      <4>2. CASE op = "rem_input"
        <5>1. After(cmd.op) = 0
          BY <4>1, <4>2 DEF After
        <5> QED
          BY <1>4, <3>3, <5>1
      <4>3. CASE op # "rem_input" /\ Covered(t)
        BY <1>13, <4>3
      <4>4. CASE op # "rem_input" /\ ~ Covered(t)
        <5>1. ~ Changes(c)
          BY <1>2, <4>1, <4>4 DEF Covered
        <5>2. op = "set"
          BY <1>5, <1>8, <4>1, <5>1
        <5>3. Ends(t, 0) /\ Ends(t, 3)
          <6>1. Before(op) = 3
            BY <5>2 DEF Before
          <6> QED
            BY <1>5, <3>1, <4>1, <4>4, <6>1
        <5> QED
          BY <5>3, EndsOnce DEF SafetyInv
      <4> QED
        BY <4>2, <4>3, <4>4
    <3> QED
      BY <3>2, <3>3
  <2>2. \A t \in inputs' : Covered(t)' \/ Cmd("rem_input", t) \in Known'
    BY <1>3, <1>4, <1>13, <1>15 DEF AccountInv
  <2>3. \A t \in sources' : CoveredSource(t)' \/ Cmd("rem_source", t) \in Known'
    BY <1>3, <1>4, <1>14, <1>15 DEF AccountInv
  <2>4. ASSUME NEW k \in Known'
        PROVE  /\ k.op = "rem_input" => k.of \in inputs'
               /\ k.op = "rem_source" => k.of \in sources'
    <3>1. CASE k \in Known
      BY <1>3, <3>1 DEF AccountInv
    <3>2. CASE k = cmd
      <4>1. CASE state.then = "poll"
        BY <1>6, <3>2, <4>1, Cmds
      <4>2. CASE state.then # "poll"
        BY <1>3, <1>5, <1>7, <3>2, <4>2
      <4> QED
        BY <4>1, <4>2
    <3> QED
      BY <1>4, <3>1, <3>2
  <2>5. \A k \in ToSet(_out_fifo)' : k.op \in {"rem_input", "rem_source"} => k \notin lost'
    BY <1>3 DEF AccountInv
  <2>6. \A t \in sources' : t <= created'
    BY <1>3 DEF AccountInv, objects
  <2>7. ASSUME NEW d \in Clients, AtWork(d)', client'[d].then = "construct"
        PROVE  client'[d].source \notin sources'
    <3>1. CASE d = c
      BY <1>2, <1>3, <1>8, <2>7, <3>1 DEF AccountInv
    <3>2. CASE d # c
      BY <1>2, <1>3, <2>7, <3>2, SameClient DEF AccountInv
    <3> QED
      BY <3>1, <3>2
  <2> QED
    BY <2>1, <2>2, <2>3, <2>4, <2>5, <2>6, <2>7 DEF AccountInv
<1>17. /\ Len(_in_fifo) \in Nat /\ Len(_in_fifo') = Len(_in_fifo) + 1
       /\ _in_fifo'[Len(_in_fifo) + 1] = cmd
       /\ \A i \in 1 .. Len(_in_fifo) : /\ _in_fifo'[i] = _in_fifo[i]
                                        /\ _in_fifo[i] \in ToSet(_in_fifo)
       /\ \A k \in ToSet(_in_fifo) : \E i \in 1 .. Len(_in_fifo) : k = _in_fifo[i]
  <2>1. _in_fifo \in Seq(Commands)
    BY DEF SafetyInv, TypeOK
  <2> QED
    BY <1>4, <2>1, ToSets
<1>18. OwnersInv /\ BehindInv /\ PassedInv /\ DoneInv
  BY DEF WaitInv
<1>19. CASE state.then # "poll"
  <2>1. cmd.op # "wait"
    BY <1>5, <1>19
  <2>2. OwnersInv'
    <3> SUFFICES ASSUME NEW k \in Known', k.op = "wait"
                 PROVE  /\ k.of \in Controllers \ done' /\ Waiting(k.of)'
                        /\ client'[k.of].todo = <<>>
      BY DEF OwnersInv
    <3>1. k \in Known
      BY <1>4, <2>1
    <3>2. /\ k.of \in Controllers \ done /\ Waiting(k.of) /\ client[k.of].todo = <<>>
          /\ k.of \in Clients
      BY <1>18, <3>1, ControllersAssumption DEF OwnersInv
    <3>3. k.of # c
      BY <1>8, <1>19, <3>2
    <3>4. PICK d \in Clients : d = k.of
      BY <3>2
    <3>5. client'[d] = client[d]
      BY <1>2, <3>3, <3>4
    <3> QED
      BY <1>3, <3>2, <3>4, <3>5, SameClient
  <2>3. BehindInv'
    <3> SUFFICES ASSUME NEW i \in 1 .. Len(_in_fifo'), _in_fifo'[i].op = "wait"
                 PROVE  /\ _in_fifo'[i] \notin Executed'
                        /\ \A j \in 1 .. Len(_in_fifo') : _in_fifo'[j].op = "wait" => i = j
                        /\ \A t \in inputs' : \/ Cmd("rem_input", t) \in Executed'
                                              \/ \E j \in 1 .. i - 1 : _in_fifo'[j] = Cmd("rem_input", t)
      BY DEF BehindInv
    <3>1. \A j \in 1 .. Len(_in_fifo') : _in_fifo'[j].op = "wait"
            => j \in 1 .. Len(_in_fifo) /\ _in_fifo[j].op = "wait"
      BY <1>17, <2>1
    <3>2. i \in 1 .. Len(_in_fifo) /\ _in_fifo[i].op = "wait"
      BY <3>1
    <3>3. /\ _in_fifo[i] \notin Executed
          /\ \A j \in 1 .. Len(_in_fifo) : _in_fifo[j].op = "wait" => i = j
          /\ \A t \in inputs : \/ Cmd("rem_input", t) \in Executed
                               \/ \E j \in 1 .. i - 1 : _in_fifo[j] = Cmd("rem_input", t)
      BY <1>18, <3>2 DEF BehindInv
    <3>4. \A j \in 1 .. i - 1 : _in_fifo'[j] = _in_fifo[j]
      BY <1>17, <3>2
    <3> QED
      BY <1>3, <1>4, <1>17, <3>1, <3>2, <3>3, <3>4
  <2>4. PassedInv'
    BY <1>3, <1>4, <1>18 DEF PassedInv
  <2>5. DoneInv'
    <3> SUFFICES ASSUME NEW d \in done' \cap Controllers, Waiting(d)'
                 PROVE  /\ client'[d].todo = <<>>
                        /\ \A t \in inputs' : Cmd("rem_input", t) \in lost'
      BY DEF DoneInv
    <3>1. d # c /\ d \in Clients
      BY <1>8, <1>19, ControllersAssumption
    <3>2. client'[d] = client[d] /\ Waiting(d)
      BY <1>2, <3>1, SameClient
    <3> QED
      BY <1>3, <1>18, <3>2 DEF DoneInv
  <2> QED
    BY <1>11, <1>16, <2>2, <2>3, <2>4, <2>5 DEF WaitInv
<1>20. CASE state.then = "poll"
  <2>1. /\ Waiting(c) /\ Waiting(c)' /\ ~ Changes(c)
        /\ client[c].todo # <<>> /\ client'[c].todo = <<>>
    BY <1>2, <1>6, <1>8, <1>20 DEF Busy
  <2>2. c \in Controllers /\ (\A d \in Controllers : d = c)
    BY <2>1, Roles DEF OneController
  <2>3. Mapped = {}
    BY <2>1, <2>2 DEF ControllerInv, WaitsOK, Mapped
  <2>4. \A t : ~ Covered(t)
    BY <2>1, <2>2, <2>3, Roles DEF Covered
  <2>5. \A t \in inputs : Cmd("rem_input", t) \in Known
    BY <2>4 DEF AccountInv
  <2>6. c \notin done
    BY <1>18, <2>1, <2>2 DEF DoneInv
  <2>7. \A k \in Known : k.op # "wait"
    BY <1>18, <2>1, <2>2 DEF OwnersInv
  <2>8. cmd = Cmd("wait", c) /\ cmd.op = "wait" /\ cmd.of = c
    BY <1>6, <1>20, Cmds
  <2>9. OwnersInv'
    BY <1>3, <1>4, <2>1, <2>2, <2>6, <2>7, <2>8 DEF OwnersInv
  <2>10. BehindInv'
    <3> SUFFICES ASSUME NEW i \in 1 .. Len(_in_fifo'), _in_fifo'[i].op = "wait"
                 PROVE  /\ _in_fifo'[i] \notin Executed'
                        /\ \A j \in 1 .. Len(_in_fifo') : _in_fifo'[j].op = "wait" => i = j
                        /\ \A t \in inputs' : \/ Cmd("rem_input", t) \in Executed'
                                              \/ \E j \in 1 .. i - 1 : _in_fifo'[j] = Cmd("rem_input", t)
      BY DEF BehindInv
    <3>1. ASSUME NEW j \in 1 .. Len(_in_fifo'), _in_fifo'[j].op = "wait"
          PROVE  j = Len(_in_fifo) + 1
      <4>1. j \notin 1 .. Len(_in_fifo)
        BY <1>17, <2>7, <3>1 DEF Known
      <4> QED
        BY <1>17, <4>1
    <3>2. i = Len(_in_fifo) + 1 /\ _in_fifo'[i] = cmd
      BY <1>17, <3>1
    <3>3. cmd \notin Executed'
      BY <1>4, <2>7, <2>8 DEF Known
    <3>4. ASSUME NEW t \in inputs', Cmd("rem_input", t) \notin Executed'
          PROVE  \E j \in 1 .. i - 1 : _in_fifo'[j] = Cmd("rem_input", t)
      <4>1. Cmd("rem_input", t) \in ToSet(_in_fifo)
        BY <1>3, <1>4, <2>5, <3>4 DEF Known
      <4>2. PICK j \in 1 .. Len(_in_fifo) : _in_fifo[j] = Cmd("rem_input", t)
        BY <1>17, <4>1
      <4> QED
        BY <1>17, <3>2, <4>2
    <3> QED
      BY <3>1, <3>2, <3>3, <3>4
  <2>11. PassedInv'
    BY <1>4, <2>7 DEF PassedInv, Known
  <2>12. DoneInv'
    BY <1>3, <2>2, <2>6 DEF DoneInv
  <2> QED
    BY <1>11, <1>16, <2>9, <2>10, <2>11, <2>12 DEF WaitInv
<1> QED
  BY <1>11, <1>16, <1>19, <1>20

LEMMA InitSettling == Init => SettlingInv
<1> SUFFICES ASSUME Init
             PROVE  SettlingInv
  OBVIOUS
<1>1. Known = {} /\ Executed = {} /\ ToSet(_out_fifo) = {} /\ Len(_in_fifo) = 0
  BY DEF Init, Known, Executed, ToSet
<1>2. \A c \in Clients : client[c] = Idle
  BY DEF Init
<1>3. ControllerInv
  <2>1. \A c \in Clients : SetsOnly(c) /\ AddsOK(c)
    BY <1>2, IdleState DEF SetsOnly, AddsOK, AtWork
  <2>2. \A id \in Ids : _source_map[id] = 0
    BY DEF Init
  <2> QED
    BY <2>1, <2>2, ControllersAssumption DEF ControllerInv, WaitsOK
<1>4. AccountInv
  <2>1. \A c \in Clients : ~ AtWork(c)
    BY <1>2, IdleState DEF AtWork
  <2> QED
    BY <1>1, <2>1 DEF Init, AccountInv
<1>5. WaitInv
  BY <1>1 DEF Init, WaitInv, OwnersInv, BehindInv, PassedInv, DoneInv
<1> QED
  BY <1>3, <1>4, <1>5 DEF SettlingInv

LEMMA SettlingStep ==
  ASSUME OneController, SafetyInv, SettlingInv, [Next]_vars
  PROVE  SettlingInv'
<1>1. CASE Execute
  BY <1>1, ExecuteSettles
<1>2. ASSUME NEW c \in Clients, Starts(c)
      PROVE  SettlingInv'
  BY <1>2, SetSettles, AddSettles, LeavesSettles DEF Starts
<1>3. ASSUME NEW c \in Clients, Proceeds(c)
      PROVE  SettlingInv'
  BY <1>3, CleanUpSettles, InsertSettles, LeavesSettles, ConstructSettles, RegisterSettles,
     RemoveSettles, AllDoneSettles
     DEF Proceeds
<1>4. CASE UNCHANGED vars
  <2>1. /\ UNCHANGED <<_source_map, _highest_id, created, inputs, sources, lists>>
        /\ UNCHANGED <<_in_fifo, _out_fifo, lost, done, client>>
    BY <1>4 DEF vars, lists
  <2>2. \A d \in Clients : SetsOnly(d)' = SetsOnly(d) /\ AddsOK(d)' = AddsOK(d) /\ WaitsOK(d)' = WaitsOK(d)
    BY <2>1 DEF SetsOnly, AddsOK, WaitsOK, AtWork, Waiting
  <2>3. ControllerInv'
    BY <2>1, <2>2, ControllersAssumption DEF SettlingInv, ControllerInv
  <2>4. \A d \in Clients : Continues(d)
    BY <2>1, SameClient
  <2>5. /\ \A s : Covered(s) => Covered(s)'
        /\ \A s : CoveredSource(s) => CoveredSource(s)'
    BY <2>1, <2>4, CoveredStays DEF Mapped
  <2>6. AccountInv'
    <3>1. \A d \in Clients : AtWork(d)' /\ client'[d].then = "construct"
                               => client'[d].source \notin sources'
      BY <2>1 DEF SettlingInv, AccountInv, AtWork
    <3> QED
      BY <2>1, <2>5, <3>1, AccountStays DEF SettlingInv, AccountInv
  <2>7. WaitInv'
    <3>1. \A d \in Controllers : Waiting(d)' = Waiting(d)
      BY <2>1 DEF Waiting, AtWork
    <3> QED
      BY <2>1, <3>1, WaitStays DEF SettlingInv
  <2> QED
    BY <2>3, <2>6, <2>7 DEF SettlingInv
<1> QED
  BY <1>1, <1>2, <1>3, <1>4 DEF Next

LEMMA Settling ==
  ASSUME OneController
  PROVE  Spec => [](SafetyInv /\ SettlingInv)
<1>1. SafetyInv /\ SettlingInv /\ [Next]_vars => (SafetyInv /\ SettlingInv)'
  BY SafetyStep, SettlingStep
<1> QED
  BY <1>1, InitSafety, InitSettling, PTL DEF Spec

\* When nobody is at work all lists agree with the map, and what exists besides
\* was leaked by a full _out_fifo (RendererBase::add_source, rem_source): for
\* every number of clients, of which one adds and deletes sources.
THEOREM ListsSettle ==
  ASSUME OneController
  PROVE  Spec => []Settled
<1>1. ASSUME SafetyInv, SettlingInv, \A c \in Clients : client[c].at = "idle", _in_fifo = <<>>
      PROVE  /\ _input_list = Mapped /\ _source_list = Mapped /\ connected = Mapped
             /\ _out_fifo = <<>> => /\ inputs = Mapped \cup Of("rem_input", lost)
                                    /\ sources = Mapped \cup Of("rem_source", lost)
  <2>1. NestedInv /\ MapInv /\ AccountInv /\ ObjectsInv /\ TypeOK
    BY <1>1 DEF SafetyInv, SettlingInv
  <2>2. Known = Executed /\ (_out_fifo = <<>> => Executed = lost)
    BY <1>1 DEF Known, Executed, ToSet
  <2>3. \A s, stage : Ends(s, stage) <=> Stage(s) = stage
    BY <1>1 DEF Ends
  <2>4. \A s : /\ Covered(s) <=> s \in Mapped
               /\ CoveredSource(s) <=> s \in Mapped
    BY <1>1 DEF Covered, CoveredSource, Changes, Busy, AtWork
  <2>5. ASSUME NEW s \in Mapped
        PROVE  s \in connected /\ s \in inputs /\ s \in sources
    <3>1. PICK id \in Ids : _source_map[id] = s /\ s # 0
      BY DEF Mapped
    <3>2. Ends(s, 3) /\ s \in inputs \cap sources
      BY <2>1, <3>1 DEF MapInv
    <3> QED
      BY <2>3, <3>2 DEF Stage
  <2>6. ASSUME NEW s \in _input_list
        PROVE  s \in Mapped
    <3>1. s \in 1 .. created
      <4>1. s \in inputs /\ s \in Sources /\ created \in Nat
        BY <2>1, BoundsAssumption DEF NestedInv, TypeOK
      <4> QED
        BY <2>1, <4>1 DEF ObjectsInv, Sources
    <3>2. ~ Ends(s, 0)
      BY <2>3 DEF Stage
    <3> QED
      BY <2>1, <2>4, <3>1, <3>2 DEF AccountInv
  <2>7. _input_list = Mapped /\ _source_list = Mapped /\ connected = Mapped
    BY <2>1, <2>5, <2>6 DEF NestedInv
  <2>8. ASSUME _out_fifo = <<>>
        PROVE  /\ inputs = Mapped \cup Of("rem_input", lost)
               /\ sources = Mapped \cup Of("rem_source", lost)
    <3>1. Known = lost
      BY <2>2, <2>8
    <3>2. \A s \in inputs : s \in Mapped \/ s \in Of("rem_input", lost)
      BY <2>1, <2>4, <3>1, Cmds DEF AccountInv, Of
    <3>3. \A s \in sources : s \in Mapped \/ s \in Of("rem_source", lost)
      BY <2>1, <2>4, <3>1, Cmds DEF AccountInv, Of
    <3>4. Of("rem_input", lost) \subseteq inputs /\ Of("rem_source", lost) \subseteq sources
      BY <2>1, <3>1 DEF AccountInv, Of
    <3> QED
      BY <2>5, <3>2, <3>3, <3>4
  <2> QED
    BY <2>7, <2>8
<1>2. SafetyInv /\ SettlingInv => Settled
  BY <1>1 DEF Settled
<1> QED
  BY <1>2, Settling, PTL

\* "Wait until InternalInput objects are destroyed" (controller.h:1442):
\* delete_all_sources() returns when none is left, except leaked ones; for every
\* number of clients, of which one adds and deletes sources.
THEOREM NoneLeft ==
  ASSUME OneController
  PROVE  Spec => AllGone
<1> DEFINE Gone == \A c \in Clients :
                     client[c].at = "poll" /\ client'[c].at = "idle" =>
                       inputs' \subseteq Of("rem_input", lost') /\ _source_list' = {}
<1>1. ASSUME SafetyInv, SettlingInv, Next
      PROVE  Gone
  <2> SUFFICES ASSUME NEW c \in Clients, client[c].at = "poll", client'[c].at = "idle"
               PROVE  inputs' \subseteq Of("rem_input", lost') /\ _source_list' = {}
    OBVIOUS
  <2>1. DOMAIN client = Clients
    BY <1>1 DEF SafetyInv, TypeOK
  <2>2. client' # client
    OBVIOUS
  <2>3. ASSUME NEW d \in Clients, NEW state, Become(d, state)
        PROVE  d = c
    BY <2>1, <2>3 DEF Become
  <2>4. ~ Execute
    BY <2>2 DEF Execute
  <2>5. ASSUME NEW d \in Clients
        PROVE  ~ Starts(d)
    BY <2>3 DEF Starts, set_source, add_source, delete_source, delete_all_sources
  <2>6. ASSUME NEW d \in Clients, Proceeds(d)
        PROVE  WaitReturns(c)
    <3>1. ~ Poll(d)
      BY <2>2 DEF Poll
    <3>2. ~ Push(d) /\ ~ Insert(d) /\ ~ Return(d) /\ ~ Construct(d) /\ ~ Register(d)
      BY <2>3 DEF Push, Insert, Return, Construct, Register
    <3>3. ~ get_source(d) /\ ~ rem_source(d) /\ ~ RemNext(d) /\ ~ RemAllDone(d)
      BY <2>3 DEF get_source, rem_source, RemNext, RemAllDone
    <3>4. WaitReturns(d) => d = c
      BY <2>3 DEF WaitReturns
    <3> QED
      BY <2>6, <3>1, <3>2, <3>3, <3>4 DEF Proceeds
  <2>7. WaitReturns(c)
    BY <1>1, <2>4, <2>5, <2>6 DEF Next
  <2>8. /\ c \in done /\ Waiting(c) /\ inputs' = inputs /\ lost' = lost
        /\ _source_list' = _source_list
    BY <2>7 DEF WaitReturns, Waiting, lists, queue
  <2>9. \A s \in inputs : Cmd("rem_input", s) \in lost
    <3>1. c \in Controllers
      BY <1>1, <2>8, Roles DEF SettlingInv
    <3> QED
      BY <1>1, <2>8, <3>1 DEF SettlingInv, WaitInv, DoneInv
  <2>10. inputs \subseteq Of("rem_input", lost)
    BY <2>9, Cmds DEF Of
  <2>11. ASSUME NEW s \in _source_list
         PROVE  FALSE
    <3>1. s \in _input_list /\ s \in inputs
      BY <1>1 DEF SafetyInv, NestedInv
    <3>2. Cmd("rem_input", s) \in Executed
      BY <2>9, <3>1 DEF Executed
    <3> QED
      BY <1>1, <3>1, <3>2, Cmds DEF SafetyInv, ObjectsInv, RemovedInv
  <2> QED
    BY <2>8, <2>10, <2>11
<1>2. SafetyInv /\ SettlingInv /\ [Next]_vars => [Gone]_vars
  BY <1>1
<1> QED
  BY <1>2, Settling, PTL DEF Spec, AllGone
==============================================================================
