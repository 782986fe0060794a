----------------------------- MODULE CommandQueue ----------------------------
(***************************************************************************)
(* apf::CommandQueue between one non-realtime thread (the client) and the  *)
(* realtime thread, with the life cycle apf::MimoProcessor gives it:       *)
(* activate(), deactivate(), wait_for_rt_thread().                         *)
(*                                                                         *)
(* The two LockFreeFifos are sequences of at most Capacity commands (see   *)
(* BoundedFifo, which LockFreeFifo implements), so that one push() or      *)
(* pop() of a FIFO is one step.  Commands are numbered in the order in     *)
(* which CommandQueue::push() is called.  The build is the default one,    *)
(* with NDEBUG: assertions do nothing.                                     *)
(***************************************************************************)
EXTENDS Integers, Sequences, FiniteSets

CONSTANTS Capacity,    \* what one LockFreeFifo holds: its size minus 1
          MaxCommands  \* bound: how many commands are ever pushed

ASSUME CapacityAssumption == Capacity \in Nat \ {0}

ASSUME MaxAssumption == MaxCommands \in Nat

VARIABLES
  _in_fifo, _out_fifo, _active,
  client,     \* where the client is, in which operation
  rt,         \* process_commands(): where it is, and its command
  running,    \* does the audio backend call process()?
  pushed,     \* history: how many commands were given to push()
  executed,   \* history: the last command that was executed
  cleaned,    \* history: the commands that were cleaned up
  lost,       \* history: the commands _out_fifo had no room for
  peak        \* history: the most commands that were ever outstanding

vars == <<_in_fifo, _out_fifo, _active, client, rt, running,
          pushed, executed, cleaned, lost, peak>>

Commands == 1 .. MaxCommands
Operations == {"push", "wait", "poll", "cleanup", "reactivate", "deactivate"}

Idle == [at |-> "idle", op |-> "cleanup"]

\* The MimoProcessor constructor deactivates the empty queue right away.
Init ==
  /\ _in_fifo = <<>>
  /\ _out_fifo = <<>>
  /\ _active = FALSE
  /\ client = Idle
  /\ rt = [at |-> "idle", cmd |-> 0]
  /\ running = FALSE
  /\ pushed = 0
  /\ executed = 0
  /\ cleaned = {}
  /\ lost = {}
  /\ peak = 0

------------------------------------------------------------------------------
(* The client. *)

Begin(op) == client' = [at |-> "drain", op |-> op]

\* Mutant: the client executes a command itself where nothing is queued.
Mutant_ExecuteIfNothingQueued ==
  /\ client.at = "idle"
  /\ _in_fifo = <<>>
  /\ pushed < MaxCommands
  /\ pushed' = pushed + 1
  /\ executed' = pushed + 1
  /\ cleaned' = cleaned \cup {pushed + 1}
  /\ UNCHANGED <<_in_fifo, _out_fifo, _active, client, rt, running, lost, peak>>

\* push() of a new command, by itself or from wait(): an inactive queue
\* executes it and cleans it up at once.
PushInactive ==
  /\ client.at = "idle"
  /\ ~ _active
  /\ pushed < MaxCommands
  /\ pushed' = pushed + 1
  /\ executed' = pushed + 1
  /\ cleaned' = cleaned \cup {pushed + 1}
  /\ UNCHANGED <<_in_fifo, _out_fifo, _active, client, rt, running, lost, peak>>

PushActive(op) ==
  /\ client.at = "idle"
  /\ _active
  /\ pushed < MaxCommands
  /\ pushed' = pushed + 1
  /\ Begin(op)
  /\ UNCHANGED <<_in_fifo, _out_fifo, _active, rt, running, executed, cleaned,
                 lost, peak>>

\* cleanup_commands() by itself, as the query thread calls it.
Cleanup ==
  /\ client.at = "idle"
  /\ Begin("cleanup")
  /\ UNCHANGED <<_in_fifo, _out_fifo, _active, rt, running, pushed, executed,
                 cleaned, lost, peak>>

\* Mutant: wait() only sleeps.
Mutant_WaitOnlySleeps ==
  /\ client.at = "drain" /\ client.op # "poll"
  /\ _out_fifo # <<>>
  /\ _out_fifo' = Tail(_out_fifo)
  /\ cleaned' = cleaned \cup {Head(_out_fifo)}
  /\ UNCHANGED <<_in_fifo, _active, client, rt, running, pushed, executed, lost,
                 peak>>

\* One turn of the loop of cleanup_commands(): pop, cleanup, delete.
CleanupOne ==
  /\ client.at = "drain"
  /\ _out_fifo # <<>>
  /\ _out_fifo' = Tail(_out_fifo)
  /\ cleaned' = cleaned \cup {Head(_out_fifo)}
  /\ UNCHANGED <<_in_fifo, _active, client, rt, running, pushed, executed, lost,
                 peak>>

\* cleanup_commands() found _out_fifo empty, in push(): on to _in_fifo.
DrainedInPush ==
  /\ client.at = "drain"
  /\ _out_fifo = <<>>
  /\ client.op \in {"push", "wait"}
  /\ client' = [client EXCEPT !.at = "insert"]
  /\ UNCHANGED <<_in_fifo, _out_fifo, _active, rt, running, pushed, executed,
                 cleaned, lost, peak>>

\* _in_fifo.push(): where it is full, push() sleeps and tries again.
Insert ==
  /\ client.at = "insert"
  /\ Len(_in_fifo) < Capacity
  /\ _in_fifo' = Append(_in_fifo, pushed)
  /\ client' = IF client.op = "wait" THEN [client EXCEPT !.at = "drain", !.op = "poll"]
                                     ELSE Idle
  /\ LET outstanding == pushed - Cardinality(cleaned)
     IN  peak' = IF outstanding > peak THEN outstanding ELSE peak
  /\ UNCHANGED <<_out_fifo, _active, rt, running, pushed, executed, cleaned, lost>>

\* "done": wait()'s command, the last one pushed, was cleaned up.
done == pushed \in cleaned

\* wait() returns once it is done; until then it sleeps and calls
\* cleanup_commands() again.
Drained ==
  /\ client.at = "drain"
  /\ _out_fifo = <<>>
  /\ client.op = "cleanup" \/ (client.op = "poll" /\ done)
  /\ client' = Idle
  /\ UNCHANGED <<_in_fifo, _out_fifo, _active, rt, running, pushed, executed,
                 cleaned, lost, peak>>

------------------------------------------------------------------------------
(* MimoProcessor::activate() and deactivate(). *)

Activate ==
  /\ client.at = "idle"
  /\ ~ running
  /\ Begin("reactivate")
  /\ UNCHANGED <<_in_fifo, _out_fifo, _active, rt, running, pushed, executed,
                 cleaned, lost, peak>>

\* The queue is active before the backend is started, which may fail.
Reactivated ==
  /\ client.at = "drain"
  /\ _out_fifo = <<>>
  /\ client.op = "reactivate"
  /\ _active' = TRUE
  /\ running' \in BOOLEAN
  /\ client' = Idle
  /\ UNCHANGED <<_in_fifo, _out_fifo, rt, pushed, executed, cleaned, lost, peak>>

\* The backend stops between two calls of process(); then the client calls
\* process_commands() itself.
Deactivate ==
  /\ client.at = "idle"
  /\ rt.at = "idle"
  /\ running' = FALSE
  /\ client' = [at |-> "process", op |-> "deactivate"]
  /\ UNCHANGED <<_in_fifo, _out_fifo, _active, rt, pushed, executed, cleaned,
                 lost, peak>>

OwnProcessingEnds ==
  /\ client.at = "process"
  /\ rt.at = "idle"
  /\ _in_fifo = <<>>
  /\ Begin("deactivate")
  /\ UNCHANGED <<_in_fifo, _out_fifo, _active, rt, running, pushed, executed,
                 cleaned, lost, peak>>

\* No commands are available, so that CommandQueue::deactivate() succeeds.
Deactivated ==
  /\ client.at = "drain"
  /\ _out_fifo = <<>>
  /\ client.op = "deactivate"
  /\ _in_fifo = <<>>
  /\ _active' = FALSE
  /\ client' = Idle
  /\ UNCHANGED <<_in_fifo, _out_fifo, rt, running, pushed, executed, cleaned,
                 lost, peak>>

------------------------------------------------------------------------------
(* process_commands(), called from process() or from deactivate(). *)

Pop ==
  /\ rt.at = "idle"
  /\ running \/ client.at = "process"
  /\ _in_fifo # <<>>
  /\ rt' = [at |-> "execute", cmd |-> Head(_in_fifo)]
  /\ _in_fifo' = Tail(_in_fifo)
  /\ UNCHANGED <<_out_fifo, _active, client, running, pushed, executed, cleaned,
                 lost, peak>>

Execute ==
  /\ rt.at = "execute"
  /\ executed' = rt.cmd
  /\ rt' = [rt EXCEPT !.at = "return"]
  /\ UNCHANGED <<_in_fifo, _out_fifo, _active, client, running, pushed, cleaned,
                 lost, peak>>

\* Mutant: one slot is not used.
Mutant_OneSlotLess ==
  /\ rt.at = "return"
  /\ rt' = [at |-> "idle", cmd |-> 0]
  /\ \/ /\ Len(_out_fifo) < Capacity - 1
        /\ _out_fifo' = Append(_out_fifo, rt.cmd)
        /\ UNCHANGED lost
     \/ /\ Len(_out_fifo) = Capacity - 1
        /\ lost' = lost \cup {rt.cmd}
        /\ UNCHANGED _out_fifo
  /\ UNCHANGED <<_in_fifo, _active, client, running, pushed, executed, cleaned, peak>>

\* "If _out_fifo is full, cmd is not cleaned up!"
Return ==
  /\ rt.at = "return"
  /\ rt' = [at |-> "idle", cmd |-> 0]
  /\ \/ /\ Len(_out_fifo) < Capacity
        /\ _out_fifo' = Append(_out_fifo, rt.cmd)
        /\ UNCHANGED lost
     \/ /\ Len(_out_fifo) = Capacity
        /\ lost' = lost \cup {rt.cmd}
        /\ UNCHANGED _out_fifo
  /\ UNCHANGED <<_in_fifo, _active, client, running, pushed, executed, cleaned, peak>>

process_commands == Pop \/ Execute \/ Return

------------------------------------------------------------------------------
ClientStarts ==
  \/ PushInactive
  \/ \E op \in {"push", "wait"} : PushActive(op)
  \/ Cleanup
  \/ Activate
  \/ Deactivate

ClientProceeds ==
  \/ CleanupOne
  \/ DrainedInPush
  \/ Insert
  \/ Drained
  \/ Reactivated
  \/ OwnProcessingEnds
  \/ Deactivated

Next == ClientStarts \/ ClientProceeds \/ process_commands

\* Both threads run: a client inside an operation goes on with it, and a
\* running backend keeps calling process().  Nobody has to start an operation.
Fairness == WF_vars(ClientProceeds) /\ WF_vars(process_commands)

Spec == Init /\ [][Next]_vars /\ Fairness

------------------------------------------------------------------------------
(* Properties *)

\* Types; neither FIFO ever holds more than its capacity.
TypeOK ==
  /\ _in_fifo \in Seq(Commands)
  /\ _out_fifo \in Seq(Commands)
  /\ Len(_in_fifo) <= Capacity
  /\ Len(_out_fifo) <= Capacity
  /\ _active \in BOOLEAN
  /\ client \in [at : {"idle", "drain", "insert", "process"},
                 op : Operations]
  /\ rt \in [at : {"idle", "execute", "return"}, cmd : 0 .. MaxCommands]
  /\ running \in BOOLEAN
  /\ pushed \in 0 .. MaxCommands
  /\ executed \in 0 .. MaxCommands
  /\ cleaned \in SUBSET Commands
  /\ lost \in SUBSET Commands
  /\ peak \in 0 .. MaxCommands

\* The command the client holds and has not put into _in_fifo yet.
Pushing == client.at \in {"drain", "insert"} /\ client.op \in {"push", "wait"}

\* How many commands have gone into _in_fifo or were executed directly.
Inserted == IF Pushing THEN pushed - 1 ELSE pushed

\* How many commands have left _in_fifo.
Popped == Inserted - Len(_in_fifo)

Busy == rt.at # "idle"

\* _in_fifo holds the youngest commands, the realtime thread the one before
\* them, and everything older was executed: no command is skipped, executed
\* twice or executed out of order, across any number of deactivations.
InOrderInv ==
  /\ Popped >= 0
  /\ \A i \in 1 .. Len(_in_fifo) : _in_fifo[i] = Popped + i
  /\ Busy => rt.cmd = Popped
  /\ executed = IF rt.at = "execute" THEN Popped - 1 ELSE Popped

\* The commands that have come back through _out_fifo, or were to.
Returned == { n \in Commands : n <= IF Busy THEN Popped - 1 ELSE Popped }

Returning == { _out_fifo[i] : i \in 1 .. Len(_out_fifo) }

\* Every command that was executed and returned is in exactly one place: it
\* waits in _out_fifo for its cleanup, was cleaned up (once), or was lost.
ConservationInv ==
  /\ Returned = cleaned \cup lost \cup Returning
  /\ cleaned \cap lost = {}
  /\ Returning \cap (cleaned \cup lost) = {}
  /\ \A i, j \in 1 .. Len(_out_fifo) : i < j => _out_fifo[i] < _out_fifo[j]
  /\ \A m \in cleaned : \A n \in Returning : m < n

\* While the queue is inactive there is nothing in it and nobody else works
\* on it: the client may execute commands itself (mimoprocessor.h:255).
InactiveIsEmpty ==
  ~ _active => ~ running /\ ~ Busy /\ _in_fifo = <<>> /\ _out_fifo = <<>>

\* A command is lost only if at some time more commands were outstanding than
\* a FIFO can hold: a client that waits in time never loses one.
NoLossWithinCapacity == lost # {} => peak > Capacity

\* A command is cleaned up only after it was executed, each one once and in
\* the order of execution.
CleanedInOrder ==
  [][\A n \in cleaned' \ cleaned :
       n <= executed' /\ \A m \in cleaned : m < n]_vars

\* wait() returns, if the backend calls process() and no command is lost.
WaitReturns ==
  client.op \in {"wait", "poll"} ~> client.at = "idle" \/ lost # {} \/ ~ running

\* "This ensures that it's not going to be full which would block
\* process_commands() and its calling realtime thread." (commandqueue.h:198)
OutFifoHasRoom == rt.at = "return" => Len(_out_fifo) < Capacity
==============================================================================
