---------------------------- MODULE MimoProcessor ----------------------------
(***************************************************************************)
(* apf::MimoProcessor::process(): the main audio thread executes the       *)
(* commands that change the lists, then works through the lists one after  *)
(* the other, each of them together with NumThreads - 1 worker threads,    *)
(* which it starts and awaits with two semaphores per worker.  Lists 1 and *)
(* NumLists are _input_list and _output_list, the lists between them those *)
(* of Derived::Process.                                                    *)
(*                                                                         *)
(* One look of a thread at one list position is a step; semaphores are     *)
(* natural numbers.  What an item computes is left out: the model counts   *)
(* how often process() was called on it in the current audio cycle.        *)
(***************************************************************************)
EXTENDS Integers, Sequences, SequencesExt

CONSTANTS NumThreads,  \* _num_threads: the main thread 0 and the workers
          NumLists,    \* how many lists process() works through
          Items,       \* what the lists may contain
          MaxLength    \* bound: no list gets longer than this

ASSUME ThreadsAssumption == NumThreads \in Nat \ {0}
ASSUME ListsAssumption == NumLists \in Nat \ {0}
ASSUME LengthAssumption == MaxLength \in Nat

Threads == 0 .. NumThreads - 1
Workers == 1 .. NumThreads - 1
Lists == 1 .. NumLists

VARIABLES
  at,              \* where the main thread is in process()
  phase,           \* the next, or the current, list of process()
  next,            \* the next worker to be woken or awaited
  _current_list,   \* 0: nullptr
  cont_semaphore,
  wait_semaphore,
  on,              \* per thread: the list its loop is on, 0: in no loop
  n,               \* per thread: its position in that list
  lists,           \* what the lists contain
  processed        \* history: calls of process() in this cycle, per item

vars == <<at, phase, next, _current_list, cont_semaphore, wait_semaphore,
          on, n, lists, processed>>

Init ==
  /\ at = "stopped"
  /\ phase = 1
  /\ next = 1
  /\ _current_list = 0
  /\ cont_semaphore = [w \in Workers |-> 0]
  /\ wait_semaphore = [w \in Workers |-> 0]
  /\ on = [t \in Threads |-> 0]
  /\ n = [t \in Threads |-> 0]
  /\ lists = [l \in Lists |-> <<>>]
  /\ processed = [i \in Items |-> 0]

Listed == UNION { { lists[l][p] : p \in 1 .. Len(lists[l]) } : l \in Lists }

------------------------------------------------------------------------------
(* The audio backend. *)

\* activate() and deactivate(): the backend stops between two cycles only.
Activate ==
  /\ at = "stopped"
  /\ at' = "idle"
  /\ UNCHANGED <<phase, next, _current_list, cont_semaphore, wait_semaphore, on,
                 n, lists, processed>>

Deactivate ==
  /\ at = "idle"
  /\ at' = "stopped"
  /\ UNCHANGED <<phase, next, _current_list, cont_semaphore, wait_semaphore, on,
                 n, lists, processed>>

\* The backend calls process() for the next block of audio data.
Call ==
  /\ at = "idle"
  /\ at' = "commands"
  /\ processed' = [i \in Items |-> 0]
  /\ UNCHANGED <<phase, next, _current_list, cont_semaphore, wait_semaphore, on,
                 n, lists>>

------------------------------------------------------------------------------
(* Commands: process_commands() executes them at the beginning of          *)
(* process(), the client itself while the backend is stopped.              *)

ExecutesCommands == at \in {"stopped", "commands"}

AddItem(l, item) ==
  /\ ExecutesCommands
  /\ item \notin Listed
  /\ Len(lists[l]) < MaxLength
  /\ lists' = [lists EXCEPT ![l] = Append(@, item)]
  /\ UNCHANGED <<at, phase, next, _current_list, cont_semaphore, wait_semaphore,
                 on, n, processed>>

RemItem(l, p) ==
  /\ ExecutesCommands
  /\ lists' = [lists EXCEPT ![l] = RemoveAt(@, p)]
  /\ UNCHANGED <<at, phase, next, _current_list, cont_semaphore, wait_semaphore,
                 on, n, processed>>

CommandsProcessed ==
  /\ at = "commands"
  /\ at' = "list"
  /\ phase' = 1
  /\ UNCHANGED <<next, _current_list, cont_semaphore, wait_semaphore, on, n,
                 lists, processed>>

------------------------------------------------------------------------------
(* _process_list() and _process_current_list_in_main_thread(). *)

\* Nobody is woken for an empty list.
ProcessList ==
  /\ at = "list"
  /\ phase \in Lists
  /\ _current_list' = phase
  /\ \/ lists[phase] = <<>> /\ phase' = phase + 1 /\ UNCHANGED <<at, next>>
     \/ lists[phase] # <<>> /\ at' = "wake" /\ next' = 1 /\ UNCHANGED phase
  /\ UNCHANGED <<cont_semaphore, wait_semaphore, on, n, lists, processed>>

\* Mutant: the last worker is forgotten.
Mutant_LastNotWoken ==
  /\ at = "wake"
  /\ next \in Workers
  /\ cont_semaphore' = [cont_semaphore EXCEPT
                          ![next] = IF next = NumThreads - 1 THEN @ ELSE @ + 1]
  /\ next' = next + 1
  /\ UNCHANGED <<at, phase, _current_list, wait_semaphore, on, n, lists, processed>>

Wake ==
  /\ at = "wake"
  /\ next \in Workers
  /\ cont_semaphore' = [cont_semaphore EXCEPT ![next] = @ + 1]
  /\ next' = next + 1
  /\ UNCHANGED <<at, phase, _current_list, wait_semaphore, on, n, lists, processed>>

\* All are awake: the main thread has its own share.
OwnShare ==
  /\ at = "wake"
  /\ next = NumThreads
  /\ at' = "own"
  /\ on' = [on EXCEPT ![0] = _current_list]
  /\ n' = [n EXCEPT ![0] = 0]
  /\ UNCHANGED <<phase, next, _current_list, cont_semaphore, wait_semaphore,
                 lists, processed>>

\* A thread's loop has come to the end of its list.
AtEnd(t) == on[t] # 0 /\ n[t] = Len(lists[on[t]])

OwnShareDone ==
  /\ at = "own"
  /\ AtEnd(0)
  /\ at' = "await"
  /\ next' = 1
  /\ on' = [on EXCEPT ![0] = 0]
  /\ UNCHANGED <<phase, _current_list, cont_semaphore, wait_semaphore, n, lists,
                 processed>>

\* Mutant: sem_wait() does not wait.
Mutant_DoNotWait ==
  /\ at = "await"
  /\ next \in Workers
  /\ next' = next + 1
  /\ UNCHANGED <<at, phase, _current_list, cont_semaphore, wait_semaphore, on, n,
                 lists, processed>>

Await ==
  /\ at = "await"
  /\ next \in Workers
  /\ wait_semaphore[next] > 0
  /\ wait_semaphore' = [wait_semaphore EXCEPT ![next] = @ - 1]
  /\ next' = next + 1
  /\ UNCHANGED <<at, phase, _current_list, cont_semaphore, on, n, lists, processed>>

AllReported ==
  /\ at = "await"
  /\ next = NumThreads
  /\ at' = "list"
  /\ phase' = phase + 1
  /\ UNCHANGED <<next, _current_list, cont_semaphore, wait_semaphore, on, n,
                 lists, processed>>

\* All lists are done: the query commands read what the items computed.
Query ==
  /\ at = "list"
  /\ phase = NumLists + 1
  /\ at' = "queries"
  /\ UNCHANGED <<phase, next, _current_list, cont_semaphore, wait_semaphore, on,
                 n, lists, processed>>

Return ==
  /\ at = "queries"
  /\ at' = "idle"
  /\ UNCHANGED <<phase, next, _current_list, cont_semaphore, wait_semaphore, on,
                 n, lists, processed>>

------------------------------------------------------------------------------
(* _process_selected_items_in_current_list(t), in any thread. *)

Selected(t) == t = n[t] % NumThreads

ProcessSelected(t) ==
  /\ on[t] # 0
  /\ n[t] < Len(lists[on[t]])
  /\ processed' = IF Selected(t)
                  THEN [processed EXCEPT ![lists[on[t]][n[t] + 1]] = @ + 1]
                  ELSE processed
  /\ n' = [n EXCEPT ![t] = @ + 1]
  /\ UNCHANGED <<at, phase, next, _current_list, cont_semaphore, wait_semaphore,
                 on, lists>>

(* WorkerThreadFunction *)

\* cont_semaphore.wait(), then the loop begins with *_current_list.
Continue(w) ==
  /\ on[w] = 0
  /\ cont_semaphore[w] > 0
  /\ cont_semaphore' = [cont_semaphore EXCEPT ![w] = @ - 1]
  /\ on' = [on EXCEPT ![w] = _current_list]
  /\ n' = [n EXCEPT ![w] = 0]
  /\ UNCHANGED <<at, phase, next, _current_list, wait_semaphore, lists, processed>>

\* Mutant: the worker reports before its last item.
Mutant_ReportEarly(w) ==
  /\ on[w] # 0
  /\ n[w] >= Len(lists[on[w]]) - 1
  /\ on' = [on EXCEPT ![w] = 0]
  /\ wait_semaphore' = [wait_semaphore EXCEPT ![w] = @ + 1]
  /\ UNCHANGED <<at, phase, next, _current_list, cont_semaphore, n, lists, processed>>

Report(w) ==
  /\ AtEnd(w)
  /\ on' = [on EXCEPT ![w] = 0]
  /\ wait_semaphore' = [wait_semaphore EXCEPT ![w] = @ + 1]
  /\ UNCHANGED <<at, phase, next, _current_list, cont_semaphore, n, lists, processed>>

------------------------------------------------------------------------------
ProcessCommands ==
  \/ \E l \in Lists, item \in Items : AddItem(l, item)
  \/ \E l \in Lists : \E p \in 1 .. Len(lists[l]) : RemItem(l, p)

Main ==
  \/ CommandsProcessed
  \/ ProcessList
  \/ Wake
  \/ OwnShare
  \/ ProcessSelected(0)
  \/ OwnShareDone
  \/ Await
  \/ AllReported
  \/ Query
  \/ Return

Worker(w) == Continue(w) \/ ProcessSelected(w) \/ Report(w)

Next ==
  \/ Activate
  \/ Deactivate
  \/ Call
  \/ ProcessCommands
  \/ Main
  \/ \E w \in Workers : Worker(w)

\* The threads are scheduled.  That process_commands() finds its queue empty
\* at last is part of this: no client pushes commands faster than they are
\* executed for ever.
Fairness == WF_vars(Main) /\ \A w \in Workers : WF_vars(Worker(w))

Spec == Init /\ [][Next]_vars /\ Fairness

------------------------------------------------------------------------------
(* Properties *)

\* Types; and the semaphores are binary ones.
TypeOK ==
  /\ at \in {"stopped", "idle", "commands", "list", "wake", "own", "await", "queries"}
  /\ phase \in 1 .. NumLists + 1
  /\ next \in 1 .. NumThreads
  /\ _current_list \in 0 .. NumLists
  /\ cont_semaphore \in [Workers -> 0 .. 1]
  /\ wait_semaphore \in [Workers -> 0 .. 1]
  /\ on \in [Threads -> 0 .. NumLists]
  /\ n \in [Threads -> Nat]
  /\ lists \in [Lists -> Seq(Items)]
  /\ processed \in [Items -> Nat]

\* Worker w was woken and not yet awaited.
Engaged(w) ==
  \/ at = "wake" /\ w < next
  \/ at = "own"
  \/ at = "await" /\ w >= next

\* An engaged worker is in exactly one place: about to start, in its loop, or
\* done; one that is not engaged is in none of them, so that no start signal
\* and no report is left over for the next list.  Every loop is on the list
\* the main thread is on.
BarrierInv ==
  /\ \A w \in Workers :
       cont_semaphore[w] + wait_semaphore[w] + (IF on[w] # 0 THEN 1 ELSE 0)
         = IF Engaged(w) THEN 1 ELSE 0
  /\ on[0] # 0 <=> at = "own"
  /\ \A t \in Threads : on[t] # 0 => on[t] = _current_list /\ n[t] <= Len(lists[on[t]])
  /\ at \in {"wake", "own", "await"} => phase \in Lists /\ _current_list = phase

\* How often the items of list l were processed.
AllProcessed(l, times) ==
  \A p \in 1 .. Len(lists[l]) : processed[lists[l][p]] = times

\* When a thread processes a list, every item of the lists before it has been
\* processed exactly once in this cycle and none of the lists after it has:
\* sources find their inputs ready, outputs their sources.  No item is ever
\* processed twice, and the queries find the whole cycle complete.
ListsInOrder ==
  /\ \A i \in Items : processed[i] <= 1
  /\ at \in {"list", "wake", "own", "await", "queries"} =>
       \A l \in Lists : /\ l < phase => AllProcessed(l, 1)
                        /\ l > phase => AllProcessed(l, 0)

\* The lists change only while every worker is asleep and stays so: no thread
\* holds an iterator into a list that is changed.
ListsStable ==
  [][lists' # lists =>
       \A t \in Threads : on[t] = 0 /\ (t \in Workers => cont_semaphore[t] = 0)]_vars

\* process() returns: the barrier never blocks the audio thread for good.
ProcessReturns == at \notin {"stopped", "idle"} ~> at = "idle"
==============================================================================
