-------------------------- MODULE CommandQueueProofs -------------------------
(***************************************************************************)
(* CommandQueue for every capacity and every number of commands; then the  *)
(* two ring buffers it is made of, LockFreeFifo for every size: its type   *)
(* invariant; with stores seen in program order, the invariant of the ring *)
(* buffer and the proof that it implements BoundedFifo; and what is left   *)
(* with stores in any order.                                               *)
(***************************************************************************)
EXTENDS CommandQueue, LockFreeFifo, SequenceTheorems, FiniteSetTheorems, TLAPS

(* Where the client may be when the queue is active or not, and who may be *)
(* inside process_commands().                                              *)
ControlInv ==
  /\ client.at = "insert" => client.op \in {"push", "wait"}
  /\ client.at = "idle" => client.op = "cleanup"
  /\ client.at = "process" => client.op = "deactivate"
  /\ client.op \in {"push", "wait", "poll"} => _active
  /\ Pushing => pushed > 0
  /\ client.op \in {"reactivate", "deactivate"} => ~ running
  /\ client.at = "drain" /\ client.op = "deactivate" => ~ Busy /\ _in_fifo = <<>>
  /\ Busy => running \/ client.at = "process"
  /\ Busy => rt.cmd \in Commands

IInv ==
  TypeOK /\ ControlInv /\ InactiveIsEmpty /\ InOrderInv /\ ConservationInv

LEMMA InitIInv == Init => IInv
<1> SUFFICES ASSUME Init PROVE IInv
  OBVIOUS
<1> USE CapacityAssumption, MaxAssumption DEF Init
<1>1. TypeOK
  <2>1. _in_fifo \in Seq(Commands) /\ Len(_in_fifo) <= Capacity
    BY EmptySeq
  <2>2. _out_fifo \in Seq(Commands) /\ Len(_out_fifo) <= Capacity
    BY EmptySeq
  <2>3. _active \in BOOLEAN /\ running \in BOOLEAN
    BY Zenon
  <2>4. /\ client \in [at : {"idle", "drain", "insert", "process"}, op : Operations]
        /\ rt \in [at : {"idle", "execute", "return"}, cmd : 0 .. MaxCommands]
    BY DEF Idle, Operations
  <2> QED
    BY <2>1, <2>2, <2>3, <2>4 DEF TypeOK
<1>2. ControlInv /\ InactiveIsEmpty /\ InOrderInv
  BY DEF ControlInv, InactiveIsEmpty, InOrderInv, Idle, Pushing, Inserted, Popped, Busy
<1>3. ConservationInv
  BY DEF ConservationInv, Returned, Returning, Busy, Popped, Inserted, Pushing,
         Idle, Commands
<1> QED
  BY <1>1, <1>2, <1>3 DEF IInv

(* A step of the client that moves no command. *)
LEMMA NothingMoves ==
  ASSUME InOrderInv, ConservationInv, Inserted' = Inserted,
         UNCHANGED <<_in_fifo, _out_fifo, rt, executed, cleaned, lost>>
  PROVE  InOrderInv' /\ ConservationInv'
<1>1. InOrderInv'
  BY DEF InOrderInv, Popped, Busy
<1>2. ConservationInv'
  BY DEF ConservationInv, Returned, Returning, Popped, Busy
<1> QED
  BY <1>1, <1>2

LEMMA NumberFacts ==
  ASSUME TypeOK, ControlInv
  PROVE  /\ Inserted \in 0 .. MaxCommands
         /\ Len(_in_fifo) \in Nat
         /\ Popped \in Int
  BY MaxAssumption DEF TypeOK, ControlInv, Inserted, Pushing, Popped

(* Each of the client's steps that move no command preserves the invariant. *)
LEMMA PushActiveStep ==
  ASSUME IInv, NEW op \in {"push", "wait"}, PushActive(op) PROVE IInv'
<1> USE MaxAssumption DEF PushActive, Begin, IInv
<1>1. TypeOK'
  BY DEF TypeOK, Operations
<1>2. ControlInv' /\ InactiveIsEmpty'
  BY DEF TypeOK, ControlInv, InactiveIsEmpty, Pushing, Busy
<1>3. Inserted' = Inserted
  BY DEF TypeOK, Inserted, Pushing
<1> QED
  BY <1>1, <1>2, <1>3, NothingMoves

LEMMA BeginSteps ==
  ASSUME IInv, Cleanup \/ Activate \/ Deactivate PROVE IInv'
<1> USE DEF Cleanup, Activate, Deactivate, Begin, IInv
<1>1. TypeOK'
  <2>1. client' \in [at : {"idle", "drain", "insert", "process"}, op : Operations]
    BY DEF TypeOK, Operations
  <2>2. running' \in BOOLEAN
    BY Zenon DEF TypeOK
  <2> QED
    BY <2>1, <2>2 DEF TypeOK
<1>2. ControlInv' /\ InactiveIsEmpty'
  BY DEF TypeOK, ControlInv, InactiveIsEmpty, Pushing, Busy
<1>3. Inserted' = Inserted
  BY DEF TypeOK, Inserted, Pushing
<1> QED
  BY <1>1, <1>2, <1>3, NothingMoves

LEMMA EndSteps ==
  ASSUME IInv, DrainedInPush \/ Drained \/ Reactivated \/ OwnProcessingEnds \/ Deactivated
  PROVE  IInv'
<1> USE DEF DrainedInPush, Drained, Reactivated, OwnProcessingEnds, Deactivated,
            Begin, Idle, IInv
<1>1. TypeOK'
  <2>1. client' \in [at : {"idle", "drain", "insert", "process"}, op : Operations]
    BY DEF TypeOK, Operations
  <2>2. _active' \in BOOLEAN /\ running' \in BOOLEAN
    BY Zenon DEF TypeOK
  <2> QED
    BY <2>1, <2>2 DEF TypeOK
<1>2. ControlInv' /\ InactiveIsEmpty'
  BY DEF TypeOK, ControlInv, InactiveIsEmpty, Pushing, Busy
<1>3. Inserted' = Inserted
  BY DEF TypeOK, Inserted, Pushing
<1> QED
  BY <1>1, <1>2, <1>3, NothingMoves

------------------------------------------------------------------------------
(* The steps that move a command. *)

LEMMA PushInactiveStep == ASSUME IInv, PushInactive PROVE IInv'
<1> USE MaxAssumption DEF IInv, PushInactive
<1>1. pushed + 1 \in Commands
  BY DEF TypeOK, Commands
<1>2. TypeOK'
  BY <1>1 DEF TypeOK, Commands
<1>3. ControlInv' /\ InactiveIsEmpty'
  BY DEF TypeOK, ControlInv, InactiveIsEmpty, Pushing, Busy
<1>4. /\ ~ Busy /\ ~ Busy' /\ _in_fifo = <<>> /\ _out_fifo = <<>> /\ Len(_in_fifo) = 0
      /\ Len(_out_fifo) = 0
  BY EmptySeq DEF InactiveIsEmpty, Busy
<1>5. Popped = pushed /\ Popped' = pushed + 1
  BY <1>4 DEF Popped, Inserted, Pushing, TypeOK
<1>6. InOrderInv'
  BY <1>4, <1>5 DEF InOrderInv, Busy, TypeOK
<1>7. ConservationInv'
  <2>1. Returned' = Returned \cup {pushed + 1}
    BY <1>1, <1>4, <1>5 DEF Returned, TypeOK, Commands
  <2>2. pushed + 1 \notin Returned
    BY <1>4, <1>5 DEF Returned, TypeOK
  <2>3. Returning = {} /\ Returning' = {}
    BY <1>4 DEF Returning
  <2> QED
    BY <1>4, <2>1, <2>2, <2>3 DEF ConservationInv
<1> QED
  BY <1>2, <1>3, <1>6, <1>7

LEMMA CleanupOneStep == ASSUME IInv, CleanupOne PROVE IInv'
<1> USE MaxAssumption DEF IInv, CleanupOne
<1> DEFINE h == Head(_out_fifo)
<1>1. /\ h \in Commands /\ _out_fifo' \in Seq(Commands)
      /\ Len(_out_fifo') = Len(_out_fifo) - 1
      /\ Len(_out_fifo) \in Nat \ {0}
      /\ h = _out_fifo[1]
      /\ \A i \in 1 .. Len(_out_fifo') : _out_fifo'[i] = _out_fifo[i + 1]
  BY HeadTailProperties, EmptySeq DEF TypeOK
<1>2. TypeOK'
  BY <1>1, CapacityAssumption DEF TypeOK
<1>3. ControlInv' /\ InactiveIsEmpty'
  BY DEF ControlInv, InactiveIsEmpty, Pushing, Busy
<1>4. InOrderInv' /\ Returned' = Returned
  BY DEF InOrderInv, Returned, Popped, Inserted, Pushing, Busy
<1>5. ConservationInv'
  <2>1. Returning' = Returning \ {h}
    <3>1. ASSUME NEW i \in 1 .. Len(_out_fifo)
          PROVE  _out_fifo[i] = h <=> i = 1
      BY <1>1 DEF ConservationInv, TypeOK, Commands
    <3>2. Returning' = { _out_fifo[i] : i \in 2 .. Len(_out_fifo) }
      <4>1. ASSUME NEW i \in 1 .. Len(_out_fifo')
            PROVE  i + 1 \in 2 .. Len(_out_fifo) /\ _out_fifo'[i] = _out_fifo[i + 1]
        BY <1>1
      <4>2. ASSUME NEW i \in 2 .. Len(_out_fifo)
            PROVE  i - 1 \in 1 .. Len(_out_fifo') /\ _out_fifo'[i - 1] = _out_fifo[i]
        BY <1>1
      <4> QED
        BY <4>1, <4>2 DEF Returning
    <3> QED
      BY <3>1, <3>2, <1>1 DEF Returning
  <2>2. h \in Returning
    BY <1>1 DEF Returning
  <2>3. \A i, j \in 1 .. Len(_out_fifo') : i < j => _out_fifo'[i] < _out_fifo'[j]
    BY <1>1 DEF ConservationInv
  <2>4. \A n \in Returning \ {h} : h < n
    BY <1>1 DEF ConservationInv, Returning
  <2> QED
    BY <1>4, <2>1, <2>2, <2>3, <2>4 DEF ConservationInv
<1> QED
  BY <1>2, <1>3, <1>4, <1>5

LEMMA CleanedFinite ==
  ASSUME NEW S \in SUBSET Commands
  PROVE  IsFiniteSet(S) /\ Cardinality(S) \in Nat
<1>1. IsFiniteSet(Commands)
  BY FS_Interval, MaxAssumption DEF Commands
<1> QED
  BY <1>1, FS_Subset, FS_CardinalityType

LEMMA InsertStep == ASSUME IInv, Insert PROVE IInv'
<1> USE MaxAssumption DEF IInv, Insert
<1>1. /\ client.op \in {"push", "wait"} /\ Pushing /\ _active /\ pushed \in Commands
      /\ Inserted = pushed - 1
  BY DEF TypeOK, ControlInv, Pushing, Inserted, Commands
<1>2. /\ _in_fifo' \in Seq(Commands)
      /\ Len(_in_fifo') = Len(_in_fifo) + 1
      /\ Len(_in_fifo) \in Nat
      /\ \A i \in 1 .. Len(_in_fifo) : _in_fifo'[i] = _in_fifo[i]
      /\ _in_fifo'[Len(_in_fifo) + 1] = pushed
  BY <1>1, AppendProperties DEF TypeOK
<1>3. /\ client' \in [at : {"idle", "drain", "insert", "process"}, op : Operations]
      /\ ~ Pushing' /\ client'.at \in {"idle", "drain"}
      /\ client'.at = "idle" => client'.op = "cleanup"
      /\ client'.op \in {"cleanup", "poll"}
  BY DEF TypeOK, Idle, Operations, Pushing
<1>4. TypeOK'
  <2>1. peak' \in 0 .. MaxCommands
    BY CleanedFinite DEF TypeOK
  <2>2. Len(_in_fifo') <= Capacity
    BY <1>2, CapacityAssumption
  <2> QED
    BY <1>2, <1>3, <2>1, <2>2 DEF TypeOK
<1>5. ControlInv' /\ InactiveIsEmpty'
  BY <1>1, <1>3 DEF ControlInv, InactiveIsEmpty, Busy
<1>6. Inserted' = pushed /\ Popped' = Popped
  BY <1>1, <1>2, <1>3 DEF Inserted, Popped, TypeOK
<1>7. InOrderInv'
  <2>1. Popped \in Int /\ pushed = Popped + (Len(_in_fifo) + 1)
    BY <1>1, <1>2 DEF Popped, TypeOK
  <2>2. \A i \in 1 .. Len(_in_fifo') : _in_fifo'[i] = Popped' + i
    BY <1>2, <1>6, <2>1 DEF InOrderInv
  <2> QED
    BY <1>6, <2>2 DEF InOrderInv, Busy
<1>8. ConservationInv'
  BY <1>6 DEF ConservationInv, Returned, Returning, Busy
<1> QED
  BY <1>4, <1>5, <1>7, <1>8

LEMMA PopStep == ASSUME IInv, Pop PROVE IInv'
<1> USE MaxAssumption DEF IInv, Pop
<1>1. /\ Head(_in_fifo) \in Commands /\ _in_fifo' \in Seq(Commands)
      /\ Len(_in_fifo') = Len(_in_fifo) - 1
      /\ Len(_in_fifo) \in Nat \ {0}
      /\ Head(_in_fifo) = _in_fifo[1]
      /\ \A i \in 1 .. Len(_in_fifo') : _in_fifo'[i] = _in_fifo[i + 1]
  BY HeadTailProperties, EmptySeq DEF TypeOK
<1>2. ~ Busy /\ Busy' /\ rt'.at = "execute" /\ rt'.cmd = Head(_in_fifo)
  BY DEF Busy
<1>3. TypeOK'
  <2>1. rt' \in [at : {"idle", "execute", "return"}, cmd : 0 .. MaxCommands]
    BY <1>1 DEF Commands
  <2> QED
    BY <1>1, <2>1, CapacityAssumption DEF TypeOK
<1>4. ControlInv' /\ InactiveIsEmpty'
  BY <1>1, <1>2 DEF ControlInv, InactiveIsEmpty, Pushing
<1>5. Popped \in Int /\ Popped' = Popped + 1
  BY <1>1, NumberFacts DEF Popped, Inserted, Pushing
<1>6. InOrderInv'
  BY <1>1, <1>2, <1>5 DEF InOrderInv
<1>7. Returned' = Returned
  BY <1>2, <1>5 DEF Returned, Commands
<1>8. ConservationInv'
  BY <1>7 DEF ConservationInv, Returning
<1> QED
  BY <1>3, <1>4, <1>6, <1>8

LEMMA ExecuteStep == ASSUME IInv, Execute PROVE IInv'
<1> USE MaxAssumption DEF IInv, Execute
<1>1. Busy /\ Busy' /\ rt'.at = "return" /\ rt'.cmd = rt.cmd
  BY DEF TypeOK, Busy
<1>2. TypeOK'
  BY DEF TypeOK
<1>3. ControlInv' /\ InactiveIsEmpty'
  BY <1>1 DEF ControlInv, InactiveIsEmpty, Pushing
<1>4. Popped' = Popped
  BY DEF Popped, Inserted, Pushing
<1>5. InOrderInv'
  BY <1>1, <1>4 DEF InOrderInv
<1>6. ConservationInv'
  BY <1>1, <1>4 DEF ConservationInv, Returned, Returning
<1> QED
  BY <1>2, <1>3, <1>5, <1>6

LEMMA ReturnStep == ASSUME IInv, Return PROVE IInv'
<1> USE MaxAssumption, CapacityAssumption DEF IInv, Return
<1>1. /\ Busy /\ ~ Busy' /\ rt.cmd = Popped /\ rt.cmd \in Commands
      /\ rt'.at = "idle" /\ rt'.cmd = 0 /\ Popped' = Popped
  BY DEF TypeOK, ControlInv, InOrderInv, Busy, Popped, Inserted, Pushing
<1>2. Returned' = Returned \cup {rt.cmd} /\ rt.cmd \notin Returned
  BY <1>1 DEF Returned, Commands
<1>3. \A n \in Returned : n < rt.cmd
  BY <1>1 DEF Returned, Commands
<1>4. ControlInv' /\ InactiveIsEmpty'
  BY <1>1 DEF ControlInv, InactiveIsEmpty, Pushing
<1>5. InOrderInv'
  BY <1>1 DEF InOrderInv, Busy
<1>6. rt' \in [at : {"idle", "execute", "return"}, cmd : 0 .. MaxCommands]
  OBVIOUS
<1>7. CASE Len(_out_fifo) < Capacity
  <2>1. _out_fifo' = Append(_out_fifo, rt.cmd) /\ UNCHANGED <<lost, cleaned>>
    BY <1>7
  <2>2. /\ _out_fifo' \in Seq(Commands)
        /\ Len(_out_fifo') = Len(_out_fifo) + 1
        /\ Len(_out_fifo) \in Nat
        /\ \A i \in 1 .. Len(_out_fifo) : _out_fifo'[i] = _out_fifo[i]
        /\ _out_fifo'[Len(_out_fifo) + 1] = rt.cmd
    BY <1>1, <2>1, AppendProperties DEF TypeOK
  <2>3. TypeOK'
    BY <1>6, <1>7, <2>1, <2>2 DEF TypeOK
  <2>4. Returning' = Returning \cup {rt.cmd}
    BY <2>2 DEF Returning
  <2>5. \A i \in 1 .. Len(_out_fifo) : _out_fifo[i] \in Returned
    BY DEF ConservationInv, Returning
  <2>6. ASSUME NEW i \in 1 .. Len(_out_fifo'), NEW j \in 1 .. Len(_out_fifo'), i < j
        PROVE  _out_fifo'[i] < _out_fifo'[j]
    <3>1. CASE j = Len(_out_fifo) + 1
      BY <1>3, <2>2, <2>5, <2>6, <3>1
    <3>2. CASE j # Len(_out_fifo) + 1
      BY <2>2, <2>6, <3>2 DEF ConservationInv
    <3> QED
      BY <3>1, <3>2
  <2>7. \A m \in cleaned : m < rt.cmd
    BY <1>3 DEF ConservationInv
  <2>8. ConservationInv'
    BY <1>2, <2>1, <2>4, <2>6, <2>7 DEF ConservationInv
  <2> QED
    BY <1>4, <1>5, <2>3, <2>8
<1>8. CASE Len(_out_fifo) = Capacity
  <2>1. lost' = lost \cup {rt.cmd} /\ UNCHANGED <<_out_fifo, cleaned>>
    BY <1>8
  <2>2. TypeOK'
    BY <1>1, <1>6, <2>1 DEF TypeOK
  <2>3. ConservationInv'
    BY <1>2, <2>1 DEF ConservationInv, Returning
  <2> QED
    BY <1>4, <1>5, <2>2, <2>3
<1> QED
  BY <1>7, <1>8

------------------------------------------------------------------------------
LEMMA Invariance == Spec => []IInv
<1>1. IInv /\ [Next]_vars => IInv'
  <2> SUFFICES ASSUME IInv, [Next]_vars PROVE IInv'
    OBVIOUS
  <2>1. CASE PushInactive
    BY <2>1, PushInactiveStep
  <2>2. ASSUME NEW op \in {"push", "wait"}, PushActive(op) PROVE IInv'
    BY <2>2, PushActiveStep
  <2>3. CASE Cleanup \/ Activate \/ Deactivate
    BY <2>3, BeginSteps
  <2>4. CASE CleanupOne
    BY <2>4, CleanupOneStep
  <2>5. CASE Insert
    BY <2>5, InsertStep
  <2>6. CASE DrainedInPush \/ Drained \/ Reactivated \/ OwnProcessingEnds \/ Deactivated
    BY <2>6, EndSteps
  <2>7. CASE Pop
    BY <2>7, PopStep
  <2>8. CASE Execute
    BY <2>8, ExecuteStep
  <2>9. CASE Return
    BY <2>9, ReturnStep
  <2>10. CASE UNCHANGED vars
    <3>1. Inserted' = Inserted
      BY <2>10 DEF vars, Inserted, Pushing
    <3>2. InOrderInv' /\ ConservationInv'
      BY <2>10, <3>1, NothingMoves DEF vars, IInv
    <3>3. TypeOK'
      BY <2>10 DEF vars, IInv, TypeOK
    <3>4. ControlInv' /\ InactiveIsEmpty'
      BY <2>10 DEF vars, IInv, ControlInv, InactiveIsEmpty, Pushing, Busy
    <3> QED
      BY <3>2, <3>3, <3>4 DEF IInv
  <2> QED
    BY <2>1, <2>2, <2>3, <2>4, <2>5, <2>6, <2>7, <2>8, <2>9, <2>10
    DEF Next, ClientStarts, ClientProceeds, process_commands
<1> QED
  BY <1>1, InitIInv, PTL DEF Spec

(* The type invariant, for every capacity. *)
THEOREM Typing == Spec => []TypeOK
<1>1. IInv => TypeOK
  BY DEF IInv
<1> QED
  BY <1>1, Invariance, PTL

(* Commands are executed once each and in the order of the push() calls,   *)
(* and each executed one is in exactly one place until it is cleaned up,   *)
(* across any number of activations and deactivations.                     *)
THEOREM OrderAndConservation == Spec => [](InOrderInv /\ ConservationInv)
<1>1. IInv => InOrderInv /\ ConservationInv
  BY DEF IInv
<1> QED
  BY <1>1, Invariance, PTL

(* While the queue is inactive nobody but the client works on it: what     *)
(* makes the direct execution of commands in push() safe.                  *)
THEOREM InactiveQueueIsTheClients == Spec => []InactiveIsEmpty
<1>1. IInv => InactiveIsEmpty
  BY DEF IInv
<1> QED
  BY <1>1, Invariance, PTL
(* Commands are cleaned up after they were executed, once and in order.    *)
THEOREM CleanupOrder == Spec => CleanedInOrder
<1>1. IInv /\ [Next]_vars =>
        [\A n \in cleaned' \ cleaned :
           n <= executed' /\ \A m \in cleaned : m < n]_vars
  <2> SUFFICES ASSUME IInv, [Next]_vars, NEW n \in cleaned' \ cleaned
               PROVE  n <= executed' /\ \A m \in cleaned : m < n
    OBVIOUS
  <2> USE DEF IInv
  <2>1. CASE PushInactive
    <3>1. n = pushed + 1 /\ executed' = pushed + 1
      BY <2>1 DEF PushInactive
    <3>2. \A m \in cleaned : m \in Returned
      BY DEF ConservationInv
    <3>3. Popped = pushed /\ ~ Busy
      BY <2>1, EmptySeq
      DEF PushInactive, InactiveIsEmpty, Popped, Inserted, Pushing, TypeOK
    <3> QED
      BY <3>1, <3>2, <3>3 DEF Returned, Commands, TypeOK
  <2>2. CASE CleanupOne
    <3>1. n = Head(_out_fifo) /\ _out_fifo # <<>> /\ UNCHANGED executed
      BY <2>2 DEF CleanupOne
    <3>2. n \in Returning
      BY <3>1, HeadTailProperties, EmptySeq DEF TypeOK, Returning
    <3>3. n \in Returned
      BY <3>2 DEF ConservationInv
    <3>4. n <= executed
      BY <3>3, NumberFacts DEF Returned, InOrderInv, Busy, Commands
    <3> QED
      BY <3>1, <3>2, <3>4 DEF ConservationInv
  <2> QED
    BY <2>1, <2>2
    DEF Next, ClientStarts, ClientProceeds, process_commands, vars, PushActive,
        Cleanup, Activate, Deactivate, DrainedInPush, Insert, Drained,
        Reactivated, OwnProcessingEnds, Deactivated, Pop, Execute, Return
<1> QED
  BY <1>1, Invariance, PTL DEF Spec, CleanedInOrder
------------------------------------------------------------------------------
(* How many commands may be outstanding. *)

LEMMA ReturningCardinality ==
  ASSUME TypeOK, ConservationInv
  PROVE  IsFiniteSet(Returning) /\ Cardinality(Returning) = Len(_out_fifo)
<1>1. Len(_out_fifo) \in Nat /\ _out_fifo \in [1 .. Len(_out_fifo) -> Commands]
  BY DEF TypeOK
<1>2. \A i, j \in 1 .. Len(_out_fifo) : _out_fifo[i] = _out_fifo[j] => i = j
  BY <1>1 DEF ConservationInv, Commands
<1>3. _out_fifo \in Bijection(1 .. Len(_out_fifo), Returning)
  BY <1>1, <1>2 DEF Bijection, Injection, Surjection, IsInjective, Returning
<1>4. ExistsBijection(1 .. Len(_out_fifo), Returning)
  BY <1>3 DEF ExistsBijection
<1>5. IsFiniteSet(1 .. Len(_out_fifo)) /\ Cardinality(1 .. Len(_out_fifo)) = Len(_out_fifo)
  BY <1>1, FS_Interval
<1> QED
  BY <1>4, <1>5, FS_Bijection

(* When _out_fifo is full and one more command is on its way to it, more   *)
(* commands than a FIFO can hold are outstanding.                          *)
LEMMA FullOutFifo ==
  ASSUME IInv, rt.at = "return", Len(_out_fifo) = Capacity
  PROVE  Inserted - Cardinality(cleaned) > Capacity
<1> USE DEF IInv
<1>1. Busy /\ Len(_in_fifo) \in Nat /\ Popped \in Int /\ Inserted \in Nat
  BY NumberFacts DEF Busy
<1>2. Popped \in Commands /\ Inserted >= Popped
  BY <1>1 DEF ControlInv, InOrderInv, Popped
<1>3. cleaned \cup Returning \subseteq 1 .. Popped - 1
  BY <1>1, <1>2 DEF ConservationInv, Returned, Commands
<1>4. /\ IsFiniteSet(1 .. Popped - 1)
      /\ Cardinality(1 .. Popped - 1) = Popped - 1
  <2>1. 1 \in Int /\ Popped - 1 \in Int /\ Popped - 1 >= 0
    BY <1>1, <1>2, MaxAssumption DEF Commands
  <2>2. Cardinality(1 .. Popped - 1) =
          IF 1 > Popped - 1 THEN 0 ELSE (Popped - 1) - 1 + 1
    BY <2>1, FS_Interval
  <2>3. IsFiniteSet(1 .. Popped - 1)
    BY <2>1, FS_Interval
  <2> QED
    BY <2>1, <2>2, <2>3
<1>5. Cardinality(cleaned \cup Returning) <= Popped - 1
  BY <1>3, <1>4, FS_Subset
<1>6. /\ IsFiniteSet(cleaned) /\ Cardinality(cleaned) \in Nat
      /\ IsFiniteSet(Returning) /\ Cardinality(Returning) = Capacity
  BY CleanedFinite, ReturningCardinality DEF TypeOK
<1>7. cleaned \cap Returning = {}
  BY DEF ConservationInv
<1>8. Cardinality(cleaned \cup Returning) = Cardinality(cleaned) + Capacity
  <2>1. Cardinality(cleaned \cup Returning) =
          Cardinality(cleaned) + Cardinality(Returning) - Cardinality(cleaned \cap Returning)
    BY <1>6, FS_Union
  <2>2. Cardinality(cleaned \cap Returning) = 0
    BY <1>7, FS_EmptySet
  <2> QED
    BY <1>6, <2>1, <2>2, CapacityAssumption
<1> QED
  BY <1>1, <1>2, <1>5, <1>6, <1>8, CapacityAssumption DEF Commands

PeakInv ==
  /\ Inserted - Cardinality(cleaned) <= peak
  /\ NoLossWithinCapacity

(* A client that never has more commands outstanding than one FIFO holds   *)
(* never loses a command, for every capacity.                              *)
THEOREM NoLoss == Spec => []NoLossWithinCapacity
<1>1. Init => PeakInv
  BY FS_EmptySet
  DEF Init, PeakInv, NoLossWithinCapacity, Inserted, Pushing, Idle
<1>2. IInv /\ IInv' /\ PeakInv /\ [Next]_vars => PeakInv'
  <2> SUFFICES ASSUME IInv, IInv', PeakInv, [Next]_vars PROVE PeakInv'
    OBVIOUS
  <2>1. /\ IsFiniteSet(cleaned) /\ Cardinality(cleaned) \in Nat
        /\ Cardinality(cleaned') \in Nat
        /\ Inserted \in Nat /\ pushed \in Nat /\ peak \in Nat
        /\ Capacity \in Nat
    BY CleanedFinite, NumberFacts, MaxAssumption, CapacityAssumption DEF IInv, TypeOK
  <2>2. ASSUME Inserted' = Inserted, UNCHANGED <<cleaned, lost, peak>>
        PROVE  PeakInv'
    BY <2>2 DEF PeakInv, NoLossWithinCapacity
  <2>3. CASE PushInactive
    <3>1. Inserted = pushed /\ Inserted' = pushed + 1
      BY <2>3 DEF PushInactive, Inserted, Pushing
    <3>2. pushed + 1 \notin cleaned
      BY <2>3, EmptySeq, MaxAssumption
      DEF IInv, PushInactive, InactiveIsEmpty, ConservationInv, Returned, Popped,
          Inserted, Pushing, TypeOK, Commands
    <3>3. Cardinality(cleaned') = Cardinality(cleaned) + 1
      BY <2>1, <2>3, <3>2, FS_AddElement DEF PushInactive
    <3> QED
      BY <2>1, <2>3, <3>1, <3>3 DEF PushInactive, PeakInv, NoLossWithinCapacity
  <2>4. CASE CleanupOne
    <3>1. Inserted' = Inserted /\ UNCHANGED <<lost, peak>>
      BY <2>4 DEF CleanupOne, Inserted, Pushing
    <3>2. Cardinality(cleaned') >= Cardinality(cleaned)
      <4>1. cleaned' = cleaned \cup {Head(_out_fifo)}
        BY <2>4 DEF CleanupOne
      <4>2. Cardinality(cleaned') = IF Head(_out_fifo) \in cleaned
                                      THEN Cardinality(cleaned)
                                      ELSE Cardinality(cleaned) + 1
        BY <2>1, <4>1, FS_AddElement
      <4> QED
        BY <2>1, <4>2
    <3> QED
      BY <2>1, <3>1, <3>2 DEF PeakInv, NoLossWithinCapacity
  <2>5. CASE Insert
    <3>1. Inserted' = pushed /\ UNCHANGED <<lost, cleaned>>
      BY <2>5 DEF Insert, Inserted, Pushing, Idle
    <3>2. peak' >= pushed - Cardinality(cleaned) /\ peak' >= peak
      BY <2>1, <2>5 DEF Insert
    <3>3. peak' \in Nat
      BY <2>1, <2>5 DEF Insert
    <3> QED
      BY <2>1, <3>1, <3>2, <3>3 DEF PeakInv, NoLossWithinCapacity
  <2>6. CASE Return
    <3>1. Inserted' = Inserted /\ UNCHANGED <<cleaned, peak>>
      BY <2>6 DEF Return, Inserted, Pushing
    <3>2. CASE UNCHANGED lost
      BY <2>2, <3>1, <3>2
    <3>3. CASE Len(_out_fifo) = Capacity
      BY <2>1, <2>6, <3>1, <3>3, FullOutFifo DEF Return, PeakInv, NoLossWithinCapacity
    <3> QED
      BY <2>6, <3>2, <3>3 DEF Return
  <2>7. CASE \E op \in {"push", "wait"} : PushActive(op)
    BY <2>1, <2>2, <2>7 DEF PushActive, Begin, Inserted, Pushing
  <2>8. CASE Cleanup \/ Activate \/ Deactivate
    BY <2>2, <2>8 DEF Cleanup, Activate, Deactivate, Begin, Inserted, Pushing
  <2>9. CASE DrainedInPush \/ Drained \/ Reactivated \/ OwnProcessingEnds \/ Deactivated
    <3>1. Inserted' = Inserted
      BY <2>9 DEF IInv, TypeOK, DrainedInPush, Drained, Reactivated,
                  OwnProcessingEnds, Deactivated, Begin, Idle, Inserted, Pushing
    <3> QED
      BY <2>2, <2>9, <3>1
      DEF DrainedInPush, Drained, Reactivated, OwnProcessingEnds, Deactivated
  <2>10. CASE Pop \/ Execute \/ UNCHANGED vars
    BY <2>2, <2>10 DEF Pop, Execute, vars, Inserted, Pushing
  <2> QED
    BY <2>3, <2>4, <2>5, <2>6, <2>7, <2>8, <2>9, <2>10
    DEF Next, ClientStarts, ClientProceeds, process_commands
<1>3. PeakInv => NoLossWithinCapacity
  BY DEF PeakInv
<1> QED
  BY <1>1, <1>2, <1>3, Invariance, PTL DEF Spec

------------------------------------------------------------------------------
(* The ring buffer: LockFreeFifo                                            *)

(* What the mask does to the indices push() and pop() compute: they never  *)
(* go beyond twice the size, so masking subtracts the size at most once.   *)
LEMMA MaskedValue ==
  \A i \in 0 .. 2 * Size - 1 : Masked(i) = IF i < Size THEN i ELSE i - Size
  BY SizeAssumption DEF Masked

LEMMA MaskedIndex == \A i \in Nat : Masked(i) \in Indices
  BY SizeAssumption DEF Masked, Indices

(* The index after an index, around the end of the ring. *)
LEMMA NextIndex ==
  \A i \in Indices : Masked(i + 1) = IF i = Size - 1 THEN 0 ELSE i + 1
<1>1. \A i \in Indices : i \in Int /\ i + 1 \in 0 .. 2 * Size - 1 /\ (i + 1 < Size <=> i # Size - 1)
  BY SizeAssumption DEF Indices
<1> QED
  BY <1>1, MaskedValue, SizeAssumption DEF Indices

(* The type invariant holds for every size, whatever the order in which    *)
(* the two stores of push() are seen.                                      *)
THEOREM RingTyping == RingSpec => []RingTypeOK
<1>1. RingInit => RingTypeOK
  BY SizeAssumption DEF RingInit, RingTypeOK, Indices, Pointers
<1>2. RingTypeOK /\ [RingNext]_ring => RingTypeOK'
  <2> SUFFICES ASSUME RingTypeOK, [RingNext]_ring PROVE RingTypeOK'
    OBVIOUS
  <2>0. in_order' \in BOOLEAN
    BY DEF RingTypeOK, RingNext, ring
  <2> USE SizeAssumption, MaskedIndex, <2>0 DEF RingTypeOK
  <2>1. ASSUME NEW item \in Pointers, PushCheck(item) PROVE RingTypeOK'
    <3>1. Unwrapped(_write_index, _read_index) \in 0 .. 2 * Size - 2
      BY DEF Unwrapped, Indices
    <3> QED
      BY <2>1, <3>1 DEF PushCheck
  <2>2. CASE PushStore
    BY <2>2 DEF PushStore
  <2>3. CASE PushPublish
    BY <2>3 DEF PushPublish
  <2>4. CASE PushPublishEarly
    BY <2>4 DEF PushPublishEarly
  <2>5. CASE PushStoreLate
    BY <2>5 DEF PushStoreLate
  <2>6. CASE PopEmpty
    BY <2>6 DEF PopEmpty, Pointers
  <2>7. CASE PopCheck
    BY <2>7 DEF PopCheck
  <2>8. CASE PopLoad
    BY <2>8 DEF PopLoad
  <2>9. CASE PopAdvance
    <3>1. Masked(_read_index + 1) \in Indices
      BY DEF Indices
    <3> QED
      BY <2>9, <3>1 DEF PopAdvance
  <2>10. CASE UNCHANGED ring
    BY <2>10 DEF ring
  <2> QED
    BY <2>1, <2>2, <2>3, <2>4, <2>5, <2>6, <2>7, <2>8, <2>9, <2>10
    DEF RingNext, push, pop
<1> QED
  BY <1>1, <1>2, PTL DEF RingSpec

------------------------------------------------------------------------------
(* The writer never reaches "late" when its stores are seen in order. *)
RingIInv == RingTypeOK /\ (in_order => Consistent /\ writer.at # "late")

(* The number of items between the indices. *)
LEMMA FillValue ==
  ASSUME RingTypeOK
  PROVE  /\ Fill = IF _write_index < _read_index
                     THEN _write_index + Size - _read_index
                     ELSE _write_index - _read_index
         /\ Fill \in 0 .. Size - 1
         /\ empty <=> Fill = 0
  BY SizeAssumption DEF RingTypeOK, Fill, Distance, Unwrapped, Indices, empty

(* The slots between the indices, and the one a writer has reserved, which *)
(* is none of them.                                                        *)
LEMMA SlotOf ==
  ASSUME RingTypeOK, NEW i \in 1 .. Fill
  PROVE  /\ Masked(_read_index + i - 1) \in Indices
         /\ Masked(_read_index + i - 1) # _write_index
         /\ Contents[i] = _data[Masked(_read_index + i - 1)]
<1>1. /\ _read_index + i - 1 \in 0 .. 2 * Size - 1
      /\ Fill \in 0 .. Size - 1
  BY FillValue, SizeAssumption DEF RingTypeOK, Indices
<1>2. Masked(_read_index + i - 1) # _write_index
  BY <1>1, FillValue, MaskedValue, SizeAssumption DEF RingTypeOK, Indices
<1>3. Masked(_read_index + i - 1) \in Indices
  BY <1>1, MaskedIndex, SizeAssumption
<1> QED
  BY <1>2, <1>3 DEF Contents

(* The oldest item is the one at _read_index. *)
LEMMA OldestSlot ==
  ASSUME RingTypeOK, ~ empty
  PROVE  1 \in 1 .. Fill /\ Contents[1] = _data[_read_index]
<1>1. 1 \in 1 .. Fill
  BY FillValue
<1>2. Masked(_read_index + 1 - 1) = _read_index
  BY MaskedValue, SizeAssumption DEF RingTypeOK, Indices
<1> QED
  BY <1>1, <1>2, SlotOf

(* The slot PushStore fills is the one at _write_index. *)
LEMMA ReservedSlot ==
  ASSUME RingTypeOK, WriterInv, writer.at \in {"store", "publish"}
  PROVE  /\ Masked(writer.w) = _write_index
         /\ writer.w + 1 \in 0 .. 2 * Size - 1
         /\ Masked(writer.w + 1) = IF _write_index = Size - 1
                                     THEN 0 ELSE _write_index + 1
  BY MaskedValue, SizeAssumption DEF RingTypeOK, WriterInv, Indices

(* What each step does to the items between the indices: the store into the *)
(* reserved slot leaves them alone, the new write index adds the item, the  *)
(* new read index takes the oldest one away.                                *)
LEMMA StoreKeepsContents ==
  ASSUME RingTypeOK, WriterInv, PushStore
  PROVE  Fill' = Fill /\ \A i \in 1 .. Fill : Contents'[i] = Contents[i]
<1>1. Fill' = Fill
  BY DEF PushStore, Fill, Distance, Unwrapped
<1>2. ASSUME NEW i \in 1 .. Fill PROVE Contents'[i] = Contents[i]
  <2>1. Contents'[i] = _data'[Masked(_read_index' + i - 1)]
    BY <1>1 DEF Contents
  <2>2. _data'[Masked(_read_index + i - 1)] = _data[Masked(_read_index + i - 1)]
    BY SlotOf, ReservedSlot DEF PushStore, RingTypeOK
  <2> QED
    BY <2>1, <2>2, SlotOf DEF PushStore
<1> QED
  BY <1>1, <1>2

LEMMA PublishAppends ==
  ASSUME RingTypeOK, WriterInv, PushPublish
  PROVE  /\ Fill' = Fill + 1
         /\ \A i \in 1 .. Fill : Contents'[i] = Contents[i]
         /\ Contents'[Fill + 1] = writer.item
<1>1. writer.at = "publish" /\ Fill <= Size - 2 /\ UNCHANGED <<_read_index, _data>>
  BY DEF PushPublish, WriterInv
<1>2. _write_index' = IF _write_index = Size - 1 THEN 0 ELSE _write_index + 1
  BY <1>1, ReservedSlot DEF PushPublish
<1>3. Fill' = Fill + 1
  BY <1>1, <1>2, FillValue, SizeAssumption
  DEF RingTypeOK, Indices, Fill, Distance, Unwrapped
<1>4. ASSUME NEW i \in 1 .. Fill + 1
      PROVE  Contents'[i] = _data[Masked(_read_index + i - 1)]
  BY <1>1, <1>3 DEF Contents
<1>5. ASSUME NEW i \in 1 .. Fill PROVE Contents'[i] = Contents[i]
  BY <1>4, FillValue, SlotOf
<1>6. Masked(_read_index + (Fill + 1) - 1) = _write_index
  BY FillValue, MaskedValue, SizeAssumption DEF RingTypeOK, Indices
<1>7. Contents'[Fill + 1] = writer.item
  BY <1>1, <1>4, <1>6, FillValue DEF WriterInv
<1> QED
  BY <1>3, <1>5, <1>7

(* Whichever store comes first, the new write index leaves something to read. *)
LEMMA NotEmptyAfterPush ==
  ASSUME RingTypeOK, WriterInv, PushPublish \/ PushPublishEarly
  PROVE  ~ empty'
<1>1. /\ writer.at \in {"store", "publish"} /\ Fill <= Size - 2
      /\ _write_index' = Masked(writer.w + 1) /\ _read_index' = _read_index
  BY DEF PushPublish, PushPublishEarly, WriterInv
<1>2. _write_index' = IF _write_index = Size - 1 THEN 0 ELSE _write_index + 1
  BY <1>1, ReservedSlot
<1> QED
  BY <1>1, <1>2, FillValue, SizeAssumption DEF RingTypeOK, Indices, empty

LEMMA AdvanceRemoves ==
  ASSUME RingTypeOK, reader.at = "advance" => ~ empty, PopAdvance
  PROVE  /\ Fill' = Fill - 1
         /\ \A i \in 1 .. Fill - 1 : Contents'[i] = Contents[i + 1]
<1>1. reader.at = "advance" /\ ~ empty /\ UNCHANGED <<_write_index, _data>>
  BY DEF PopAdvance
<1>2. _read_index' = IF _read_index = Size - 1 THEN 0 ELSE _read_index + 1
  BY NextIndex DEF PopAdvance, RingTypeOK
<1>3. Fill' = Fill - 1
  BY <1>1, <1>2, FillValue, SizeAssumption
  DEF RingTypeOK, Indices, Fill, Distance, Unwrapped
<1>4. ASSUME NEW i \in 1 .. Fill - 1 PROVE Contents'[i] = Contents[i + 1]
  <2>1. Contents'[i] = _data[Masked(_read_index' + i - 1)]
    BY <1>1, <1>3 DEF Contents
  <2>2. Masked(_read_index' + i - 1) = Masked(_read_index + (i + 1) - 1)
    BY <1>2, FillValue, MaskedValue, SizeAssumption DEF RingTypeOK, Indices
  <2> QED
    BY <2>1, <2>2, SlotOf, FillValue
<1> QED
  BY <1>3, <1>4

------------------------------------------------------------------------------
LEMMA RingInvariance == RingSpec => []RingIInv
<1>1. RingInit => RingIInv
  BY SizeAssumption
  DEF RingInit, RingIInv, RingTypeOK, Consistent, WriterInv, ReaderInv, ContentsInv, Indices,
      Pointers, Fill, Distance, Unwrapped, empty
<1>2. RingTypeOK /\ RingTypeOK' /\ RingIInv /\ [RingNext]_ring => RingIInv'
  <2>0. [RingNext]_ring => in_order' = in_order
    BY DEF RingNext, ring
  <2> SUFFICES ASSUME RingTypeOK, RingTypeOK', in_order, Consistent, writer.at # "late", [RingNext]_ring
               PROVE  (Consistent /\ writer.at # "late")'
    BY <2>0 DEF RingIInv
  <2> USE DEF Consistent
  <2>1. ASSUME NEW item \in Pointers, PushCheck(item)
        PROVE  (Consistent /\ writer.at # "late")'
    <3>1. /\ writer'.at = "store" /\ writer'.item = item /\ item \in Items
          /\ writer'.w = Unwrapped(_write_index, _read_index)
          /\ UNCHANGED <<_write_index, _read_index, _data, reader>>
          /\ Fill <= Size - 2
      BY <2>1, FillValue, SizeAssumption
      DEF PushCheck, Pointers, Fill, Distance, Unwrapped
    <3>2. WriterInv'
      BY <3>1, FillValue
      DEF WriterInv, Fill, Distance, Unwrapped, RingTypeOK, Indices
    <3>3. ReaderInv' /\ ContentsInv'
      BY <3>1 DEF ReaderInv, ContentsInv, Contents, Fill, Distance, Unwrapped, empty
    <3> QED
      BY <3>1, <3>2, <3>3
  <2>2. CASE PushStore
    <3>1. /\ writer.at = "store" /\ writer'.at = "publish"
          /\ writer'.item = writer.item /\ writer'.w = writer.w
          /\ _data' = [_data EXCEPT ![_write_index] = writer.item]
          /\ UNCHANGED <<_write_index, _read_index, reader>>
      BY <2>2, ReservedSlot DEF PushStore, RingTypeOK
    <3>2. Fill' = Fill /\ \A i \in 1 .. Fill : Contents'[i] = Contents[i]
      BY <2>2, StoreKeepsContents
    <3>3. WriterInv'
      BY <3>1, <3>2 DEF WriterInv, RingTypeOK
    <3>4. ReaderInv'
      BY <3>1 DEF ReaderInv, RingTypeOK, empty
    <3>5. ContentsInv'
      BY <3>2 DEF ContentsInv
    <3> QED
      BY <3>1, <3>3, <3>4, <3>5
  <2>3. CASE PushPublish
    <3>1. /\ writer'.at = "idle" /\ writer.item \in Items
          /\ UNCHANGED <<_read_index, _data, reader>>
      BY <2>3 DEF PushPublish, WriterInv, RingTypeOK
    <3>2. /\ Fill' = Fill + 1
          /\ \A i \in 1 .. Fill : Contents'[i] = Contents[i]
          /\ Contents'[Fill + 1] = writer.item
      BY <2>3, PublishAppends
    <3>3. ContentsInv'
      BY <3>1, <3>2, FillValue, SizeAssumption DEF ContentsInv
    <3>4. ~ empty'
      BY <2>3, NotEmptyAfterPush
    <3> QED
      BY <3>1, <3>3, <3>4 DEF WriterInv, ReaderInv
  <2>4. CASE PushPublishEarly \/ PushStoreLate
    BY <2>4 DEF PushPublishEarly, PushStoreLate
  <2>5. CASE PopEmpty \/ PopCheck
    <3>1. /\ reader'.at = "idle" \/ (reader'.at = "load" /\ ~ empty)
          /\ UNCHANGED <<_write_index, _read_index, _data, writer>>
      BY <2>5 DEF PopEmpty, PopCheck, RingTypeOK
    <3> QED
      BY <3>1 DEF WriterInv, ReaderInv, ContentsInv, Contents, Fill, Distance,
                  Unwrapped, empty
  <2>6. CASE PopLoad
    BY <2>6 DEF PopLoad, WriterInv, ReaderInv, ContentsInv, Contents, Fill,
                Distance, Unwrapped, empty
  <2>7. CASE PopAdvance
    <3>1. reader'.at = "idle" /\ UNCHANGED <<_write_index, _data, writer>>
      BY <2>7 DEF PopAdvance, RingTypeOK
    <3>2. /\ Fill' = Fill - 1
          /\ \A i \in 1 .. Fill - 1 : Contents'[i] = Contents[i + 1]
      BY <2>7, AdvanceRemoves DEF ReaderInv
    <3>3. ContentsInv'
      BY <3>2, FillValue DEF ContentsInv
    <3>4. WriterInv'
      BY <3>1, <3>2, FillValue, SizeAssumption DEF WriterInv, RingTypeOK, Indices
    <3> QED
      BY <3>1, <3>3, <3>4 DEF ReaderInv
  <2>8. CASE UNCHANGED ring
    BY <2>8 DEF ring, WriterInv, ReaderInv, ContentsInv, Contents, Fill,
                Distance, Unwrapped, empty
  <2> QED
    BY <2>1, <2>2, <2>3, <2>4, <2>5, <2>6, <2>7, <2>8 DEF RingNext, push, pop
<1> QED
  BY <1>1, <1>2, RingTyping, PTL DEF RingSpec

(* One reader and one writer never disturb each other, for every size:     *)
(* wherever the two threads are inside push() and pop(), every slot        *)
(* between the indices holds an item somebody pushed, the reader's slot is *)
(* not overwritten and the writer's slot is not read.                      *)
THEOREM RingSafe == RingSpec => []RingInv
<1>1. RingIInv => RingInv
  BY DEF RingIInv, RingInv
<1> QED
  BY <1>1, RingInvariance, PTL

------------------------------------------------------------------------------
(* Stores in any order: a writer that has published its index and not yet   *)
(* filled the slot still knows that slot, the one before the write index.   *)
LateInv ==
  writer.at = "late" => writer.item \in Items /\ Masked(writer.w + 1) = _write_index

Youngest ==
  \A i \in 1 .. Fill : Contents[i] \in Items \/ (writer.at = "late" /\ i = Fill)

OInv ==
  /\ reader.at \in {"load", "advance"} => ~ empty
  /\ WriterInv
  /\ LateInv
  /\ Youngest

LEMMA EarlyAppends ==
  ASSUME RingTypeOK, WriterInv, PushPublishEarly
  PROVE  /\ Fill' = Fill + 1
         /\ \A i \in 1 .. Fill : Contents'[i] = Contents[i]
<1>1. writer.at = "store" /\ Fill <= Size - 2 /\ UNCHANGED <<_read_index, _data>>
  BY DEF PushPublishEarly, WriterInv
<1>2. _write_index' = IF _write_index = Size - 1 THEN 0 ELSE _write_index + 1
  BY <1>1, ReservedSlot DEF PushPublishEarly
<1>3. Fill' = Fill + 1
  BY <1>1, <1>2, FillValue, SizeAssumption
  DEF RingTypeOK, Indices, Fill, Distance, Unwrapped
<1>4. ASSUME NEW i \in 1 .. Fill PROVE Contents'[i] = Contents[i]
  BY <1>1, <1>3, FillValue, SlotOf DEF Contents
<1> QED
  BY <1>3, <1>4

(* The late store fills the youngest slot and no other one between the      *)
(* indices.                                                                 *)
LEMMA LateStore ==
  ASSUME RingTypeOK, LateInv, PushStoreLate, NEW i \in 1 .. Fill
  PROVE  /\ Fill' = Fill
         /\ Contents'[i] = IF i = Fill THEN writer.item ELSE Contents[i]
<1>1. /\ writer.at = "late" /\ Masked(writer.w + 1) = _write_index
      /\ _data' = [_data EXCEPT ![Masked(writer.w)] = writer.item]
      /\ UNCHANGED <<_write_index, _read_index>>
  BY DEF PushStoreLate, LateInv
<1>2. Fill' = Fill
  BY <1>1 DEF Fill, Distance, Unwrapped
<1>3. Masked(_read_index + i - 1) = Masked(writer.w) <=> i = Fill
  BY <1>1, FillValue, MaskedValue, SizeAssumption DEF RingTypeOK, Indices
<1>4. Masked(writer.w) \in Indices
  BY MaskedIndex, SizeAssumption DEF RingTypeOK
<1>5. Contents'[i] = _data'[Masked(_read_index + i - 1)]
  BY <1>1, <1>2 DEF Contents
<1> QED
  BY <1>1, <1>2, <1>3, <1>4, <1>5, SlotOf DEF RingTypeOK

LEMMA AnyOrder == RingSpec => [](RingTypeOK /\ OInv)
<1>1. RingInit => OInv
  BY SizeAssumption
  DEF RingInit, OInv, WriterInv, LateInv, Youngest, Fill, Distance, Unwrapped, empty
<1>2. RingTypeOK /\ RingTypeOK' /\ OInv /\ [RingNext]_ring => OInv'
  <2> SUFFICES ASSUME RingTypeOK, RingTypeOK', OInv, [RingNext]_ring PROVE OInv'
    OBVIOUS
  <2> USE DEF OInv
  <2>1. ASSUME NEW item \in Pointers, PushCheck(item) PROVE OInv'
    <3>1. /\ writer.at = "idle" /\ writer'.at = "store"
          /\ writer'.item = item /\ item \in Items
          /\ writer'.w = Unwrapped(_write_index, _read_index)
          /\ UNCHANGED <<_write_index, _read_index, _data, reader>>
          /\ Fill <= Size - 2
      BY <2>1, FillValue, SizeAssumption
      DEF PushCheck, Pointers, Fill, Distance, Unwrapped
    <3>2. WriterInv'
      BY <3>1, FillValue
      DEF WriterInv, Fill, Distance, Unwrapped, RingTypeOK, Indices
    <3>3. Youngest'
      BY <3>1 DEF Youngest, Contents, Fill, Distance, Unwrapped
    <3> QED
      BY <3>1, <3>2, <3>3 DEF LateInv, empty
  <2>2. CASE PushStore
    <3>1. /\ writer.at = "store" /\ writer'.at = "publish"
          /\ writer'.item = writer.item /\ writer'.w = writer.w
          /\ _data' = [_data EXCEPT ![_write_index] = writer.item]
          /\ UNCHANGED <<_write_index, _read_index, reader>>
      BY <2>2, ReservedSlot DEF PushStore, RingTypeOK
    <3>2. Fill' = Fill /\ \A i \in 1 .. Fill : Contents'[i] = Contents[i]
      BY <2>2, StoreKeepsContents
    <3>3. WriterInv'
      BY <3>1, <3>2 DEF WriterInv, RingTypeOK
    <3>4. Youngest'
      BY <3>1, <3>2 DEF Youngest
    <3> QED
      BY <3>1, <3>3, <3>4 DEF LateInv, empty
  <2>3. CASE PushPublish
    <3>1. /\ writer.at = "publish" /\ writer'.at = "idle" /\ writer.item \in Items
          /\ UNCHANGED <<_read_index, _data, reader>>
      BY <2>3 DEF PushPublish, WriterInv, RingTypeOK
    <3>2. /\ Fill' = Fill + 1
          /\ \A i \in 1 .. Fill : Contents'[i] = Contents[i]
          /\ Contents'[Fill + 1] = writer.item
      BY <2>3, PublishAppends
    <3>3. Youngest'
      BY <3>1, <3>2, FillValue DEF Youngest
    <3>4. ~ empty'
      BY <2>3, NotEmptyAfterPush
    <3> QED
      BY <3>1, <3>3, <3>4 DEF WriterInv, LateInv
  <2>4. CASE PushPublishEarly
    <3>1. /\ writer.at = "store" /\ writer'.at = "late" /\ writer.item \in Items
          /\ writer'.item = writer.item /\ writer'.w = writer.w
          /\ _write_index' = Masked(writer.w + 1)
          /\ UNCHANGED <<_read_index, _data, reader>>
      BY <2>4 DEF PushPublishEarly, WriterInv, RingTypeOK
    <3>2. Fill' = Fill + 1 /\ \A i \in 1 .. Fill : Contents'[i] = Contents[i]
      BY <2>4, EarlyAppends
    <3>3. Youngest'
      BY <3>1, <3>2, FillValue DEF Youngest
    <3>4. ~ empty'
      BY <2>4, NotEmptyAfterPush
    <3> QED
      BY <3>1, <3>3, <3>4 DEF WriterInv, LateInv
  <2>5. CASE PushStoreLate
    <3>1. /\ writer.at = "late" /\ writer'.at = "idle" /\ writer.item \in Items
          /\ UNCHANGED <<_write_index, _read_index, reader>>
      BY <2>5 DEF PushStoreLate, LateInv, RingTypeOK
    <3>2. Fill' = Fill
      BY <3>1 DEF Fill, Distance, Unwrapped
    <3>3. ASSUME NEW i \in 1 .. Fill PROVE Contents'[i] \in Items
      BY <2>5, <3>1, <3>3, LateStore DEF Youngest
    <3> QED
      BY <3>1, <3>2, <3>3 DEF Youngest, WriterInv, LateInv, empty
  <2>6. CASE PopEmpty \/ PopCheck \/ PopLoad
    <3>1. /\ reader'.at \in {"load", "advance"} => ~ empty
          /\ UNCHANGED <<_write_index, _read_index, _data, writer>>
      BY <2>6 DEF PopEmpty, PopCheck, PopLoad, RingTypeOK
    <3> QED
      BY <3>1 DEF WriterInv, LateInv, Youngest, Contents, Fill, Distance, Unwrapped, empty
  <2>7. CASE PopAdvance
    <3>1. reader'.at = "idle" /\ UNCHANGED <<_write_index, _data, writer>>
      BY <2>7 DEF PopAdvance, RingTypeOK
    <3>2. /\ Fill' = Fill - 1
          /\ \A i \in 1 .. Fill - 1 : Contents'[i] = Contents[i + 1]
      BY <2>7, AdvanceRemoves
    <3>3. Youngest'
      BY <3>1, <3>2, FillValue DEF Youngest
    <3>4. WriterInv'
      BY <3>1, <3>2, FillValue, SizeAssumption DEF WriterInv, RingTypeOK, Indices
    <3> QED
      BY <3>1, <3>3, <3>4 DEF LateInv
  <2>8. CASE UNCHANGED ring
    BY <2>8 DEF ring, WriterInv, LateInv, Youngest, Contents, Fill, Distance,
                Unwrapped, empty
  <2> QED
    BY <2>1, <2>2, <2>3, <2>4, <2>5, <2>6, <2>7, <2>8 DEF RingNext, push, pop
<1> QED
  BY <1>1, <1>2, RingTyping, PTL DEF RingSpec

(* Whatever the order of the stores, the indices alone keep the two threads *)
(* apart, for every size: a slot that is read before it is filled is the    *)
(* youngest one, and its writer is on its way to fill it.                   *)
THEOREM YoungestOnly == RingSpec => []OnlyYoungestUnfilled
<1>1. OInv => OnlyYoungestUnfilled
  BY DEF OInv, OnlyYoungestUnfilled, WriterInv, Youngest
<1> QED
  BY <1>1, AnyOrder, PTL

------------------------------------------------------------------------------
(* The refinement. *)

LEMMA FunctionIsSeq ==
  ASSUME NEW S, NEW n \in Nat, NEW f \in [1 .. n -> S]
  PROVE  f \in Seq(S) /\ Len(f) = n
<1>1. f \in Seq(S)
  BY SeqDef
<1> QED
  BY <1>1, LenProperties

LEMMA ContentsSeq ==
  ASSUME RingTypeOK
  PROVE  Contents \in Seq(Pointers) /\ Len(Contents) = Fill
<1>1. Contents \in [1 .. Fill -> Pointers]
  BY SlotOf DEF RingTypeOK, Contents
<1> QED
  BY <1>1, FillValue, FunctionIsSeq

(* The same of the next state, for a step whose effect is known. *)
LEMMA NextContentsSeq ==
  ASSUME Fill' \in Nat, \A i \in 1 .. Fill' : Contents'[i] \in Pointers
  PROVE  Contents' \in Seq(Pointers) /\ Len(Contents') = Fill'
<1>1. Contents' \in [1 .. Fill' -> Pointers]
  BY DEF Contents
<1> QED
  BY <1>1, FunctionIsSeq

(* The ring buffer implements the bounded FIFO queue, for every size.      *)
THEOREM RingImplementsFifo == RingSpec => ImplementsFifo
<1>1. RingInit => Fifo!Init
  <2> SUFFICES ASSUME RingInit PROVE Fifo!Init
    OBVIOUS
  <2>1. RingTypeOK /\ Fill = 0 /\ reader = [at |-> "idle", retval |-> Null]
    BY SizeAssumption
    DEF RingInit, RingTypeOK, Indices, Pointers, Fill, Distance, Unwrapped
  <2>2. Contents = <<>>
    BY <2>1, ContentsSeq, EmptySeq
  <2> QED
    BY <2>1, <2>2 DEF Fifo!Init, Queue, Received
<1>2. RingIInv /\ RingIInv' /\ [RingNext]_ring => [Fifo!Next]_(Fifo!vars)
  <2>a. [RingNext]_ring => in_order' = in_order
    BY DEF RingNext, ring
  <2>b. ~ in_order /\ [RingNext]_ring => UNCHANGED Fifo!vars
    BY <2>a DEF Fifo!vars, Queue, Received
  <2> SUFFICES ASSUME RingTypeOK, in_order, in_order', Consistent, writer.at # "late", [RingNext]_ring
               PROVE  Fifo!Next \/ UNCHANGED <<Queue, reader.retval>>
    BY <2>a, <2>b DEF RingIInv, Fifo!vars, Received
  <2> USE DEF Consistent, Queue, Received
  <2>0. Contents \in Seq(Pointers) /\ Len(Contents) = Fill /\ Fill \in Nat
    BY ContentsSeq, FillValue
  <2>1. ASSUME NEW item \in Pointers, PushCheck(item)
        PROVE  UNCHANGED <<Queue, reader.retval>>
    BY <2>1 DEF PushCheck, Contents, Fill, Distance, Unwrapped
  <2>2. CASE PushStore
    <3>1. UNCHANGED reader
      BY <2>2 DEF PushStore
    <3>2. Fill' = Fill /\ \A i \in 1 .. Fill : Contents'[i] = Contents[i]
      BY <2>2, StoreKeepsContents
    <3>3. Contents' \in Seq(Pointers) /\ Len(Contents') = Fill'
      BY <2>0, <3>2, NextContentsSeq, ElementOfSeq
    <3>4. Contents' = Contents
      BY <2>0, <3>2, <3>3, SeqEqual
    <3> QED
      BY <3>1, <3>4
  <2>3. CASE PushPublish
    <3>1. writer.at = "publish" /\ writer.item \in Items /\ UNCHANGED reader
      BY <2>3 DEF PushPublish, WriterInv
    <3>2. /\ Fill' = Fill + 1
          /\ \A i \in 1 .. Fill : Contents'[i] = Contents[i]
          /\ Contents'[Fill + 1] = writer.item
      BY <2>3, PublishAppends
    <3>3. Contents' \in Seq(Pointers) /\ Len(Contents') = Fill'
      BY <2>0, <3>1, <3>2, NextContentsSeq, ElementOfSeq DEF Pointers
    <3>4. Contents' = Append(Contents, writer.item)
      BY <2>0, <3>1, <3>2, <3>3, SeqEqual, AppendProperties DEF Pointers
    <3>5. Queue' = Append(Queue, writer.item)
      <4>1. CASE reader.at = "advance"
        <5>1. Contents # <<>>
          BY <4>1, <2>0, FillValue, EmptySeq DEF ReaderInv
        <5> QED
          BY <3>1, <3>4, <4>1, <5>1, <2>0, HeadTailAppend
      <4> QED
        BY <3>1, <3>4, <4>1
    <3>6. Len(Queue) < Size - 1
      <4>1. Fill <= Size - 2
        BY <3>1 DEF WriterInv
      <4>2. CASE reader.at = "advance"
        <5>1. Contents # <<>>
          BY <4>2, <2>0, FillValue, EmptySeq DEF ReaderInv
        <5> QED
          BY <4>1, <4>2, <5>1, <2>0, HeadTailProperties, SizeAssumption
      <4> QED
        BY <4>1, <4>2, <2>0, SizeAssumption
    <3> QED
      BY <3>1, <3>5, <3>6 DEF Fifo!Next, Fifo!Send
  <2>4. CASE PushPublishEarly \/ PushStoreLate
    BY <2>4 DEF PushPublishEarly, PushStoreLate
  <2>5. CASE PopEmpty
    <3>1. Contents = <<>> /\ reader.at = "idle"
      BY <2>5, <2>0, FillValue, EmptySeq DEF PopEmpty
    <3>2. /\ Contents' = Contents
          /\ reader'.at = "idle" /\ reader'.retval = Null
      BY <2>5 DEF PopEmpty, Contents, Fill, Distance, Unwrapped
    <3> QED
      BY <3>1, <3>2 DEF Fifo!Next, Fifo!FindEmpty
  <2>6. CASE PopCheck
    <3>1. reader.at = "idle" /\ reader'.at = "load" /\ reader'.retval = reader.retval
      BY <2>6 DEF PopCheck, RingTypeOK
    <3>2. Contents' = Contents
      BY <2>6 DEF PopCheck, Contents, Fill, Distance, Unwrapped
    <3> QED
      BY <3>1, <3>2
  <2>7. CASE PopLoad
    <3>1. /\ reader.at = "load" /\ ~ empty
          /\ reader' = [at |-> "advance", retval |-> _data[_read_index]]
      BY <2>7 DEF PopLoad, ReaderInv
    <3>2. Contents' = Contents
      BY <2>7 DEF PopLoad, Contents, Fill, Distance, Unwrapped
    <3>3. Contents # <<>> /\ Head(Contents) = _data[_read_index]
      BY <3>1, <2>0, OldestSlot, FillValue, EmptySeq
    <3> QED
      BY <3>1, <3>2, <3>3 DEF Fifo!Next, Fifo!Receive
  <2>8. CASE PopAdvance
    <3>1. /\ reader.at = "advance" /\ reader'.at = "idle"
          /\ reader'.retval = reader.retval /\ ~ empty
      BY <2>8 DEF PopAdvance, RingTypeOK, ReaderInv
    <3>2. /\ Fill' = Fill - 1
          /\ \A i \in 1 .. Fill - 1 : Contents'[i] = Contents[i + 1]
      BY <2>8, AdvanceRemoves DEF ReaderInv
    <3>3. Contents # <<>> /\ Fill - 1 \in Nat
      BY <3>1, <2>0, FillValue, EmptySeq
    <3>4. Contents' \in Seq(Pointers) /\ Len(Contents') = Fill - 1
      BY <2>0, <3>2, <3>3, NextContentsSeq, ElementOfSeq
    <3>5. Contents' = Tail(Contents)
      BY <2>0, <3>2, <3>3, <3>4, HeadTailProperties, SeqEqual
    <3> QED
      BY <3>1, <3>5
  <2>9. CASE UNCHANGED ring
    <3>1. UNCHANGED reader /\ Contents' = Contents
      BY <2>9 DEF ring, Contents, Fill, Distance, Unwrapped
    <3> QED
      BY <3>1
  <2> QED
    BY <2>1, <2>2, <2>3, <2>4, <2>5, <2>6, <2>7, <2>8, <2>9 DEF RingNext, push, pop
<1> QED
  BY <1>1, <1>2, RingInvariance, PTL DEF RingSpec, ImplementsFifo, Fifo!Spec
==============================================================================
