----------------------------- MODULE LockFreeFifo ----------------------------
(***************************************************************************)
(* apf::LockFreeFifo<T*>, the ring buffer between one writing and one      *)
(* reading thread.  Each access to a shared word (_read_index,             *)
(* _write_index or a slot of _data) is a step of its own; what a thread    *)
(* computes on its local copies is part of the step that read them.        *)
(*                                                                         *)
(* The two indices are volatile, the slots are not, and there is no fence: *)
(* only the indices keep their order among themselves.  Whether the store  *)
(* into the slot also stays before the store of the index is a property of *)
(* the compiler and the processor, in_order (x86 keeps it, ARM need not).  *)
(***************************************************************************)
EXTENDS Integers, Sequences

CONSTANTS Items,    \* the pointers that may be pushed
          Null,     \* nullptr
          Size      \* _size: the requested size, rounded up to a power of 2

ASSUME SizeAssumption ==
  /\ Size \in Nat
  /\ Size >= 2
  /\ \E k \in 1..Size : Size = 2^k

ASSUME ItemsAssumption == Null \notin Items

VARIABLES
  in_order,                   \* are the stores of push() seen in program order?
  _write_index, _read_index,  \* the shared indices
  _data,                      \* the ring buffer
  writer,                     \* the thread in push(): where it is, w and item
  reader                      \* the thread in pop(): where it is, its return value

ring == <<in_order, _write_index, _read_index, _data, writer, reader>>

Indices == 0 .. Size - 1
Pointers == Items \cup {Null}

\* "i & _size_mask": Size is a power of 2 and i is never beyond 2 * Size - 1.
Masked(i) == i % Size

\* "if (w < r) w += _size" and "w-r": the number of items between two indices.
Unwrapped(w, r) == IF w < r THEN w + Size ELSE w
Distance(w, r) == Unwrapped(w, r) - r

empty == _read_index = _write_index

RingInit ==
  /\ in_order \in BOOLEAN
  /\ _write_index = 0
  /\ _read_index = 0
  /\ _data = [i \in Indices |-> Null]
  /\ writer = [at |-> "idle", w |-> 0, item |-> Null]
  /\ reader = [at |-> "idle", retval |-> Null]

------------------------------------------------------------------------------
(* push() *)

\* Read _read_index, compare it with the writer's own _write_index, and either
\* return false or go on to fill the slot.  A null item is refused at once.
PushCheck(item) ==
  /\ writer.at = "idle"
  /\ item # Null
  /\ ~ (Distance(_write_index, _read_index) > Size - 2)
  /\ writer' = [at |-> "store", item |-> item,
                w |-> Unwrapped(_write_index, _read_index)]
  /\ UNCHANGED <<_write_index, _read_index, _data, reader>>

PushStore ==
  /\ writer.at = "store"
  /\ _data' = [_data EXCEPT ![Masked(writer.w)] = writer.item]
  /\ writer' = [writer EXCEPT !.at = "publish"]
  /\ UNCHANGED <<_write_index, _read_index, reader>>

PushPublish ==
  /\ writer.at = "publish"
  /\ _write_index' = Masked(writer.w + 1)
  /\ writer' = [writer EXCEPT !.at = "idle"]
  /\ UNCHANGED <<_read_index, _data, reader>>

\* Mutant: the processor is not known to reorder stores, but does.
Mutant_NoBarrier ==
  /\ writer.at = "store"
  /\ _write_index' = Masked(writer.w + 1)
  /\ writer' = [writer EXCEPT !.at = "late"]
  /\ UNCHANGED <<_read_index, _data, reader>>

\* The two stores the other way round, where nothing keeps their order.
PushPublishEarly ==
  /\ ~ in_order
  /\ writer.at = "store"
  /\ _write_index' = Masked(writer.w + 1)
  /\ writer' = [writer EXCEPT !.at = "late"]
  /\ UNCHANGED <<_read_index, _data, reader>>

PushStoreLate ==
  /\ writer.at = "late"
  /\ _data' = [_data EXCEPT ![Masked(writer.w)] = writer.item]
  /\ writer' = [writer EXCEPT !.at = "idle"]
  /\ UNCHANGED <<_write_index, _read_index, reader>>

push ==
  \/ \E item \in Pointers : PushCheck(item)
  \/ PushStore
  \/ PushPublish
  \/ PushPublishEarly
  \/ PushStoreLate

------------------------------------------------------------------------------
(* pop() *)

PopEmpty ==
  /\ reader.at = "idle"
  /\ empty
  /\ reader' = [at |-> "idle", retval |-> Null]
  /\ UNCHANGED <<_write_index, _read_index, _data, writer>>

PopCheck ==
  /\ reader.at = "idle"
  /\ ~ empty
  /\ reader' = [reader EXCEPT !.at = "load"]
  /\ UNCHANGED <<_write_index, _read_index, _data, writer>>

\* Mutant: the slot is given back before it is read.
Mutant_AdvanceFirst ==
  /\ reader.at = "load"
  /\ _read_index' = Masked(_read_index + 1)
  /\ reader' = [at |-> "idle", retval |-> _data[Masked(_read_index + 1)]]
  /\ UNCHANGED <<_write_index, _data, writer>>

PopLoad ==
  /\ reader.at = "load"
  /\ reader' = [at |-> "advance", retval |-> _data[_read_index]]
  /\ UNCHANGED <<_write_index, _read_index, _data, writer>>

PopAdvance ==
  /\ reader.at = "advance"
  /\ _read_index' = Masked(_read_index + 1)
  /\ reader' = [reader EXCEPT !.at = "idle"]
  /\ UNCHANGED <<_write_index, _data, writer>>

pop == PopEmpty \/ PopCheck \/ PopLoad \/ PopAdvance

RingNext == (push \/ pop) /\ UNCHANGED in_order

RingSpec == RingInit /\ [][RingNext]_ring

------------------------------------------------------------------------------
(* Properties *)

\* Type invariant: both indices stay inside the buffer, and each thread's
\* local copies are what push() and pop() may hold at that point.
RingTypeOK ==
  /\ in_order \in BOOLEAN
  /\ _write_index \in Indices
  /\ _read_index \in Indices
  /\ _data \in [Indices -> Pointers]
  /\ writer \in [at : {"idle", "store", "publish", "late"},
                 w : 0 .. 2 * Size - 2, item : Pointers]
  /\ reader \in [at : {"idle", "load", "advance"}, retval : Pointers]

Fill == Distance(_write_index, _read_index)

\* The items between the two indices, oldest first.
Contents == [i \in 1..Fill |-> _data[Masked(_read_index + i - 1)]]

\* The writer's reservation: between its check and the store of the new index
\* the slot it fills stays the one at _write_index, and one more item fits.
WriterInv ==
  writer.at \in {"store", "publish"} =>
    /\ writer.item \in Items
    /\ writer.w = _write_index \/ writer.w = _write_index + Size
    /\ Fill <= Size - 2
    /\ writer.at = "publish" => _data[_write_index] = writer.item

\* The reader's claim: between its empty test and the store of the new index
\* the slot at _read_index holds an item, and the one it loaded.
ReaderInv ==
  /\ reader.at \in {"load", "advance"} => ~ empty
  /\ reader.at = "advance" => reader.retval = _data[_read_index]

\* Every slot between the indices holds an item somebody pushed: pop() never
\* answers with a slot that was not filled (lockfreefifo.h:124).
ContentsInv == \A i \in 1..Fill : Contents[i] \in Items

Consistent == WriterInv /\ ReaderInv /\ ContentsInv

\* With stores seen in order the buffer is consistent in the middle of push()
\* and pop() of the two threads, wherever each of them is: what "thread-safe for
\* single reader/single writer access" (lockfreefifo.h:40) needs of every state.
RingInv == in_order => Consistent

\* Whatever the order of the two stores, the indices alone keep the writer off
\* the slots of the reader: only the youngest slot can be read too early.
OnlyYoungestUnfilled ==
  /\ reader.at \in {"load", "advance"} => ~ empty
  /\ writer.at = "store" => Fill <= Size - 2
  /\ \A i \in 1..Fill :
       Contents[i] \notin Items => writer.at = "late" /\ i = Fill

\* The loaded item has left the queue, though its slot is still taken.
Queue ==
  IF ~ in_order THEN <<>>
  ELSE IF reader.at = "advance" THEN Tail(Contents) ELSE Contents

Received == IF in_order THEN reader.retval ELSE Null

Fifo == INSTANCE BoundedFifo WITH
          Capacity <- Size - 1, queue <- Queue, received <- Received

\* With stores seen in order, the ring buffer is a FIFO queue of Size - 1 items:
\* every item pushed with result true is returned by pop() once, in order, and
\* "nothing there" is answered only when the queue is empty.
ImplementsFifo == Fifo!Spec
==============================================================================
