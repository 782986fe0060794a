----------------------------- MODULE BoundedFifo -----------------------------
(***************************************************************************)
(* What a first-in-first-out queue between one writer and one reader       *)
(* promises: items come out in the order in which they went in, each of    *)
(* them once, and at most Capacity of them are inside.  LockFreeFifo is    *)
(* shown to implement this specification.                                  *)
(***************************************************************************)
EXTENDS Naturals, Sequences

CONSTANTS Items,     \* what may be queued
          Null,      \* the answer of a reader that finds nothing
          Capacity   \* how many items the queue can hold

VARIABLES queue,     \* the items inside, oldest first
          received   \* the answer the reader got last

vars == <<queue, received>>

Init == queue = <<>> /\ received = Null

Send(item) ==
  /\ Len(queue) < Capacity
  /\ queue' = Append(queue, item)
  /\ UNCHANGED received

Receive ==
  /\ queue # <<>>
  /\ received' = Head(queue)
  /\ queue' = Tail(queue)

\* The reader may also find nothing, but only where nothing is inside.
FindEmpty ==
  /\ queue = <<>>
  /\ received' = Null
  /\ UNCHANGED queue

Next == (\E item \in Items : Send(item)) \/ Receive \/ FindEmpty

Spec == Init /\ [][Next]_vars
==============================================================================
