----------------------------- MODULE FilterQueues ----------------------------
(***************************************************************************)
(* The filter pointers of apf::conv::Output and the queues in front of     *)
(* them.  A new filter takes effect partition by partition: partition k is *)
(* k - 1 audio blocks late, so that every input block meets one filter     *)
(* only.  Queue q, for partition q + 1, has q places; rotate_queues() is   *)
(* called once per block.                                                  *)
(*                                                                         *)
(* A filter is the sequence of the pointers to its partitions.             *)
(***************************************************************************)
EXTENDS Naturals, Sequences

CONSTANTS Partitions,      \* how many partitions are convolved
          EmptyPartition,  \* &_empty_partition
          Null             \* nullptr

ASSUME PartitionsAssumption == Partitions \in Nat \ {0}

NoFilter == [k \in 1 .. Partitions |-> EmptyPartition]

EmptyQueues == [q \in 1 .. Partitions - 1 |-> [place \in 1 .. q |-> Null]]

\* set_filter(): the first partition is exchanged at once, the others are put
\* at the ends of their queues.  What is missing is zero, what is too much is
\* ignored.
SetPointers(_filter_ptrs, filter) == [_filter_ptrs EXCEPT ![1] = filter[1]]

SetQueues(_queues, filter) ==
  [q \in 1 .. Partitions - 1 |->
     [_queues[q] EXCEPT ![q] =
        IF q + 1 <= Len(filter) THEN filter[q + 1] ELSE EmptyPartition]]

\* queues_empty() looks at the last queue only.
queues_empty(_queues) ==
  Partitions = 1 \/ \A place \in 1 .. Partitions - 1 :
                      _queues[Partitions - 1][place] = Null

\* rotate_queues(): the valid ones of the first places take effect.
RotatePointers(_filter_ptrs, _queues) ==
  [k \in 1 .. Partitions |->
     IF k > 1 /\ _queues[k - 1][1] # Null THEN _queues[k - 1][1]
                                          ELSE _filter_ptrs[k]]

RotateQueues(_queues) ==
  [q \in 1 .. Partitions - 1 |-> [place \in 1 .. q |->
     IF place < q THEN _queues[q][place + 1] ELSE Null]]
==============================================================================
