--------------------------- MODULE ConvolverProofs ---------------------------
(***************************************************************************)
(* What holds of the convolver for every number of partitions, every set   *)
(* of filters and all input.                                               *)
(***************************************************************************)
EXTENDS Convolver, WellFoundedInduction, TLAPS

AnyQueues == [q \in 1 .. Partitions - 1 |-> [place \in 1 .. q |-> _queues[q][place]]]

\* The shape of the variables that TypeOK leaves open.
ShapeInv == _queues = AnyQueues

LEMMA PointersOf ==
  ASSUME NEW f \in Filters
  PROVE  /\ Pointers(f) \in Seq(AnyPointer)
         /\ Len(Pointers(f)) = f.size
         /\ \A k \in 1 .. f.size : /\ Pointers(f)[k] = [of |-> f, partition |-> k]
                                   /\ Pointers(f)[k] \notin {Null, EmptyPartition}
<1>1. f.size \in Nat
  BY FiltersAssumption
<1>2. \A k \in 1 .. f.size : /\ Pointers(f)[k] = [of |-> f, partition |-> k]
                             /\ Pointers(f)[k] \in AnyPointer
  BY DEF Pointers, AnyPointer
<1>3. Pointers(f) \in [1 .. f.size -> AnyPointer]
  BY <1>2 DEF Pointers
<1>4. Pointers(f) \in Seq(AnyPointer) /\ Len(Pointers(f)) = f.size
  BY <1>1, <1>3
<1> QED
  BY <1>2, <1>4, PointersAssumption

\* What set_filter() puts where: the partitions of the filter.
LEMMA SetParts ==
  ASSUME NEW f \in Filters
  PROVE  /\ Pointers(f)[1] = PartitionOf(f, 1)
         /\ \A q \in Nat \ {0} :
              (IF q + 1 <= Len(Pointers(f)) THEN Pointers(f)[q + 1] ELSE EmptyPartition)
              = PartitionOf(f, q + 1)
<1>1. f # None /\ f.size \in Nat \ {0}
  BY FiltersAssumption
<1> QED
  BY <1>1, PointersOf DEF PartitionOf

LEMMA PartTypes ==
  ASSUME NEW f \in Filters \cup {None}, NEW k \in Nat \ {0}
  PROVE  PartitionOf(f, k) \in AnyPointer /\ PartitionOf(f, k) # Null
<1>1. CASE f = None
  BY <1>1, PointersAssumption DEF PartitionOf, AnyPointer
<1>2. CASE f \in Filters
  <2>1. f.size \in Nat
    BY <1>2, FiltersAssumption
  <2>2. EmptyPartition \in AnyPointer
    BY DEF AnyPointer
  <2>3. \A j \in 1 .. f.size : Pointers(f)[j] \in AnyPointer
    BY <1>2, <2>1, PointersOf
  <2>4. CASE k <= f.size
    <3>1. PartitionOf(f, k) = Pointers(f)[k]
      BY <1>2, <2>4, FiltersAssumption DEF PartitionOf
    <3>2. k \in 1 .. f.size
      BY <2>1, <2>4
    <3>3. Pointers(f)[k] # Null
      BY <1>2, <3>2, PointersOf
    <3> QED
      BY <2>3, <3>1, <3>2, <3>3
  <2>5. CASE ~ (k <= f.size)
    BY <2>2, <2>5, PointersAssumption DEF PartitionOf
  <2> QED
    BY <2>4, <2>5
<1> QED
  BY <1>1, <1>2

------------------------------------------------------------------------------
(* Type correctness *)

\* Types, for any number of partitions: never is a null pointer taken from a
\* queue.
THEOREM Typing == Spec => [](TypeOK /\ ShapeInv)
<1> USE PartitionsAssumption
<1>1. Init => TypeOK /\ ShapeInv
  <2> SUFFICES ASSUME Init PROVE TypeOK /\ ShapeInv
    OBVIOUS
  <2>1. EmptyPartition \in AnyPointer
    BY DEF AnyPointer
  <2>2. \A q \in 1 .. Partitions - 1 : _queues[q] = [place \in 1 .. q |-> Null]
    BY DEF Init, EmptyQueues
  <2>3. TypeOK
    BY <2>1, <2>2 DEF Init, TypeOK, NoFilter, FreshNode, Node
  <2>4. AnyQueues = EmptyQueues
    BY <2>2 DEF AnyQueues, EmptyQueues
  <2> QED
    BY <2>3, <2>4 DEF ShapeInv, Init
<1>2. TypeOK /\ ShapeInv /\ [Next]_vars => TypeOK' /\ ShapeInv'
  <2> SUFFICES ASSUME TypeOK, ShapeInv, [Next]_vars PROVE TypeOK' /\ ShapeInv'
    OBVIOUS
  <2>1. ASSUME NEW block \in Blocks \cup {Silence}, add_block(block)
        PROVE  TypeOK' /\ ShapeInv'
    <3> DEFINE Halves == Blocks \cup {Silence, Garbage}
               Nodes == [zero : BOOLEAN, first : Halves, second : Halves, fft : BOOLEAN]
    <3>1. \A node \in Nodes : /\ FillFirst(node, block) \in Nodes
                              /\ FillFirst(node, Silence) \in Nodes
                              /\ FillSecond(node, block) \in Nodes
                              /\ FillSecond(node, Silence) \in Nodes
      BY DEF FillFirst, FillSecond
    <3>2. \A node \in Nodes : Current(node, block) \in Nodes
      <4> SUFFICES ASSUME NEW node \in Nodes PROVE Current(node, block) \in Nodes
        OBVIOUS
      <4>1. FillSecond(FillFirst(node, Silence), block) \in Nodes
        BY DEF FillFirst, FillSecond
      <4> QED
        BY <3>1, <4>1 DEF Current
    <3>3. \A node \in Nodes : Upcoming(node, block) \in Nodes
      BY <3>1 DEF Upcoming
    <3>4. spectra' \in [1 .. Partitions + 1 -> Nodes]
      <4>1. spectra \in [1 .. Partitions + 1 -> Nodes]
        BY DEF TypeOK
      <4>2. \A p \in 1 .. Partitions + 1 : spectra[p] \in Nodes
        BY <4>1
      <4>3. \A p \in 1 .. Partitions + 1 : p # 1 => spectra[p - 1] \in Nodes
        BY <4>2
      <4>4. spectra[Partitions] \in Nodes /\ spectra[Partitions + 1] \in Nodes
        BY <4>2
      <4> HIDE DEF Nodes
      <4> QED
        BY <2>1, <3>2, <3>3, <4>3, <4>4 DEF add_block
    <3>5. blocks' \in [0 .. Partitions -> Blocks \cup {Silence}]
      BY <2>1 DEF add_block, TypeOK
    <3>6. chosen' \in [0 .. Partitions - 1 -> Filters \cup {None}]
      BY <2>1 DEF add_block, TypeOK
    <3>7. at' = "rotate" /\ UNCHANGED <<_filter_ptrs, _queues>>
      BY <2>1 DEF add_block
    <3> QED
      BY <3>4, <3>5, <3>6, <3>7 DEF TypeOK, ShapeInv, AnyQueues
  <2>2. CASE rotate_queues
    <3>1. CASE queues_empty(_queues)
      BY <2>2, <3>1 DEF rotate_queues, TypeOK, ShapeInv, AnyQueues
    <3>2. CASE ~ queues_empty(_queues)
      <4>1. /\ _filter_ptrs' = RotatePointers(_filter_ptrs, _queues)
            /\ _queues' = RotateQueues(_queues)
            /\ at' = "set_filter"
            /\ UNCHANGED <<spectra, blocks, chosen>>
        BY <2>2, <3>2 DEF rotate_queues
      <4>2. \A q \in 1 .. Partitions - 1 : \A place \in 1 .. q :
              _queues[q][place] \in AnyPointer \cup {Null}
        BY DEF TypeOK
      <4>3. \A q \in 1 .. Partitions - 1 :
              _queues'[q] = [place \in 1 .. q |-> IF place < q THEN _queues[q][place + 1]
                                                             ELSE Null]
        BY <4>1 DEF RotateQueues
      <4>4. \A q \in 1 .. Partitions - 1 : _queues'[q] \in [1 .. q -> AnyPointer \cup {Null}]
        <5> SUFFICES ASSUME NEW q \in 1 .. Partitions - 1
                     PROVE  _queues'[q] \in [1 .. q -> AnyPointer \cup {Null}]
          OBVIOUS
        <5>1. \A place \in 1 .. q : place < q => place + 1 \in 1 .. q
          OBVIOUS
        <5>2. \A place \in 1 .. q :
                (IF place < q THEN _queues[q][place + 1] ELSE Null) \in AnyPointer \cup {Null}
          BY <4>2, <5>1
        <5> QED
          BY <4>3, <5>2
      <4>5. \A k \in 1 .. Partitions :
              k > 1 /\ _queues[k - 1][1] # Null => _queues[k - 1][1] \in AnyPointer
        BY <4>2
      <4>6. _filter_ptrs' \in [1 .. Partitions -> AnyPointer]
        BY <4>1, <4>5 DEF RotatePointers, TypeOK
      <4>7. TypeOK'
        BY <4>1, <4>4, <4>6 DEF TypeOK
      <4>8. ShapeInv'
        BY <4>1, <4>3 DEF ShapeInv, AnyQueues, RotateQueues
      <4> QED
        BY <4>7, <4>8
    <3> QED
      BY <3>1, <3>2
  <2>3. ASSUME NEW f \in Filters, set_filter(f) PROVE TypeOK' /\ ShapeInv'
    <3>1. /\ _filter_ptrs' = [_filter_ptrs EXCEPT ![1] = Pointers(f)[1]]
          /\ _queues' = SetQueues(_queues, Pointers(f))
          /\ chosen' = [chosen EXCEPT ![0] = f]
          /\ at' = "convolve"
          /\ UNCHANGED <<spectra, blocks>>
      BY <2>3 DEF set_filter, SetPointers
    <3>2. \A q \in 1 .. Partitions - 1 :
            _queues'[q] = [_queues[q] EXCEPT ![q] = PartitionOf(f, q + 1)]
      BY <3>1, SetParts DEF SetQueues
    <3>3. \A k \in Nat \ {0} : PartitionOf(f, k) \in AnyPointer
      BY PartTypes
    <3>4. \A q \in 1 .. Partitions - 1 : _queues'[q] \in [1 .. q -> AnyPointer \cup {Null}]
      <4> SUFFICES ASSUME NEW q \in 1 .. Partitions - 1
                   PROVE  _queues'[q] \in [1 .. q -> AnyPointer \cup {Null}]
        OBVIOUS
      <4>1. _queues[q] \in [1 .. q -> AnyPointer \cup {Null}]
        BY DEF TypeOK
      <4>2. PartitionOf(f, q + 1) \in AnyPointer \cup {Null}
        BY <3>3
      <4> QED
        BY <3>2, <4>1, <4>2
    <3>5. _filter_ptrs' \in [1 .. Partitions -> AnyPointer]
      BY <3>1, <3>3, SetParts DEF TypeOK
    <3>6. chosen' \in [0 .. Partitions - 1 -> Filters \cup {None}]
      BY <3>1 DEF TypeOK
    <3>7. TypeOK'
      BY <3>1, <3>4, <3>5, <3>6 DEF TypeOK
    <3>8. ShapeInv'
      <4>1. \A q \in 1 .. Partitions - 1 :
              _queues'[q] = [place \in 1 .. q |-> _queues'[q][place]]
        BY <3>4
      <4>2. _queues' = [q \in 1 .. Partitions - 1 |-> _queues'[q]]
        BY <3>1 DEF SetQueues
      <4> QED
        BY <4>1, <4>2 DEF ShapeInv, AnyQueues
    <3> QED
      BY <3>7, <3>8
  <2>4. CASE KeepFilter \/ convolve \/ UNCHANGED vars
    BY <2>4 DEF KeepFilter, convolve, vars, TypeOK, ShapeInv, AnyQueues
  <2> QED
    BY <2>1, <2>2, <2>3, <2>4 DEF Next
<1> QED
  BY <1>1, <1>2, PTL DEF Spec

------------------------------------------------------------------------------
(* The input *)

\* The spectra follow the input, for any number of partitions: a buffer is
\* marked as zero exactly if both blocks of it were silent, and otherwise holds
\* the spectrum of these two.
THEOREM SpectraFollowInput == Spec => []SpectraUpToDate
<1> USE PartitionsAssumption, SilenceAssumption
<1>1. Init => SpectraUpToDate
  BY DEF Init, SpectraUpToDate, FreshNode, Node
<1>2. TypeOK /\ SpectraUpToDate /\ [Next]_vars => SpectraUpToDate'
  <2> SUFFICES ASSUME TypeOK, SpectraUpToDate, [Next]_vars PROVE SpectraUpToDate'
    OBVIOUS
  <2>1. ASSUME NEW block \in Blocks \cup {Silence}, add_block(block)
        PROVE  SpectraUpToDate'
    <3> DEFINE upcoming == spectra[Partitions + 1]
    <3>1. /\ spectra'[1] = Current(upcoming, block)
          /\ spectra'[Partitions + 1] = Upcoming(spectra[Partitions], block)
          /\ \A p \in 2 .. Partitions : spectra'[p] = spectra[p - 1]
      BY <2>1 DEF add_block
    <3>2. blocks'[0] = block /\ \A age \in 1 .. Partitions : blocks'[age] = blocks[age - 1]
      BY <2>1 DEF add_block
    <3>3. /\ upcoming.zero <=> blocks[0] = Silence
          /\ ~ upcoming.zero => ~ upcoming.fft /\ upcoming.first = blocks[0]
          /\ upcoming \in [zero : BOOLEAN, first : Blocks \cup {Silence, Garbage},
                           second : Blocks \cup {Silence, Garbage}, fft : BOOLEAN]
      BY DEF SpectraUpToDate, TypeOK
    <3>4. LET node == spectra'[1]
          IN  /\ node.zero <=> blocks[0] = Silence /\ block = Silence
              /\ ~ node.zero => node.fft /\ node.first = blocks[0] /\ node.second = block
      <4>1. CASE block = Silence
        BY <3>1, <3>3, <4>1 DEF Current, FillSecond
      <4>2. CASE block # Silence /\ upcoming.zero
        BY <3>1, <3>3, <4>2 DEF Current, FillFirst, FillSecond
      <4>3. CASE block # Silence /\ ~ upcoming.zero
        BY <3>1, <3>3, <4>3 DEF Current, FillSecond
      <4> QED
        BY <3>3, <4>1, <4>2, <4>3
    <3>5. LET node == spectra'[Partitions + 1]
          IN  /\ node.zero <=> block = Silence
              /\ ~ node.zero => ~ node.fft /\ node.first = block
      <4>1. spectra[Partitions] \in [zero : BOOLEAN, first : Blocks \cup {Silence, Garbage},
                                     second : Blocks \cup {Silence, Garbage}, fft : BOOLEAN]
        BY DEF TypeOK
      <4> QED
        BY <3>1, <4>1 DEF Upcoming, FillFirst
    <3>6. ASSUME NEW p \in 2 .. Partitions
          PROVE  /\ spectra'[p].zero <=> blocks'[p] = Silence /\ blocks'[p - 1] = Silence
                 /\ ~ spectra'[p].zero => /\ spectra'[p].fft
                                          /\ spectra'[p].first = blocks'[p]
                                          /\ spectra'[p].second = blocks'[p - 1]
      <4>1. p - 1 \in 1 .. Partitions /\ p \in 1 .. Partitions
        OBVIOUS
      <4>2. blocks'[p] = blocks[p - 1] /\ blocks'[p - 1] = blocks[p - 1 - 1]
        BY <3>2, <4>1
      <4> QED
        BY <3>1, <4>1, <4>2 DEF SpectraUpToDate
    <3>7. blocks'[1] = blocks[0]
      BY <3>2
    <3> QED
      BY <3>2, <3>4, <3>5, <3>6, <3>7 DEF SpectraUpToDate
  <2>2. ASSUME UNCHANGED <<spectra, blocks>> PROVE SpectraUpToDate'
    BY <2>2 DEF SpectraUpToDate
  <2>3. CASE rotate_queues
    BY <2>2, <2>3 DEF rotate_queues
  <2>4. ASSUME NEW f \in Filters, set_filter(f) PROVE SpectraUpToDate'
    BY <2>2, <2>4 DEF set_filter
  <2>5. CASE KeepFilter \/ convolve \/ UNCHANGED vars
    BY <2>2, <2>5 DEF KeepFilter, convolve, vars
  <2> QED
    BY <2>1, <2>3, <2>4, <2>5 DEF Next
<1> QED
  BY <1>1, <1>2, Typing, PTL DEF Spec

------------------------------------------------------------------------------
(* The filter *)

\* Does the set_filter() of d blocks ago still wait, d places from the end of
\* the queues?  The last queue is the longest one, and all agree.
Waiting(d) == _queues[Partitions - 1][Partitions - 1 - d] # Null

\* The block counted is already the next one where the queues have not been
\* rotated yet.
Age(d) == IF at = "rotate" THEN d + 1 ELSE d

\* What waits is the partition of the filter chosen then; ...
QueueInv ==
  \A q \in 1 .. Partitions - 1 : \A d \in 0 .. q - 1 :
    /\ Waiting(d) => _queues[q][q - d] = PartitionOf(chosen[Age(d)], q + 1)
    /\ ~ Waiting(d) => _queues[q][q - d] = Null

\* ... where nothing waits, no other filter was chosen; ...
KeptInv ==
  /\ \A d \in 0 .. Partitions - 2 :
       ~ Waiting(d) /\ Age(d) + 1 <= Partitions - 1 => chosen[Age(d)] = chosen[Age(d) + 1]
  /\ at = "rotate" /\ 1 <= Partitions - 1 => chosen[0] = chosen[1]

\* ... and the pointers that need not be exchanged are the right ones.
PointerInv ==
  \A k \in 1 .. Partitions :
    at # "rotate" \/ k = 1 \/ _queues[k - 1][1] = Null =>
      _filter_ptrs[k] = PartitionOf(chosen[k - 1], k)

IInv == QueueInv /\ KeptInv /\ PointerInv

LEMMA NothingWaits ==
  queues_empty(_queues) <=> \A d \in 0 .. Partitions - 2 : ~ Waiting(d)
<1> USE PartitionsAssumption
<1>1. ASSUME queues_empty(_queues), NEW d \in 0 .. Partitions - 2 PROVE ~ Waiting(d)
  <2>1. Partitions - 1 - d \in 1 .. Partitions - 1 /\ Partitions # 1
    OBVIOUS
  <2> QED
    BY <1>1, <2>1 DEF queues_empty, Waiting
<1>2. ASSUME \A d \in 0 .. Partitions - 2 : ~ Waiting(d) PROVE queues_empty(_queues)
  <2>1. ASSUME Partitions # 1, NEW place \in 1 .. Partitions - 1
        PROVE  _queues[Partitions - 1][place] = Null
    <3>1. Partitions - 1 - place \in 0 .. Partitions - 2
      OBVIOUS
    <3>2. Partitions - 1 - (Partitions - 1 - place) = place
      OBVIOUS
    <3> QED
      BY <1>2, <3>1, <3>2 DEF Waiting
  <2> QED
    BY <2>1 DEF queues_empty
<1> QED
  BY <1>1, <1>2

\* The first place of partition k's queue.
LEMMA FirstPlace ==
  ASSUME QueueInv, TypeOK, NEW k \in 2 .. Partitions
  PROVE  /\ k - 2 \in 0 .. Partitions - 2
         /\ Waiting(k - 2) => _queues[k - 1][1] = PartitionOf(chosen[Age(k - 2)], k)
         /\ Waiting(k - 2) <=> _queues[k - 1][1] # Null
<1> USE PartitionsAssumption
<1>1. k - 1 \in 1 .. Partitions - 1 /\ k - 2 \in 0 .. (k - 1) - 1
  OBVIOUS
<1>2. (k - 1) - (k - 2) = 1 /\ (k - 1) + 1 = k /\ k - 2 \in 0 .. Partitions - 2
  OBVIOUS
<1>3. /\ Waiting(k - 2) => _queues[k - 1][1] = PartitionOf(chosen[Age(k - 2)], k)
      /\ ~ Waiting(k - 2) => _queues[k - 1][1] = Null
  BY <1>1, <1>2 DEF QueueInv
<1>4. chosen[Age(k - 2)] \in Filters \cup {None}
  <2>1. Age(k - 2) \in 0 .. Partitions - 1
    BY DEF Age
  <2> QED
    BY <2>1 DEF TypeOK
<1>5. PartitionOf(chosen[Age(k - 2)], k) # Null
  <2>1. k \in Nat \ {0}
    OBVIOUS
  <2> QED
    BY <1>4, <2>1, PartTypes
<1> QED
  BY <1>2, <1>3, <1>5

LEMMA InitIInv == Init => IInv
<1> SUFFICES ASSUME Init PROVE IInv
  OBVIOUS
<1> USE PartitionsAssumption
<1>1. \A q \in 1 .. Partitions - 1 : \A place \in 1 .. q : _queues[q][place] = Null
  BY DEF Init, EmptyQueues
<1>2. \A q \in 1 .. Partitions - 1 : \A d \in 0 .. q - 1 : _queues[q][q - d] = Null
  BY <1>1
<1>3. \A d \in 0 .. Partitions - 2 : ~ Waiting(d)
  <2> SUFFICES ASSUME NEW d \in 0 .. Partitions - 2 PROVE ~ Waiting(d)
    OBVIOUS
  <2>1. Partitions - 1 \in 1 .. Partitions - 1 /\ d \in 0 .. (Partitions - 1) - 1
    OBVIOUS
  <2> QED
    BY <1>2, <2>1 DEF Waiting
<1>4. QueueInv
  <2> SUFFICES ASSUME NEW q \in 1 .. Partitions - 1, NEW d \in 0 .. q - 1
               PROVE  ~ Waiting(d) /\ _queues[q][q - d] = Null
    BY DEF QueueInv
  <2>1. d \in 0 .. Partitions - 2
    OBVIOUS
  <2> QED
    BY <1>2, <1>3, <2>1
<1>5. KeptInv
  BY DEF Init, KeptInv, Age
<1>6. PointerInv
  BY DEF Init, NoFilter, PointerInv, PartitionOf
<1> QED
  BY <1>4, <1>5, <1>6 DEF IInv

LEMMA AddBlockStep ==
  ASSUME TypeOK, IInv, NEW block \in Blocks \cup {Silence}, add_block(block)
  PROVE  IInv'
<1> USE PartitionsAssumption
<1>1. /\ at = "add_block" /\ at' = "rotate"
      /\ UNCHANGED <<_filter_ptrs, _queues>>
      /\ chosen'[0] = chosen[0]
      /\ \A age \in 1 .. Partitions - 1 : chosen'[age] = chosen[age - 1]
  BY DEF add_block
<1>2. \A d : Waiting(d)' <=> Waiting(d)
  BY <1>1 DEF Waiting
<1>3. \A d \in Nat : Age(d) = d /\ Age(d)' = d + 1
  BY <1>1 DEF Age
<1>4. QueueInv'
  <2> SUFFICES ASSUME NEW q \in 1 .. Partitions - 1, NEW d \in 0 .. q - 1
               PROVE  /\ Waiting(d) => _queues[q][q - d] = PartitionOf(chosen'[d + 1], q + 1)
                      /\ ~ Waiting(d) => _queues[q][q - d] = Null
    BY <1>1, <1>2, <1>3 DEF QueueInv
  <2>1. d + 1 \in 1 .. Partitions - 1 /\ d \in Nat
    OBVIOUS
  <2>2. chosen'[d + 1] = chosen[Age(d)]
    BY <1>1, <1>3, <2>1
  <2> QED
    BY <2>2 DEF IInv, QueueInv
<1>5. KeptInv'
  <2>1. ASSUME NEW d \in 0 .. Partitions - 2, ~ Waiting(d), d + 2 <= Partitions - 1
        PROVE  chosen'[d + 1] = chosen'[d + 2]
    <3>1. chosen[d] = chosen[d + 1]
      BY <1>3, <2>1 DEF IInv, KeptInv
    <3>2. chosen'[d + 1] = chosen[d] /\ chosen'[d + 2] = chosen[d + 1]
      BY <1>1, <2>1
    <3> QED
      BY <3>1, <3>2
  <2>2. 1 <= Partitions - 1 => chosen'[0] = chosen'[1]
    BY <1>1
  <2> QED
    BY <1>2, <1>3, <2>1, <2>2 DEF KeptInv
<1>6. PointerInv'
  <2>1. _filter_ptrs[1] = PartitionOf(chosen'[0], 1)
    BY <1>1 DEF IInv, PointerInv
  <2>2. ASSUME NEW k \in 2 .. Partitions, _queues[k - 1][1] = Null
        PROVE  _filter_ptrs[k] = PartitionOf(chosen'[k - 1], k)
    <3>1. k - 2 \in 0 .. Partitions - 2 /\ ~ Waiting(k - 2)
      BY <2>2, FirstPlace DEF IInv
    <3>2. Age(k - 2) = k - 2 /\ Age(k - 2) + 1 = k - 1 /\ k - 1 <= Partitions - 1
      BY <1>3, <3>1
    <3>3. chosen[k - 2] = chosen[k - 1]
      BY <3>1, <3>2 DEF IInv, KeptInv
    <3>4. chosen'[k - 1] = chosen[k - 2]
      BY <1>1
    <3> QED
      BY <1>1, <3>3, <3>4 DEF IInv, PointerInv
  <2> QED
    BY <1>1, <2>1, <2>2 DEF PointerInv
<1> QED
  BY <1>4, <1>5, <1>6 DEF IInv

LEMMA RotateStep == ASSUME TypeOK, IInv, rotate_queues PROVE IInv'
<1> USE PartitionsAssumption
<1>1. at = "rotate" /\ at' = "set_filter" /\ UNCHANGED chosen
  BY DEF rotate_queues
<1>2. \A d \in Nat : Age(d) = d + 1 /\ Age(d)' = d
  BY <1>1 DEF Age
<1>3. 1 <= Partitions - 1 => chosen[0] = chosen[1]
  BY <1>1 DEF IInv, KeptInv
<1>4. CASE queues_empty(_queues)
  <2>1. UNCHANGED <<_filter_ptrs, _queues>>
    BY <1>4 DEF rotate_queues
  <2>2. \A d \in 0 .. Partitions - 2 : ~ Waiting(d)
    BY <1>4, NothingWaits
  <2>3. \A d : Waiting(d)' <=> Waiting(d)
    BY <2>1 DEF Waiting
  <2>4. QueueInv'
    <3> SUFFICES ASSUME NEW q \in 1 .. Partitions - 1, NEW d \in 0 .. q - 1
                 PROVE  ~ Waiting(d) /\ _queues[q][q - d] = Null
      BY <2>1, <2>3 DEF QueueInv
    <3>1. d \in 0 .. Partitions - 2
      OBVIOUS
    <3> QED
      BY <2>2, <3>1 DEF IInv, QueueInv
  <2>5. KeptInv'
    <3>1. ASSUME NEW d \in 0 .. Partitions - 2 PROVE chosen[d] = chosen[d + 1]
      <4>1. CASE d = 0
        BY <1>3, <4>1
      <4>2. CASE d # 0
        <5>1. d - 1 \in 0 .. Partitions - 2 /\ Age(d - 1) = d /\ d + 1 <= Partitions - 1
          BY <1>2, <4>2
        <5> QED
          BY <2>2, <5>1 DEF IInv, KeptInv
      <4> QED
        BY <4>1, <4>2
    <3> QED
      BY <1>1, <1>2, <3>1 DEF KeptInv
  <2>6. PointerInv'
    <3>1. ASSUME NEW k \in 1 .. Partitions PROVE _filter_ptrs[k] = PartitionOf(chosen[k - 1], k)
      <4>1. CASE k = 1
        BY <4>1 DEF IInv, PointerInv
      <4>2. CASE k # 1
        <5>1. k \in 2 .. Partitions
          BY <4>2
        <5>2. _queues[k - 1][1] = Null
          BY <2>2, <5>1, FirstPlace DEF IInv
        <5> QED
          BY <5>2 DEF IInv, PointerInv
      <4> QED
        BY <4>1, <4>2
    <3> QED
      BY <1>1, <2>1, <3>1 DEF PointerInv
  <2> QED
    BY <2>4, <2>5, <2>6 DEF IInv
<1>5. CASE ~ queues_empty(_queues)
  <2>1. /\ _filter_ptrs' = RotatePointers(_filter_ptrs, _queues)
        /\ _queues' = RotateQueues(_queues)
    BY <1>5 DEF rotate_queues
  <2>2. ASSUME NEW q \in 1 .. Partitions - 1, NEW d \in 0 .. q - 1
        PROVE  /\ d = 0 => _queues'[q][q - d] = Null
               /\ d # 0 => _queues'[q][q - d] = _queues[q][q - (d - 1)]
    <3>1. q - d \in 1 .. q /\ (d # 0 => q - d < q) /\ (d = 0 => ~ (q - d < q))
      OBVIOUS
    <3>2. _queues'[q][q - d] = IF q - d < q THEN _queues[q][(q - d) + 1] ELSE Null
      BY <2>1, <3>1 DEF RotateQueues
    <3>3. (q - d) + 1 = q - (d - 1)
      OBVIOUS
    <3> QED
      BY <3>1, <3>2, <3>3
  <2>3. ASSUME NEW d \in 0 .. Partitions - 2
        PROVE  /\ d = 0 => ~ Waiting(d)'
               /\ d # 0 => (Waiting(d)' <=> Waiting(d - 1))
    <3>1. Partitions - 1 \in 1 .. Partitions - 1 /\ d \in 0 .. (Partitions - 1) - 1
      OBVIOUS
    <3> QED
      BY <2>2, <3>1 DEF Waiting
  <2>4. QueueInv'
    <3>1. ASSUME NEW q \in 1 .. Partitions - 1, NEW d \in 0 .. q - 1
          PROVE  /\ Waiting(d)' => _queues'[q][q - d] = PartitionOf(chosen[d], q + 1)
                 /\ ~ Waiting(d)' => _queues'[q][q - d] = Null
      <4>1. d \in 0 .. Partitions - 2
        OBVIOUS
      <4>2. CASE d = 0
        BY <2>2, <2>3, <4>1, <4>2
      <4>3. CASE d # 0
        <5>1. d - 1 \in 0 .. q - 1 /\ Age(d - 1) = d
          BY <1>2, <4>3
        <5>2. /\ Waiting(d - 1) => _queues[q][q - (d - 1)] = PartitionOf(chosen[d], q + 1)
              /\ ~ Waiting(d - 1) => _queues[q][q - (d - 1)] = Null
          BY <5>1 DEF IInv, QueueInv
        <5> QED
          BY <2>2, <2>3, <4>1, <4>3, <5>2
      <4> QED
        BY <4>2, <4>3
    <3> QED
      BY <1>1, <1>2, <3>1 DEF QueueInv
  <2>5. KeptInv'
    <3>1. ASSUME NEW d \in 0 .. Partitions - 2, ~ Waiting(d)' PROVE chosen[d] = chosen[d + 1]
      <4>1. CASE d = 0
        BY <1>3, <4>1
      <4>2. CASE d # 0
        <5>1. d - 1 \in 0 .. Partitions - 2 /\ Age(d - 1) = d /\ d + 1 <= Partitions - 1
          BY <1>2, <4>2
        <5>2. ~ Waiting(d - 1)
          BY <2>3, <3>1, <4>2
        <5> QED
          BY <5>1, <5>2 DEF IInv, KeptInv
      <4> QED
        BY <4>1, <4>2
    <3> QED
      BY <1>1, <1>2, <3>1 DEF KeptInv
  <2>6. PointerInv'
    <3>1. ASSUME NEW k \in 1 .. Partitions PROVE _filter_ptrs'[k] = PartitionOf(chosen[k - 1], k)
      <4>1. _filter_ptrs'[k] = IF k > 1 /\ _queues[k - 1][1] # Null THEN _queues[k - 1][1]
                                                                    ELSE _filter_ptrs[k]
        BY <2>1 DEF RotatePointers
      <4>2. CASE k = 1 \/ _queues[k - 1][1] = Null
        <5>1. _filter_ptrs[k] = PartitionOf(chosen[k - 1], k)
          BY <4>2 DEF IInv, PointerInv
        <5> QED
          BY <4>1, <4>2, <5>1
      <4>3. CASE k # 1 /\ _queues[k - 1][1] # Null
        <5>1. k \in 2 .. Partitions
          BY <4>3
        <5>2. _queues[k - 1][1] = PartitionOf(chosen[Age(k - 2)], k)
          BY <4>3, <5>1, FirstPlace DEF IInv
        <5>3. Age(k - 2) = k - 1
          BY <1>2, <5>1
        <5> QED
          BY <4>1, <4>3, <5>1, <5>2, <5>3
      <4> QED
        BY <4>2, <4>3
    <3> QED
      BY <1>1, <3>1 DEF PointerInv
  <2> QED
    BY <2>4, <2>5, <2>6 DEF IInv
<1> QED
  BY <1>4, <1>5

LEMMA SetFilterStep ==
  ASSUME TypeOK, IInv, NEW f \in Filters, set_filter(f)
  PROVE  IInv'
<1> USE PartitionsAssumption
<1>1. /\ at = "set_filter" /\ at' = "convolve"
      /\ _filter_ptrs' = [_filter_ptrs EXCEPT ![1] = PartitionOf(f, 1)]
      /\ chosen' = [chosen EXCEPT ![0] = f]
      /\ _queues' = SetQueues(_queues, Pointers(f))
  BY SetParts DEF set_filter, SetPointers
<1>2. \A d \in Nat : Age(d) = d /\ Age(d)' = d
  BY <1>1 DEF Age
<1>3. ASSUME NEW q \in 1 .. Partitions - 1, NEW d \in 0 .. q - 1
      PROVE  /\ d = 0 => _queues'[q][q - d] = PartitionOf(f, q + 1)
             /\ d # 0 => _queues'[q][q - d] = _queues[q][q - d]
  <2>1. q \in Nat \ {0} /\ q - d \in 1 .. q
    OBVIOUS
  <2>2. _queues'[q] = [_queues[q] EXCEPT ![q] = PartitionOf(f, q + 1)]
    BY <1>1, <2>1, SetParts DEF SetQueues
  <2>3. DOMAIN _queues[q] = 1 .. q
    BY DEF TypeOK
  <2> QED
    BY <2>1, <2>2, <2>3
<1>4. ASSUME NEW d \in 0 .. Partitions - 2
      PROVE  /\ d = 0 => Waiting(d)'
             /\ d # 0 => (Waiting(d)' <=> Waiting(d))
  <2>1. Partitions - 1 \in 1 .. Partitions - 1 /\ d \in 0 .. (Partitions - 1) - 1
    OBVIOUS
  <2>2. PartitionOf(f, (Partitions - 1) + 1) # Null
    BY <2>1, PartTypes
  <2> QED
    BY <1>3, <2>1, <2>2 DEF Waiting
<1>5. chosen'[0] = f /\ \A age \in 1 .. Partitions - 1 : chosen'[age] = chosen[age]
  BY <1>1 DEF TypeOK
<1>6. QueueInv'
  <2>1. ASSUME NEW q \in 1 .. Partitions - 1, NEW d \in 0 .. q - 1
        PROVE  /\ Waiting(d)' => _queues'[q][q - d] = PartitionOf(chosen'[d], q + 1)
               /\ ~ Waiting(d)' => _queues'[q][q - d] = Null
    <3>1. d \in 0 .. Partitions - 2
      OBVIOUS
    <3>2. CASE d = 0
      BY <1>3, <1>4, <1>5, <3>1, <3>2
    <3>3. CASE d # 0
      <4>1. chosen'[d] = chosen[d] /\ Age(d) = d
        BY <1>2, <1>5, <3>3
      <4>2. /\ Waiting(d) => _queues[q][q - d] = PartitionOf(chosen[d], q + 1)
            /\ ~ Waiting(d) => _queues[q][q - d] = Null
        BY <4>1 DEF IInv, QueueInv
      <4> QED
        BY <1>3, <1>4, <3>1, <3>3, <4>1, <4>2
    <3> QED
      BY <3>2, <3>3
  <2> QED
    BY <1>2, <2>1 DEF QueueInv
<1>7. KeptInv'
  <2>1. ASSUME NEW d \in 0 .. Partitions - 2, ~ Waiting(d)' PROVE chosen'[d] = chosen'[d + 1]
    <3>1. d # 0 /\ ~ Waiting(d)
      BY <1>4, <2>1
    <3>2. Age(d) = d /\ d + 1 <= Partitions - 1
      BY <1>2
    <3>3. chosen[d] = chosen[d + 1]
      BY <3>1, <3>2 DEF IInv, KeptInv
    <3> QED
      BY <1>5, <3>1, <3>3
  <2> QED
    BY <1>1, <1>2, <2>1 DEF KeptInv
<1>8. PointerInv'
  <2>1. ASSUME NEW k \in 1 .. Partitions PROVE _filter_ptrs'[k] = PartitionOf(chosen'[k - 1], k)
    <3>1. CASE k = 1
      BY <1>1, <1>5, <3>1 DEF TypeOK
    <3>2. CASE k # 1
      <4>1. _filter_ptrs[k] = PartitionOf(chosen[k - 1], k)
        BY <1>1 DEF IInv, PointerInv
      <4>2. _filter_ptrs'[k] = _filter_ptrs[k] /\ chosen'[k - 1] = chosen[k - 1]
        BY <1>1, <1>5, <3>2 DEF TypeOK
      <4> QED
        BY <4>1, <4>2
    <3> QED
      BY <3>1, <3>2
  <2> QED
    BY <1>1, <2>1 DEF PointerInv
<1> QED
  BY <1>6, <1>7, <1>8 DEF IInv

LEMMA Invariance == Spec => [](TypeOK /\ ShapeInv /\ IInv)
<1>1. TypeOK /\ TypeOK' /\ IInv /\ [Next]_vars => IInv'
  <2> SUFFICES ASSUME TypeOK, IInv, [Next]_vars PROVE IInv'
    OBVIOUS
  <2>1. ASSUME at # "rotate", at' # "rotate", UNCHANGED <<_filter_ptrs, _queues, chosen>>
        PROVE  IInv'
    BY <2>1 DEF IInv, QueueInv, KeptInv, PointerInv, Waiting, Age
  <2>2. CASE KeepFilter \/ convolve
    BY <2>1, <2>2 DEF KeepFilter, convolve
  <2>3. CASE UNCHANGED vars
    BY <2>3 DEF vars, IInv, QueueInv, KeptInv, PointerInv, Waiting, Age
  <2> QED
    BY <2>2, <2>3, AddBlockStep, RotateStep, SetFilterStep DEF Next
<1> QED
  BY <1>1, InitIInv, Typing, PTL DEF Spec

\* For any number of partitions: however often and fast filters are exchanged,
\* and whatever their sizes, each partition is the one of the filter that was
\* chosen for the block that it is applied to.
THEOREM FiltersInTime == Spec => []FilterInTime
<1>1. IInv => FilterInTime
  BY DEF IInv, PointerInv, FilterInTime
<1> QED
  BY <1>1, Invariance, PTL

\* For any number of partitions: queues_empty(), which looks at one queue, is
\* true only if all queues are empty, and rotate_queues() is unnecessary then.
THEOREM EmptyQueuesSettled == Spec => []QueuesEmptySettled
<1> USE PartitionsAssumption
<1>1. ASSUME TypeOK, ShapeInv, IInv, queues_empty(_queues)
      PROVE  RotatePointers(_filter_ptrs, _queues) = _filter_ptrs /\ _queues = EmptyQueues
  <2>1. ASSUME NEW q \in 1 .. Partitions - 1, NEW place \in 1 .. q
        PROVE  _queues[q][place] = Null
    <3>1. q - place \in 0 .. q - 1 /\ q - place \in 0 .. Partitions - 2 /\ q - (q - place) = place
      OBVIOUS
    <3>2. ~ Waiting(q - place)
      BY <1>1, <3>1, NothingWaits
    <3>3. _queues[q][q - (q - place)] = Null
      BY <1>1, <3>1, <3>2 DEF IInv, QueueInv
    <3> QED
      BY <3>1, <3>3
  <2>2. AnyQueues = EmptyQueues
    BY <2>1 DEF AnyQueues, EmptyQueues
  <2>3. \A k \in 1 .. Partitions : k > 1 => _queues[k - 1][1] = Null
    BY <2>1
  <2>4. RotatePointers(_filter_ptrs, _queues) = [k \in 1 .. Partitions |-> _filter_ptrs[k]]
    BY <2>3 DEF RotatePointers
  <2>5. _filter_ptrs = [k \in 1 .. Partitions |-> _filter_ptrs[k]]
    BY <1>1 DEF TypeOK
  <2> QED
    BY <1>1, <2>2, <2>4, <2>5 DEF ShapeInv
<1>2. TypeOK /\ ShapeInv /\ IInv => QueuesEmptySettled
  BY <1>1 DEF QueuesEmptySettled
<1> QED
  BY <1>2, Invariance, PTL

------------------------------------------------------------------------------
(* The convolution *)

NothingZero == \A k \in 1 .. Partitions : ~ spectra[k].zero /\ ~ IsZero(_filter_ptrs[k])

\* The positions in the list of spectra, as _multiply_spectra() advances.
IsPosition(pos) ==
  pos = [k \in 1 .. Partitions |->
           IF k = 1 THEN 1
           ELSE LET p == pos[k - 1]
                IN  IF spectra[p].zero \/ IsZero(_filter_ptrs[k - 1]) THEN p ELSE p + 1]

\* Where nothing is zero there are such positions, and they are the partitions' numbers:
\* a first one that is another number cannot be.
LEMMA PositionsAre ==
  ASSUME NothingZero
  PROVE  /\ \E pos : IsPosition(pos)
         /\ \A pos : IsPosition(pos) => \A k \in 1 .. Partitions : pos[k] = k
<1> USE PartitionsAssumption
<1>1. \E pos : IsPosition(pos)
  <2> DEFINE numbers == [k \in 1 .. Partitions |-> k]
  <2>1. ASSUME NEW k \in 1 .. Partitions
        PROVE  numbers[k] = IF k = 1 THEN 1
                            ELSE LET p == numbers[k - 1]
                                 IN  IF spectra[p].zero \/ IsZero(_filter_ptrs[k - 1])
                                     THEN p ELSE p + 1
    <3>1. CASE k = 1
      BY <3>1
    <3>2. CASE k # 1
      <4>1. k - 1 \in 1 .. Partitions
        BY <3>2
      <4>2. ~ spectra[k - 1].zero /\ ~ IsZero(_filter_ptrs[k - 1])
        BY <4>1 DEF NothingZero
      <4> QED
        BY <3>2, <4>1, <4>2
    <3> QED
      BY <3>1, <3>2
  <2>2. numbers = [k \in 1 .. Partitions |-> numbers[k]]
    OBVIOUS
  <2> HIDE DEF numbers
  <2>3. IsPosition(numbers)
    <3> DEFINE Advanced(k) == IF k = 1 THEN 1
                          ELSE LET p == numbers[k - 1]
                               IN  IF spectra[p].zero \/ IsZero(_filter_ptrs[k - 1])
                                   THEN p ELSE p + 1
    <3>1. numbers = [k \in 1 .. Partitions |-> Advanced(k)]
      <4>1. \A k \in 1 .. Partitions : numbers[k] = Advanced(k)
        BY <2>1
      <4> HIDE DEF Advanced
      <4> QED
        BY <2>2, <4>1
    <3> QED
      BY <3>1, Zenon DEF IsPosition
  <2> QED
    BY <2>3
<1>2. ASSUME NEW pos, IsPosition(pos) PROVE \A k \in 1 .. Partitions : pos[k] = k
  <2> DEFINE Wrong == {k \in 1 .. Partitions : pos[k] # k}
             Less == {p \in Nat \X Nat : p[1] < p[2]}
  <2>1. SUFFICES ASSUME Wrong # {} PROVE FALSE
    OBVIOUS
  <2>2. PICK k \in Wrong : \A j \in Wrong : ~ (<<j, k>> \in Less)
    <3>1. IsWellFoundedOn(Less, Nat)
      BY NatLessThanWellFounded, Zenon DEF OpToRel
    <3>2. Wrong \subseteq Nat
      OBVIOUS
    <3> HIDE DEF Less, Wrong
    <3> QED
      BY <2>1, <3>1, <3>2, WFMin
  <2>3. k \in 1 .. Partitions /\ pos[k] # k
    OBVIOUS
  <2>4. \A j \in 1 .. Partitions :
          pos[j] = IF j = 1 THEN 1
                   ELSE LET p == pos[j - 1]
                        IN  IF spectra[p].zero \/ IsZero(_filter_ptrs[j - 1]) THEN p ELSE p + 1
    BY <1>2 DEF IsPosition
  <2>5. k # 1
    BY <2>3, <2>4
  <2>6. k - 1 \in 1 .. Partitions /\ <<k - 1, k>> \in Less
    BY <2>3, <2>5
  <2>7. pos[k - 1] = k - 1
    <3> HIDE DEF Less
    <3> QED
      BY <2>2, <2>6
  <2>8. ~ spectra[k - 1].zero /\ ~ IsZero(_filter_ptrs[k - 1])
    BY <2>6 DEF NothingZero
  <2> HIDE DEF Wrong, Less
  <2> QED
    BY <2>3, <2>4, <2>5, <2>7, <2>8
<1> QED
  BY <1>1, <1>2

\* Where no filter partition and no spectrum is zero _multiply_spectra() multiplies each
\* block with the filter that was chosen for it, at its age.
THEOREM Exact == Spec => []ExactWithoutZeros
<1>1. SpectraUpToDate /\ FilterInTime => ExactWithoutZeros
  <2> SUFFICES ASSUME SpectraUpToDate, FilterInTime, at = "convolve", NothingZero
               PROVE  Products = Wanted
    BY DEF ExactWithoutZeros, NothingZero
  <2> DEFINE pos == CHOOSE g : IsPosition(g)
             Product(k) == <<_filter_ptrs[k], <<spectra[pos[k]].first, spectra[pos[k]].second>> >>
             WantedAt(k) == <<PartitionOf(chosen[k - 1], k), <<blocks[k], blocks[k - 1]>> >>
  <2>1. Products = { Product(k) : k \in { j \in 1 .. Partitions :
                                            ~ spectra[pos[j]].zero /\ ~ IsZero(_filter_ptrs[j]) } }
    BY DEF Products, IsPosition
  <2>2. \A k \in 1 .. Partitions : pos[k] = k
    BY PositionsAre
  <2> HIDE DEF pos
  <2>3. ASSUME NEW k \in 1 .. Partitions
        PROVE  /\ Product(k) = WantedAt(k)
               /\ ~ spectra[pos[k]].zero /\ ~ IsZero(_filter_ptrs[k])
               /\ ~ IsZero(PartitionOf(chosen[k - 1], k))
               /\ blocks[k] # Silence \/ blocks[k - 1] # Silence
    BY <2>2 DEF NothingZero, SpectraUpToDate, FilterInTime
  <2>4. Wanted = { WantedAt(k) : k \in { j \in 1 .. Partitions :
                                           /\ ~ IsZero(PartitionOf(chosen[j - 1], j))
                                           /\ blocks[j] # Silence \/ blocks[j - 1] # Silence } }
    BY DEF Wanted
  <2> HIDE DEF Product, WantedAt
  <2> QED
    BY <2>1, <2>3, <2>4
<1> QED
  BY <1>1, SpectraFollowInput, FiltersInTime, PTL
==============================================================================
