------------------------------ MODULE Convolver ------------------------------
(***************************************************************************)
(* apf::conv::Input and apf::conv::Output: partitioned convolution, block  *)
(* by block, where the filter may be exchanged at every block.  In each    *)
(* audio cycle the caller adds an input block, rotates the queues if they  *)
(* are not empty, sets another filter or not, and asks for the convolved   *)
(* block, as the renderers do.                                             *)
(*                                                                         *)
(* Audio data is symbolic.  An input block is a value, Silence or not; the *)
(* spectrum of a double block is known by its two halves; the output is    *)
(* the set of the products, filter partition times spectrum, whose sum the *)
(* inverse FFT transforms.                                                 *)
(***************************************************************************)
EXTENDS FilterQueues, FiniteSets, Integers

CONSTANTS Blocks,   \* the input blocks that are not silent
          Silence,
          Garbage,  \* what is left in a buffer and means nothing
          Filters   \* records: name, size: partitions, filled: not zero

\* What stands for a filter before the first one is set.
None == [name |-> "none", size |-> 1, filled |-> 0]

ASSUME SilenceAssumption == Silence \notin Blocks \cup {Garbage} /\ Garbage \notin Blocks

ASSUME FiltersAssumption ==
  /\ None \notin Filters
  /\ \A f \in Filters : f.size \in Nat \ {0} /\ f.filled \in 0 .. f.size

\* The pointers to partitions are neither null nor that to the empty partition.
ASSUME PointersAssumption ==
  /\ Null # EmptyPartition
  /\ \A f \in Filters : \A k \in 1 .. f.size :
       [of |-> f, partition |-> k] \notin {Null, EmptyPartition}

VARIABLES
  at,            \* the caller's next call in the audio cycle
  spectra,       \* Input: the list of fft_nodes, the most recent one first
  _filter_ptrs,  \* Output
  _queues,       \* Output
  blocks,        \* history: the latest input blocks, by age
  chosen         \* history: the filters of the latest blocks, by age

vars == <<at, spectra, _filter_ptrs, _queues, blocks, chosen>>

\* An fft_node.  "If zero == true, the buffer itself is not necessarily all
\* zeros!"
Node(zero, first, second, fft) ==
  [zero |-> zero, first |-> first, second |-> second, fft |-> fft]

FreshNode == Node(TRUE, Garbage, Garbage, FALSE)

\* The pointers to the partitions of a filter.
Pointers(f) == [k \in 1 .. f.size |-> [of |-> f, partition |-> k]]

\* fft_node::zero of a filter partition: it was prepared without coefficients.
IsZero(pointer) ==
  pointer = EmptyPartition \/ pointer.partition > pointer.of.filled

Init ==
  /\ at = "add_block"
  /\ spectra = [p \in 1 .. Partitions + 1 |-> FreshNode]
  /\ _filter_ptrs = NoFilter
  /\ _queues = EmptyQueues
  /\ blocks = [age \in 0 .. Partitions |-> Silence]
  /\ chosen = [age \in 0 .. Partitions - 1 |-> None]

------------------------------------------------------------------------------
(* Input::add_block() *)

\* Writing half of a buffer that holds a spectrum leaves nothing useful in the
\* other half.
FillFirst(node, block) ==
  [node EXCEPT !.first = block, !.fft = FALSE,
               !.second = IF node.fft THEN Garbage ELSE @]
FillSecond(node, block) ==
  [node EXCEPT !.second = block, !.fft = FALSE,
               !.first = IF node.fft THEN Garbage ELSE @]

\* Mutant: the first half is not cleared after silence.
Mutant_FirstHalfLeft(node, block) ==
  IF block = Silence
  THEN IF node.zero THEN node ELSE [FillSecond(node, Silence) EXCEPT !.fft = TRUE]
  ELSE [FillSecond(node, block) EXCEPT !.zero = FALSE, !.fft = TRUE]

\* The current double block: its first half was filled as the upcoming one.
Current(node, block) ==
  IF block = Silence
  THEN IF node.zero THEN node ELSE [FillSecond(node, Silence) EXCEPT !.fft = TRUE]
  ELSE [FillSecond(IF node.zero THEN FillFirst(node, Silence) ELSE node, block)
          EXCEPT !.zero = FALSE, !.fft = TRUE]

\* The upcoming double block.
Upcoming(node, block) ==
  IF block = Silence THEN [node EXCEPT !.zero = TRUE]
                     ELSE [FillFirst(node, block) EXCEPT !.zero = FALSE]

\* The last buffer, prepared as the upcoming one, moves to the front; the one
\* that is the last now holds the oldest spectrum and is prepared next.
add_block(block) ==
  /\ at = "add_block"
  /\ spectra' = [p \in 1 .. Partitions + 1 |->
                   IF p = 1 THEN Current(spectra[Partitions + 1], block)
                   ELSE IF p = Partitions + 1 THEN Upcoming(spectra[Partitions], block)
                   ELSE spectra[p - 1]]
  /\ blocks' = [age \in 0 .. Partitions |-> IF age = 0 THEN block ELSE blocks[age - 1]]
  /\ chosen' = [age \in 0 .. Partitions - 1 |-> chosen[IF age = 0 THEN 0 ELSE age - 1]]
  /\ at' = "rotate"
  /\ UNCHANGED <<_filter_ptrs, _queues>>

------------------------------------------------------------------------------
(* Output *)

rotate_queues ==
  /\ at = "rotate"
  /\ \/ /\ ~ queues_empty(_queues)
        /\ _filter_ptrs' = RotatePointers(_filter_ptrs, _queues)
        /\ _queues' = RotateQueues(_queues)
     \/ /\ queues_empty(_queues)
        /\ UNCHANGED <<_filter_ptrs, _queues>>
  /\ at' = "set_filter"
  /\ UNCHANGED <<spectra, blocks, chosen>>

\* Mutant: the remaining partitions of a longer filter are left in place.
Mutant_RestStays(f) ==
  /\ at = "set_filter"
  /\ _filter_ptrs' = SetPointers(_filter_ptrs, Pointers(f))
  /\ _queues' = [q \in 1 .. Partitions - 1 |->
                   IF q + 1 <= f.size
                   THEN [_queues[q] EXCEPT ![q] = Pointers(f)[q + 1]]
                   ELSE _queues[q]]
  /\ chosen' = [chosen EXCEPT ![0] = f]
  /\ at' = "convolve"
  /\ UNCHANGED <<spectra, blocks>>

set_filter(f) ==
  /\ at = "set_filter"
  /\ _filter_ptrs' = SetPointers(_filter_ptrs, Pointers(f))
  /\ _queues' = SetQueues(_queues, Pointers(f))
  /\ chosen' = [chosen EXCEPT ![0] = f]
  /\ at' = "convolve"
  /\ UNCHANGED <<spectra, blocks>>

KeepFilter ==
  /\ at = "set_filter"
  /\ at' = "convolve"
  /\ UNCHANGED <<spectra, _filter_ptrs, _queues, blocks, chosen>>

\* Mutant: the list is read one element late.
Mutant_OneLate ==
  LET pos[k \in 1 .. Partitions] ==
        IF k = 1 THEN 2
        ELSE LET p == pos[k - 1]
             IN  IF spectra[p].zero \/ IsZero(_filter_ptrs[k - 1]) THEN p ELSE p + 1
  IN  { <<_filter_ptrs[k], <<spectra[pos[k]].first, spectra[pos[k]].second>> >> :
          k \in { j \in 1 .. Partitions :
                    ~ spectra[pos[j]].zero /\ ~ IsZero(_filter_ptrs[j]) } }

\* convolve(), _multiply_spectra(): which spectrum each partition is
\* multiplied with.  The list is advanced only after a multiplication: a zero
\* partition and a zero spectrum are skipped before "++input".
Products ==
  LET pos[k \in 1 .. Partitions] ==
        IF k = 1 THEN 1
        ELSE LET p == pos[k - 1]
             IN  IF spectra[p].zero \/ IsZero(_filter_ptrs[k - 1]) THEN p ELSE p + 1
  IN  { <<_filter_ptrs[k], <<spectra[pos[k]].first, spectra[pos[k]].second>> >> :
          k \in { j \in 1 .. Partitions :
                    ~ spectra[pos[j]].zero /\ ~ IsZero(_filter_ptrs[j]) } }

convolve ==
  /\ at = "convolve"
  /\ at' = "add_block"
  /\ UNCHANGED <<spectra, _filter_ptrs, _queues, blocks, chosen>>

------------------------------------------------------------------------------
(* The data of spectra and filters, for blocks of a given size: what the    *)
(* actions above do not look at                                             *)

\* Calculate necessary number of partitions for a given filter length.
min_partitions(block_size, filter_size) == (filter_size + block_size - 1) \div block_size

\* prepare_filter() and prepare_partition(): the coefficients that are transformed for
\* each partition, padded with zeros; nothing is where none are left.
prepare_filter(coefficients, block_size, partitions) ==
  [p \in 1 .. partitions |->
     LET first == (p - 1) * block_size
         chunk == IF Len(coefficients) - first < block_size THEN Len(coefficients) - first
                                                            ELSE block_size
     IN  [zero |-> chunk <= 0,
          data |-> IF chunk <= 0 THEN Garbage
                   ELSE [k \in 1 .. 2 * block_size |->
                           IF k <= chunk THEN coefficients[first + k] ELSE 0]]]

\* The half-complex data of the FFT: the real parts of the frequencies 0 to block_size,
\* then the imaginary parts of those in between, in descending order.  It is sorted by
\* groups of four frequencies: four real parts, four imaginary parts.  In place of the
\* imaginary part of frequency 0 there is the real part of the last one.
Position(k) == 8 * (k \div 4) + (k % 4)

_sort_coefficients(data, block_size) ==
  [place \in 0 .. 2 * block_size - 1 |->
     LET k == 4 * (place \div 8) + (place % 4)
     IN  IF place = 4 THEN data[block_size]
         ELSE IF place % 8 < 4 THEN data[k] ELSE data[2 * block_size - k]]

_unsort_coefficients(buffer, block_size) ==
  [k \in 0 .. 2 * block_size - 1 |->
     CASE k < block_size -> buffer[Position(k)]
       [] k = block_size -> buffer[4]
       [] k > block_size -> buffer[Position(2 * block_size - k) + 4]]

\* Added to the output buffer: complex products, but for the two real numbers of the
\* first group.
_multiply_partition(buffer, signal, filter) ==
  [k \in DOMAIN buffer |->
     buffer[k] + CASE k \in {0, 4} -> signal[k] * filter[k]
                   [] k % 8 < 4 /\ k # 0 -> signal[k] * filter[k] - signal[k + 4] * filter[k + 4]
                   [] k % 8 >= 4 /\ k # 4 -> signal[k - 4] * filter[k] + signal[k] * filter[k - 4]]

\* StaticOutput: all partitions of a filter at once.
_set_filter(filter) ==
  [k \in 1 .. Partitions |-> IF k <= Len(filter) THEN filter[k] ELSE EmptyPartition]

\* transform_nested(): two filters are combined, partition by partition; one that is
\* too short or zero counts as zeros, whatever its data is.
transform_nested(in1, in2, partitions, f) ==
  LET data(in, k) == IF k > Len(in) \/ in[k].zero THEN <<>> ELSE in[k].data
      number(d, k) == IF d = <<>> THEN 0 ELSE d[k]
  IN  [p \in 1 .. partitions |->
         LET a == data(in1, p)
             b == data(in2, p)
         IN  [zero |-> a = <<>> /\ b = <<>>,
              data |-> [k \in (DOMAIN a) \cup (DOMAIN b) |-> f[number(a, k), number(b, k)]]]]

------------------------------------------------------------------------------
Next ==
  \/ \E block \in Blocks \cup {Silence} : add_block(block)
  \/ rotate_queues
  \/ \E f \in Filters : set_filter(f)
  \/ KeepFilter
  \/ convolve

Spec == Init /\ [][Next]_vars

------------------------------------------------------------------------------
(* Properties *)

AnyPointer ==
  {EmptyPartition} \cup UNION { { Pointers(f)[k] : k \in 1 .. f.size } : f \in Filters }

\* Types; no null pointer is ever taken from a queue: assert(filter != nullptr)
\* (convolver.h:559).
TypeOK ==
  /\ at \in {"add_block", "rotate", "set_filter", "convolve"}
  /\ spectra \in [1 .. Partitions + 1 ->
                    [zero : BOOLEAN, first : Blocks \cup {Silence, Garbage},
                     second : Blocks \cup {Silence, Garbage}, fft : BOOLEAN]]
  /\ _filter_ptrs \in [1 .. Partitions -> AnyPointer]
  /\ \A q \in 1 .. Partitions - 1 :
       _queues[q] \in [1 .. q -> AnyPointer \cup {Null}]
  /\ blocks \in [0 .. Partitions -> Blocks \cup {Silence}]
  /\ chosen \in [0 .. Partitions - 1 -> Filters \cup {None}]

\* The first Partitions nodes hold the spectra of the latest double blocks,
\* and are marked as zero exactly if these are silent; the last one is ready
\* for the next block.
SpectraUpToDate ==
  /\ \A p \in 1 .. Partitions :
       LET old == blocks[p]
           new == blocks[p - 1]
       IN  /\ spectra[p].zero <=> old = Silence /\ new = Silence
           /\ ~ spectra[p].zero =>
                /\ spectra[p].fft
                /\ spectra[p].first = old
                /\ spectra[p].second = new
  /\ LET upcoming == spectra[Partitions + 1]
     IN  /\ upcoming.zero <=> blocks[0] = Silence
         /\ ~ upcoming.zero => ~ upcoming.fft /\ upcoming.first = blocks[0]

\* Partition k of filter f; zero where f is too short.
PartitionOf(f, k) ==
  IF k <= f.size /\ f # None THEN Pointers(f)[k] ELSE EmptyPartition

\* When a block is convolved, partition k is that of the filter that was
\* chosen k - 1 blocks ago, for the block that has come there now: no input
\* block ever meets parts of two filters.
FilterInTime ==
  at = "convolve" =>
    \A k \in 1 .. Partitions : _filter_ptrs[k] = PartitionOf(chosen[k - 1], k)

\* "If queues_empty() returns true, calling [rotate_queues()] is unnecessary."
\* (convolver.h:680), though only one of the queues is looked at.
QueuesEmptySettled ==
  queues_empty(_queues) =>
    /\ RotatePointers(_filter_ptrs, _queues) = _filter_ptrs
    /\ _queues = EmptyQueues

\* What the convolved block has to be: every block with the filter chosen for
\* it, at its age.
Wanted ==
  { <<PartitionOf(chosen[k - 1], k), <<blocks[k], blocks[k - 1]>> >> :
      k \in { j \in 1 .. Partitions :
                /\ ~ IsZero(PartitionOf(chosen[j - 1], j))
                /\ blocks[j] # Silence \/ blocks[j - 1] # Silence } }

\* "Fast convolution of one audio block." (convolver.h:428)
Convolved == at = "convolve" => Products = Wanted

\* Where nothing is zero the convolution is exact.
ExactWithoutZeros ==
  /\ at = "convolve"
  /\ \A k \in 1 .. Partitions : ~ spectra[k].zero /\ ~ IsZero(_filter_ptrs[k])
  => Products = Wanted
==============================================================================
