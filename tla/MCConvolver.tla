----------------------------- MODULE MCConvolver -----------------------------
(* Three partitions, so that there are a queue with one place and one with   *)
(* two, that a change of the filter can overtake another one, and that a     *)
(* zero can be in the middle; a long filter, a short one and one that has    *)
(* more partitions than coefficients.                                        *)
EXTENDS Convolver

MCFilters == { [name |-> "long", size |-> 3, filled |-> 3],
               [name |-> "short", size |-> 1, filled |-> 1],
               [name |-> "padded", size |-> 4, filled |-> 2] }
------------------------------------------------------------------------------
(* The data of spectra and filters                                         *)

\* Complex numbers are pairs; the one at a frequency in half-complex data.
Times(x, y) == <<x[1] * y[1] - x[2] * y[2], x[1] * y[2] + x[2] * y[1]>>
Frequency(data, size, k) == <<data[k], IF k \in {0, size} THEN 0 ELSE data[2 * size - k]>>

Unit(size, k) == [j \in 0 .. 2 * size - 1 |-> IF j = k THEN 1 ELSE 0]

\* Sorted, multiplied and brought back into order, spectra are multiplied frequency by
\* frequency, and added to what is in the buffer.  Both sides are linear in the signal
\* and in the filter, so units are enough (TransformBase, OutputBase).
ASSUME SpectraAreMultiplied ==
  \A size \in {8, 16} : \A i, j \in 0 .. 2 * size - 1 :
    LET buffer == [k \in 0 .. 2 * size - 1 |-> 100 * k]
        product == _unsort_coefficients(
                     _multiply_partition(_sort_coefficients(buffer, size),
                       _sort_coefficients(Unit(size, i), size),
                       _sort_coefficients(Unit(size, j), size)), size)
    IN  \A k \in 0 .. size :
          LET before == Frequency(buffer, size, k)
              added == Times(Frequency(Unit(size, i), size, k), Frequency(Unit(size, j), size, k))
          IN  Frequency(product, size, k) = <<before[1] + added[1], before[2] + added[2]>>

\* The partitions hold all coefficients, in their order, with zeros after them, and
\* none of the necessary ones is zero (Filter).
ASSUME CoefficientsAreKept ==
  \A size \in 1 .. 3, length \in 1 .. 7, more \in 0 .. 2 :
    LET number == min_partitions(size, length)
        filter == prepare_filter([k \in 1 .. length |-> k], size, number + more)
    IN  \A p \in 1 .. number + more :
          /\ filter[p].zero <=> p > number
          /\ p <= number => \A k \in 1 .. 2 * size :
               filter[p].data[k] =
                 LET place == (p - 1) * size + k
                 IN  IF k <= size /\ place <= length THEN place ELSE 0

\* A static filter is what a filter becomes that has been set and rotated in: by
\* Partitions - 1 blocks (StaticOutput, Output).
ASSUME StaticAsRotated ==
  \A f \in Filters :
    LET after[n \in 0 .. Partitions - 1] ==
          IF n = 0 THEN [pointers |-> SetPointers(NoFilter, Pointers(f)),
                         queues |-> SetQueues(EmptyQueues, Pointers(f))]
          ELSE [pointers |-> RotatePointers(after[n - 1].pointers, after[n - 1].queues),
                queues |-> RotateQueues(after[n - 1].queues)]
    IN  /\ after[Partitions - 1].pointers = _set_filter(Pointers(f))
        /\ queues_empty(after[Partitions - 1].queues)

\* A combination of two filters of different lengths, one of them padded, is that of
\* their coefficients (transform_nested(); the transform is linear).
ASSUME FiltersAreCombined ==
  \A length1, length2 \in 1 .. 5 : \A partitions1, partitions2 \in 1 .. 3 :
    LET f1 == prepare_filter([k \in 1 .. length1 |-> k], 2, partitions1)
        f2 == prepare_filter([k \in 1 .. length2 |-> 10 * k], 2, partitions2)
        all == transform_nested(f1, f2, 3, [x \in 0 .. 5, y \in 0 .. 50 |-> 2 * x + y])
        Coefficient(p, k, length, partitions) ==
          LET place == (p - 1) * 2 + k
          IN  IF p <= partitions /\ k <= 2 /\ place <= length THEN place ELSE 0
    IN  \A p \in 1 .. 3 :
          LET sum == [k \in 1 .. 4 |-> 2 * Coefficient(p, k, length1, partitions1)
                                         + 10 * Coefficient(p, k, length2, partitions2)]
          IN  IF all[p].zero THEN sum = [k \in 1 .. 4 |-> 0] ELSE all[p].data = sum
==============================================================================
