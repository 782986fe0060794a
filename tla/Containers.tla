------------------------------ MODULE Containers -------------------------------
(***************************************************************************)
(* apf::fixed_matrix: `max_channels` channels of `max_slices` elements in  *)
(* one piece of memory, here a function from 0.  A channel is a range of   *)
(* it, a slice goes through it with a stride.  And the lists that are      *)
(* distributed over the members of others, element by element, the vectors *)
(* and lists of a fixed size, and the circular iterator.                   *)
(***************************************************************************)
EXTENDS Integers, Sequences, FiniteSets, SequencesExt

fixed_matrix(max_channels, max_slices, data) ==
  [max_channels |-> max_channels, max_slices |-> max_slices, data |-> data]

initialize(max_channels, max_slices, default) ==
  fixed_matrix(max_channels, max_slices, [k \in 0 .. max_channels * max_slices - 1 |-> default])

\* stride_iterator: `number` elements from `first` on, one in `step`.
Strided(data, first, step, number) == [k \in 0 .. number - 1 |-> data[first + k * step]]

channels(m) ==
  [c \in 0 .. m.max_channels - 1 |-> Strided(m.data, c * m.max_slices, 1, m.max_slices)]

slices(m) == [s \in 0 .. m.max_slices - 1 |-> Strided(m.data, s, m.max_slices, m.max_channels)]

\* Copied one after the other: channels, or the slices of a matrix that is
\* as high as this one is wide.
set_channels(m, ch) ==
  [m EXCEPT !.data = [k \in DOMAIN m.data |-> ch[k \div m.max_slices][k % m.max_slices]]]

\* One element of the source for the list of each target; refused if there
\* are not as many of one as of the other.
distribute_list(source, target) ==
  IF Len(source) # Len(target) THEN target
  ELSE [k \in DOMAIN target |-> Append(target[k], source[k])]

------------------------------------------------------------------------------
(* Lists whose elements go to other lists                                  *)

\* Pointers to the elements, after what is there already.
append_pointers(source, target) == target \o source

\* The opposite of distribute_list(): the element of the source is taken out of the
\* list of its target and put at the end of the garbage.  One that is missing ends
\* it, and those before it stay where they are now.
undistribute_list(source, target, garbage) ==
  LET missing == {k \in DOMAIN target : ~ Contains(target[k], source[k])}
      moved == {k \in DOMAIN target : \A j \in missing : k < j}
  IN  IF Len(source) # Len(target)
      THEN [target |-> target, garbage |-> garbage, thrown |-> TRUE]
      ELSE [target |-> [k \in DOMAIN target |->
                          IF k \in moved THEN Remove(target[k], source[k]) ELSE target[k]],
            garbage |-> garbage \o SubSeq(source, 1, Cardinality(moved)),
            thrown |-> missing # {}]

\* What was put in with distribute_list() is found again and taken out, whatever has
\* been put in or taken out in the meantime: first the one source, then the other
\* (add_to_sublist() and rem_from_sublist() of the renderers).
TakenOutAgain(first, second, target) ==
  LET both == distribute_list(second, distribute_list(first, target))
      without == undistribute_list(first, both, <<>>)
      neither == undistribute_list(second, without.target, without.garbage)
  IN  /\ ~ without.thrown /\ without.target = distribute_list(second, target)
      /\ ~ neither.thrown /\ neither.target = target
      /\ neither.garbage = first \o second

------------------------------------------------------------------------------
(* fixed_vector and fixed_list                                             *)

\* How often memory was allocated for the elements, and how many have room in it.
fixed_vector(n) == [size |-> n, capacity |-> n, allocated |-> IF n > 0 THEN 1 ELSE 0]

\* resize() and reserve() are for empty vectors; otherwise they throw, and emplace_back()
\* does when there is no room.
resize(v, n) ==
  IF v.capacity = 0
  THEN [size |-> n, capacity |-> n, allocated |-> v.allocated + IF n > 0 THEN 1 ELSE 0] ELSE v
reserve(v, n) ==
  IF v.capacity = 0
  THEN [v EXCEPT !.capacity = n, !.allocated = @ + IF n > 0 THEN 1 ELSE 0] ELSE v
emplace_back(v) == IF v.size < v.capacity THEN [v EXCEPT !.size = @ + 1] ELSE v

AfterCall(v, call) ==
  CASE call.name = "resize" -> resize(v, call.n)
    [] call.name = "reserve" -> reserve(v, call.n)
    [] call.name = "emplace_back" -> emplace_back(v)

\* Pointers to the elements stay valid: no sequence of calls allocates memory twice
\* ("without memory re-allocations", fixed_vector).
NeverReallocated(n, calls) == FoldLeft(AfterCall, fixed_vector(n), calls).allocated <= 1

\* fixed_list::move(): the elements from `first` to before `last` are placed in front
\* of `target`, which is none of them; places are counted from 1, and Len + 1 is end().
move(list, first, last, target) ==
  LET part == SubSeq(list, first, last - 1)
  IN  IF target >= last
      THEN SubSeq(list, 1, first - 1) \o SubSeq(list, last, target - 1) \o part
             \o SubSeq(list, target, Len(list))
      ELSE SubSeq(list, 1, target - 1) \o part \o SubSeq(list, target, first - 1)
             \o SubSeq(list, last, Len(list))

------------------------------------------------------------------------------
(* circular_iterator, a range of addresses and one of them                 *)

circular_iterator(begin, end, current) ==
  [begin |-> begin, end |-> end, current |-> IF current = end THEN begin ELSE current]

\* math::wrap() of the remainder as C++ has it, which has the sign of `x`.
wrapped(x, full) ==
  LET remainder == IF x >= 0 THEN x % full ELSE - ((- x) % full)
  IN  IF remainder < 0 THEN remainder + full ELSE remainder

Incremented(i) ==
  [i EXCEPT !.current = IF @ + 1 = i.end THEN i.begin ELSE @ + 1]
Decremented(i) ==
  [i EXCEPT !.current = IF @ = i.begin THEN i.end - 1 ELSE @ - 1]
Advanced(i, n) ==
  [i EXCEPT !.current = i.begin + wrapped(@ - i.begin + n, i.end - i.begin)]

\* How far it is forwards from `b` to `a`.
Difference(a, b) ==
  IF a.current >= b.current THEN a.current - b.current
  ELSE a.current - a.begin + b.end - b.current

\* It goes round and round, by single steps and by leaps in both directions of any
\* width, and never leaves its range (circular_iterator; get_read_circulator() leaps
\* backwards by more than the length of a delay line with a long initial delay).
GoesRound(i, n) ==
  /\ Advanced(i, n).current \in i.begin .. i.end - 1
  /\ Advanced(i, n + 1) = Incremented(Advanced(i, n))
  /\ Advanced(i, n - 1) = Decremented(Advanced(i, n))
  /\ Advanced(Advanced(i, n), - n) = i
  /\ Advanced(i, Difference(Advanced(i, n), i)) = Advanced(i, n)
==============================================================================
