---------------------------- MODULE CombineChannels ----------------------------
(***************************************************************************)
(* apf::CombineChannels*: an output block is made of the items of a list,  *)
(* of which a function says whether each one is silent, constant, changes  *)
(* or fades.  The first item is written over what is in the output and in  *)
(* the buffers of the crossfade, the others are added; what no item was    *)
(* written to is filled with zeros.                                        *)
(*                                                                         *)
(* An item is what select() returns for it, its signal and the factors the *)
(* function has before and after update().  A crossfade is given by its    *)
(* fade-out; the fade-in is the same data in reverse order.                *)
(***************************************************************************)
EXTENDS Integers, Sequences, SequencesExt

CombineChannelsResult == {"nothing", "constant", "change", "fade_in", "fade_out"}

Zeros(size) == [k \in 1 .. size |-> 0]
Plus(a, b) == [k \in DOMAIN a |-> a[k] + b[k]]

\* std::copy() or std::transform() to a buffer, or to accumulating_iterators for it.
Written(buffer, accumulate, values) == IF accumulate THEN Plus(buffer, values) ELSE values

\* The function object at one sample: f(x), f(x, fade_out_tag), f(x, index).
transform_iterator(values, f) == [k \in DOMAIN values |-> f[values[k]]]
Transformed(item, factor) ==
  transform_iterator(item.signal, [x \in ToSet(item.signal) |-> x * factor])

index_iterator(start, size) == [k \in 1 .. size |-> start + k - 1]

\* From the first value to the last one in `length` steps, here as a multiple of the
\* length; the last one is what the next block starts with.
linear_interpolator(first, last, length, x) == length * first + x * (last - first)

Interpolated(item) ==
  LET size == Len(item.signal)
      factors == transform_iterator(index_iterator(0, size),
                                    [x \in 0 .. size |-> linear_interpolator(item.old, item.new, size, x)])
  IN  [k \in 1 .. size |-> item.signal[k] * factors[k]]

\* Half a period of the cosine, as a table: its value at a whole number of samples.
raised_cosine(half, x) == half[x + 1]

\* One value more than a block has, because it is read in reverse order, too.
raised_cosine_fade(half) ==
  LET size == Len(half) - 1 IN
  [data |-> transform_iterator(index_iterator(0, size + 1), [x \in 0 .. size |-> raised_cosine(half, x)]),
   size |-> size]
fade_out(fade) == [k \in 1 .. fade.size |-> fade.data[k]]
fade_in(fade) == [k \in 1 .. fade.size |-> Reverse(fade.data)[k]]

------------------------------------------------------------------------------
(* The combiner `c`: its output, its buffers, and what was written to      *)

\* A new one, with whatever its memory and the output hold.
Combiner(out, in_buffer, out_buffer) ==
  [out |-> out, accumulate |-> TRUE,
   fade_in |-> in_buffer, accumulate_fade_in |-> TRUE,
   fade_out |-> out_buffer, accumulate_fade_out |-> TRUE]

before_the_loop(c) ==
  [c EXCEPT !.accumulate = FALSE, !.accumulate_fade_in = FALSE, !.accumulate_fade_out = FALSE]

case_one(c, values) ==
  [c EXCEPT !.out = Written(c.out, c.accumulate, values), !.accumulate = TRUE]

\* CombineChannelsCrossfade: what it was fades out, and after update() what it is now
\* fades in.
Faded(c, item) ==
  LET d == IF item.selection = "fade_in" THEN c
           ELSE [c EXCEPT !.fade_out = Written(c.fade_out, c.accumulate_fade_out,
                                               Transformed(item, item.old)),
                          !.accumulate_fade_out = TRUE]
  IN  IF item.selection = "fade_out" THEN d
      ELSE [d EXCEPT !.fade_in = Written(d.fade_in, d.accumulate_fade_in,
                                         Transformed(item, item.new)),
                     !.accumulate_fade_in = TRUE]

\* CombineChannelsInterpolation: the samples and their indices.
case_two_interpolation(c, item) ==
  [c EXCEPT !.out = Written(c.out, c.accumulate, Interpolated(item)), !.accumulate = TRUE]

\* How often a sample counts that neither fades nor is interpolated: all factors are
\* integers, as if they were multiplied by this.
Scale(kind, item, fade) == IF kind = "interpolation" THEN Len(item.signal) ELSE fade.data[1]

\* One item of the loop.
Combined(kind, c, item, fade) ==
  CASE item.selection = "nothing" -> c
    [] item.selection = "constant" ->
         case_one(c, Transformed(item, item.new * Scale(kind, item, fade)))
    [] OTHER -> IF kind = "interpolation" THEN case_two_interpolation(c, item) ELSE Faded(c, item)

\* Each buffer that was written to goes to the output, multiplied with its fade.
AfterFade(c, buffer, used, factors) ==
  IF used
  THEN case_one(c, [k \in DOMAIN buffer |-> buffer[k] * factors[k]])
  ELSE c

after_the_loop(c, fade) ==
  LET out == AfterFade(c, c.fade_out, c.accumulate_fade_out, fade_out(fade))
  IN  AfterFade(out, c.fade_in, c.accumulate_fade_in, fade_in(fade))

process(kind, c, items, fade) ==
  LET looped == FoldLeft(LAMBDA acc, i : Combined(kind, acc, i, fade), before_the_loop(c), items)
      after == IF kind = "interpolation" THEN looped ELSE after_the_loop(looped, fade)
  IN  IF after.accumulate THEN after ELSE [after EXCEPT !.out = Zeros(Len(c.out))]

------------------------------------------------------------------------------

\* What an item contributes to sample k: the reference for the operators above.
Contribution(kind, item, fade, k) ==
  LET all == Scale(kind, item, fade)
      out == IF kind = "interpolation" THEN all - (k - 1) ELSE fade.data[k]
  IN  item.signal[k] *
        CASE item.selection = "nothing" -> 0
          [] item.selection = "constant" -> all * item.new
          [] item.selection = "fade_out" -> out * item.old
          [] item.selection = "fade_in" -> (all - out) * item.new
          [] item.selection = "change" -> out * item.old + (all - out) * item.new

\* An output is the sum of its items, whatever was in it and in the buffers, in any
\* order of items that are silent, constant, fade in, fade out and do both
\* (CombineChannelsBase::process() and the classes derived from it).
IsSumOfItems(kind, c, items, fade) ==
  \A k \in DOMAIN c.out :
    process(kind, c, items, fade).out[k] =
      FoldLeft(LAMBDA sum, item : sum + Contribution(kind, item, fade, k), 0, items)
==============================================================================
