---------------------------- MODULE NfcHoaRenderer -----------------------------
(***************************************************************************)
(* NfcHoaRenderer: a source is filtered for each Ambisonics mode and       *)
(* turned by its direction; the modes of all sources are added up in the   *)
(* bins of a half-complex spectrum over the loudspeakers, which is         *)
(* transformed sample by sample.  There, filter coefficients and rotations *)
(* are known by what they are computed from; the filter itself is at the   *)
(* end, with whole numbers.  All loudspeakers are normal ones: with a      *)
(* subwoofer, load_reproduction_setup() throws.                            *)
(***************************************************************************)
EXTENDS Containers, Geometry

CONSTANT LaplaceRows  \* in the table of coefficients

NoCoefficients == <<>>

\* HoaCoefficients: the rows of the table that belong to mode m; a mode behind
\* the last row is refused.
_coeffs_begin(m) == (IF m = 0 THEN 0 ELSE 1) + (m * m) \div 4
Rows(m) == _coeffs_begin(m) .. _coeffs_begin(m) + (IF m = 0 THEN 1 ELSE (m + 1) \div 2) - 1
supported(m) == _coeffs_begin(m) < LaplaceRows

order(loudspeakers) == loudspeakers \div 2

\* load_reproduction_setup() throws if there is a subwoofer, connect() if the
\* order is not supported.
accepted(outputs) ==
  /\ \A o \in DOMAIN outputs : outputs[o].model # "subwoofer"
  /\ supported(order(Len(outputs)))

\* array_radius, the mean distance, in samples
array_radius(outputs) ==
  LET total[n \in 0 .. Len(outputs)] ==
        IF n = 0 THEN 0 ELSE total[n - 1] + Samples(outputs[n].position)
  IN  total[Len(outputs)] \div Len(outputs)

------------------------------------------------------------------------------
(* The modes of a source and the accumulators they are added to            *)

Mutant_ModePair(mode_number, n) ==
  [first |-> IF mode_number = 0 /\ n % 2 = 0 THEN <<>> ELSE <<mode_number>>,
   second |-> n - mode_number]

\* ModePair: modes that need about the same time; the first one is missing
\* if the number of modes is odd.
ModePair(mode_number, n) ==
  LET order_is_odd == n % 2 = 0
  IN  [first |-> IF mode_number = 0 /\ order_is_odd THEN <<>>
                 ELSE <<mode_number - (IF order_is_odd THEN 1 ELSE 0)>>,
       second |-> n - mode_number]

\* Source::connect(): from the last pair to the first one, the first mode
\* comes to the front and the second one to the back.
_modes(n) ==
  LET pair(k) == ModePair(n \div 2 + 1 - k, n)
      modes[k \in 0 .. n \div 2 + 1] ==
        IF k = 0 THEN <<>> ELSE pair(k).first \o modes[k - 1] \o <<pair(k).second>>
  IN  modes[n \div 2 + 1]

\* The channels of the _mode_matrix that accumulator i writes into, for the
\* positive and the negative mode; -1 is a discard_iterator.
ModeAccumulator(i, loudspeakers) ==
  IF i = 0 \/ (i = order(loudspeakers) /\ loudspeakers % 2 = 0) THEN <<i, -1>>
  ELSE <<i, loudspeakers - i>>

\* The list of each accumulator, with the one source connected.
_mode_accumulator_list(loudspeakers) ==
  distribute_list(_modes(order(loudspeakers)),
                  [k \in 1 .. order(loudspeakers) + 1 |-> <<>>])

------------------------------------------------------------------------------
(* One block                                                               *)

NewMode ==
  [filter |-> NoCoefficients, _coefficients |-> NoCoefficients, rotation |-> <<0, 0>>]

\* Set to impossible values to force an update in the first block.
NewSource(loudspeakers) ==
  [distance |-> -1, angle |-> <<0, 0>>, source_model |-> "none", weight |-> <<>>,
   modes |-> [m \in 0 .. order(loudspeakers) |-> NewMode]]

\* Source::Process: the distance of the source and the angle at which it is
\* seen, as a vector: one and the same for all that are the same azimuth.
Processed(old, source, gain, reference) ==
  LET way == Minus(source.position, reference.position)
      direction == IF source.model = "point" THEN orientation(way)
                   ELSE Unit(source.orientation - 180)
      angle == rotate(direction, 90 - reference.orientation)
      distance == Samples(way)
      attenuation == IF source.model = "point" THEN <<"sqrt", Dot(way, way)>> ELSE <<"one">>
  IN  [old EXCEPT !.distance = distance,
                  !.angle = IF @ # <<0, 0>> /\ Cross(@, angle) = 0 /\ Dot(@, angle) > 0 THEN @
                            ELSE angle,
                  !.source_model = source.model,
                  !.weight = IF gain = 0 THEN <<>> ELSE attenuation \o <<gain>>]

filter_changed(old, new) == old.distance # new.distance \/ old.source_model # new.source_model
angle_changed(old, new) == old.angle # new.angle

\* Scaled for the source; focused sources are avoided: none is nearer than the
\* loudspeakers.
Coefficients(m, source, radius) ==
  <<Rows(m), IF source.distance < radius THEN radius ELSE source.distance, source.source_model>>

Rotation(mode, old, new) == IF angle_changed(old, new) THEN new.angle ELSE mode.rotation

interpolation_mode(old, new) ==
  CASE old.weight = <<>> /\ new.weight = <<>> -> "nothing"
    [] ~ (old.weight = <<>> /\ new.weight = <<>>)
       /\ (old.weight # new.weight \/ angle_changed(old, new) \/ filter_changed(old, new)) -> "change"
    [] OTHER -> "constant"

\* Mode::_process(): the coefficients are swapped and scaled anew, and in the
\* end the filter has the new ones.  The old coefficients and the old rotation
\* are those that `mode` had before.
_process(mode, m, old, new, radius) ==
  LET target == Coefficients(m, new, radius)
  IN  IF filter_changed(old, new)
      THEN [filter |-> target, _coefficients |-> target, rotation |-> Rotation(mode, old, new)]
      ELSE [mode EXCEPT !.rotation = Rotation(mode, old, new)]

\* What a mode adds to its accumulator: filtered with, turned by, weighted with.
Heard(filter, rotation, weight) == IF weight = <<>> THEN <<>> ELSE <<filter, rotation, weight>>

\* The first sample of a block is filtered with what is still set, the next ones
\* with coefficients between the old ones and the new ones; RenderFunction
\* interpolates between the rotations only in the mode "change".
FirstAndLast(old, new, m) ==
  LET last == Heard(<<new.modes[m].filter, new.modes[m]._coefficients>>, new.modes[m].rotation, new.weight)
      set == <<old.modes[m].filter, old.modes[m]._coefficients>>
  IN  CASE interpolation_mode(old, new) = "nothing" -> << <<>>, <<>> >>
        [] interpolation_mode(old, new) = "constant" ->
             << Heard(set, new.modes[m].rotation, new.weight), last >>
        [] interpolation_mode(old, new) = "change" ->
             << Heard(set, old.modes[m].rotation, old.weight), last >>

\* What the accumulators leave in channel `c` of one sample, where `heard` is what
\* is heard of each mode: <<part, mode, sound>> of each mode in the list that is heard.
\* Bin i is the part of mode i that is multiplied with rotation1, the last bins are
\* those with rotation2.  What a later accumulator writes into the same channel stays.
Accumulated(c, loudspeakers, heard) ==
  LET lists == _mode_accumulator_list(loudspeakers)
      part(i) == IF ModeAccumulator(i, loudspeakers)[1] = c THEN 1
                 ELSE IF ModeAccumulator(i, loudspeakers)[2] = c THEN 2 ELSE 0
      writing == {i \in 0 .. order(loudspeakers) : part(i) # 0}
      last == CHOOSE i \in writing : \A j \in writing : j <= i
      modes == lists[last + 1]
  IN  IF writing = {} THEN <<>>
      ELSE [k \in {j \in DOMAIN modes : heard[modes[j]] # <<>>} |->
              <<part(last), modes[k], heard[modes[k]]>>]

\* _mode_matrix, here with two samples.
_mode_matrix(loudspeakers, old, new) ==
  LET heard == [sample \in 0 .. 1 |->
                  [m \in DOMAIN new.modes |-> FirstAndLast(old, new, m)[sample + 1]]]
  IN  fixed_matrix(loudspeakers, 2,
        [k \in 0 .. 2 * loudspeakers - 1 |-> Accumulated(k \div 2, loudspeakers, heard[k % 2])])

\* _fft_matrix after the transforms, in place, over all bins of a sample; an
\* output copies its slice.
Slice(loudspeakers, old, new) ==
  LET transposed == set_channels(initialize(2, loudspeakers, <<>>),
                                 slices(_mode_matrix(loudspeakers, old, new)))
      spectrum(sample) == channels(transposed)[sample]
      transformed == set_channels(transposed,
        [sample \in 0 .. 1 |-> [o \in 0 .. loudspeakers - 1 |-> <<o, spectrum(sample)>>]])
  IN  slices(transformed)

\* Before the first block, no mode is heard and all bins are zero.
NothingHeard(loudspeakers) ==
  [o \in 1 .. loudspeakers |->
     <<o - 1, [bin \in 0 .. loudspeakers - 1 |->
                 Accumulated(bin, loudspeakers, [m \in 0 .. order(loudspeakers) |-> <<>>])]>>]
------------------------------------------------------------------------------
(* The filter of a mode, sample by sample, with whole numbers              *)

\* Coefficients are <<b0, b1, b2, a1, a2>>, of a digital filter (SosCoefficients) or,
\* with b0 = 1, an analog one (LaplaceCoefficients).
\* lhs + x * (rhs - lhs) / length, where the length divides the difference
SosCoefficients(lhs, rhs, x, length) ==
  [k \in 1 .. 5 |-> lhs[k] + (x * (rhs[k] - lhs[k])) \div length]

\* One sample through one section, which keeps its state when it is set.
BiQuad(section, in) ==
  LET w0 == section.w[2]
      w1 == section.w[3]
      w2 == in - section.c[4] * w1 - section.c[5] * w0
  IN  [c |-> section.c, w |-> <<w0, w1, w2>>,
       out |-> section.c[1] * w2 + section.c[2] * w1 + section.c[3] * w0]

\* Through all sections, one after the other; the output is added to the others.
Cascade(filter, in) ==
  LET step(acc, section) ==
        LET next == BiQuad(section, acc.in)
        IN  [in |-> next.out, sections |-> Append(acc.sections, [c |-> next.c, w |-> next.w])]
      passed == FoldLeft(step, [in |-> in, sections |-> <<>>], filter.sections)
  IN  [sections |-> passed.sections, out |-> Append(filter.out, passed.in)]

NewCascade(coefficients) ==
  [sections |-> [k \in DOMAIN coefficients |-> [c |-> coefficients[k], w |-> <<0, 0, 0>>]],
   out |-> <<>>]

set(filter, coefficients) ==
  [filter EXCEPT !.sections = [k \in DOMAIN @ |-> [@[k] EXCEPT !.c = coefficients[k]]]]

execute(filter, block) == FoldLeft(Cascade, filter, block)

\* A block while the coefficients change: set anew after each sample.
executeChanging(filter, block, old, new) ==
  LET size == Len(block) IN
  FoldLeft(LAMBDA f, index : set(Cascade(f, block[index]),
                                 [k \in DOMAIN old |-> SosCoefficients(old[k], new[k], index, size)]),
           filter, [index \in 1 .. size |-> index])

\* The polynomial whose roots are the eigenvalues, real or not.
roots2poly(R) == << - (R[1][1] + R[2][2]), R[1][1] * R[2][2] - R[1][2] * R[2][1] >>

\* bilinear(), with `h` = 1 / (2 * lambda); the root of 1 / lambda cancels.  The results
\* are to be divided by <<det, det^2, det^4, det, det^2>>.
bilinear(in, h) ==
  LET A == << <<- in[4], - in[5]>>, <<1, 0>> >>
      C == <<in[2] - in[4], in[3] - in[5]>>
      one(i, j) == IF i = j THEN 1 ELSE 0
      T1 == [i \in 1 .. 2 |-> [j \in 1 .. 2 |-> one(i, j) + h * A[i][j]]]
      T2 == [i \in 1 .. 2 |-> [j \in 1 .. 2 |-> one(i, j) - h * A[i][j]]]
      det == T2[1][1] * T2[2][2] - T2[1][2] * T2[2][1]
      Ad == << <<T1[1][1] * T2[2][2] - T1[2][1] * T2[1][2], T1[1][2] * T2[2][2] - T1[2][2] * T2[1][2]>>,
               <<T1[2][1] * T2[1][1] - T1[1][1] * T2[2][1], T1[2][2] * T2[1][1] - T1[1][2] * T2[2][1]>> >>
      Bd == <<T2[2][2], - T2[2][1]>>
      Cd == <<C[1] * T2[2][2] - C[2] * T2[2][1], C[2] * T2[1][1] - C[1] * T2[1][2]>>
      Tmp == [i \in 1 .. 2 |-> [j \in 1 .. 2 |-> det * Ad[i][j] - 2 * h * Bd[i] * Cd[j]]]
      a == roots2poly(Ad)
      b == roots2poly(Tmp)
  IN  [det |-> det, c |-> <<h * Cd[1] + det, b[1] + h * Cd[1] * a[1],
                            b[2] + h * Cd[1] * a[2] * det, a[1], a[2]>>]

\* The reference: (s^2 + p * s + q) * h^2, with s = (1 - z) / ((1 + z) * h), times (1 + z)^2.
Substituted(p, q, h) == <<1 + p * h + q * h * h, 2 * q * h * h - 2, 1 - p * h + q * h * h>>

\* The bilinear transform, by way of a state space, is the substitution.
IsSubstitution(in, h) ==
  LET out == bilinear(in, h)
      above == Substituted(in[2], in[3], h)
      below == Substituted(in[4], in[5], h)
      d == out.det
  IN  /\ d = below[1]
      /\ out.c = <<above[1], d * above[2], d * d * d * above[3], below[2], d * below[3]>>

\* Sections are difference equations, one after the other; and when blocks end and
\* whether coefficients are set anew to what they are does not matter.
IsDifferenceEquation(coefficients, block) ==
  LET x(s, k) == IF k < 1 THEN 0 ELSE s[k]
      y(c, s) == LET v[k \in -1 .. Len(s)] ==
                       IF k < 1 THEN 0
                       ELSE c[1] * x(s, k) + c[2] * x(s, k - 1) + c[3] * x(s, k - 2)
                              - c[4] * v[k - 1] - c[5] * v[k - 2]
                 IN  [k \in DOMAIN s |-> v[k]]
      all == execute(NewCascade(coefficients), block)
  IN  /\ all.out = FoldLeft(LAMBDA s, c : y(c, s), block, coefficients)
      /\ \A n \in 1 .. Len(block) :
           LET parts(f) == executeChanging(f, SubSeq(block, n + 1, Len(block)), coefficients, coefficients)
           IN  parts(execute(NewCascade(coefficients), SubSeq(block, 1, n))) = all

\* A change begins with the old coefficients and ends with the new ones, with which the
\* next block goes on (Mode::_process()).
IsGradual(old, new, block) ==
  LET changed == executeChanging(NewCascade(old), block, old, new)
  IN  /\ changed.out[1] = execute(NewCascade(old), block).out[1]
      /\ \A k \in DOMAIN new : changed.sections[k].c = new[k]
==============================================================================
