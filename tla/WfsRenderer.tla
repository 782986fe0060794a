----------------------------- MODULE WfsRenderer ------------------------------
(***************************************************************************)
(* What WfsRenderer computes for a source and an output: whether the       *)
(* source is focused, with which weight and delay the loudspeaker plays    *)
(* it, and how the combiner crossfades.  A weight is the tuple of what it  *)
(* is computed from, and Zero if it is 0.  One unit of length is the way   *)
(* of sound in one sample.                                                 *)
(***************************************************************************)
EXTENDS BlockDelayLine, Geometry

Zero == <<>>

Mutant__focused(source, outputs, reference) ==
  /\ source.model # "plane"
  /\ \A o \in DOMAIN outputs : outputs[o].model # "subwoofer" =>
       LET ls == outputs[o]
       IN  Dot(Minus(ls.position, source.position), Unit(ls.orientation)) <= 0

\* Source::_process(): focused unless a loudspeaker turns its back to it.
_focused(source, outputs, reference) ==
  /\ source.model # "plane"
  /\ \A o \in DOMAIN outputs : outputs[o].model # "subwoofer" =>
       LET ls == transform(outputs[o], reference)
       IN  Dot(Minus(ls.position, source.position), Unit(ls.orientation)) <= 0

\* A point source at a normal loudspeaker `ls`, whose place is known: played
\* with the delay of the distance, or ahead of time if it is focused and
\* between the loudspeaker and the reference.
PointSource(ls, source, ref_off, focused) ==
  LET way == Minus(ls.position, source.position)
      inner == Dot(way, Unit(ls.orientation))
      facing == <<"cos", IF inner < 0 THEN - inner ELSE inner, Dot(way, way)>>
      between == Dot(way, Minus(ref_off.position, source.position)) < 0
  IN  CASE inner < 0 /\ focused /\ between -> [weight |-> facing, delay |-> SamplesBehind(way)]
        [] inner > 0 -> [weight |-> facing, delay |-> Samples(way)]
        [] OTHER -> [weight |-> Zero, delay |-> Samples(way)]

\* A plane wave; loudspeakers of the other direction do not play it.
PlaneWave(ls, source) ==
  LET inner == Dot(Unit(source.orientation), Unit(ls.orientation))
  IN  IF inner < 0 THEN [weight |-> Zero, delay |-> 0]
      ELSE [weight |-> IF inner = 0 THEN Zero ELSE <<"cos", inner>>,
            delay |-> plane_to_point_distance(source, ls.position)]

\* A subwoofer is always on, with the delay that is correct at the reference;
\* here both distances are whole numbers of samples.
Subwoofer(ls, source, ref_off) ==
  LET distance == Samples(Minus(ls.position, ref_off.position))
      way == Minus(source.position, ref_off.position)
  IN  CASE source.model = "point" ->
             [weight |-> <<"sqrt", Dot(way, way), distance>>, delay |-> Samples(way) - distance]
        [] source.model = "plane" ->
             [weight |-> <<"one">>,
              delay |-> plane_to_point_distance(source, ref_off.position) - distance]
        [] OTHER -> [weight |-> <<"one">>, delay |-> 0]

\* The attenuation of what is not a plane wave goes with the distance; that all
\* that is closer than 0.5 m counts as far as that is not distinguished.
Attenuation(source, ref_off) ==
  LET way == Minus(source.position, ref_off.position)
  IN  IF source.model = "plane" THEN <<"amplitude_reference_distance">>
      ELSE <<"distance", Dot(way, way)>>

\* RenderFunction::select() as far as weighting_factor and delay are assigned.
Driven(output, source, gain, outputs, reference, offset) ==
  LET ls == transform(output, reference)
      ref_off == transform(reference, offset)
      r == CASE output.model = "subwoofer" -> Subwoofer(ls, source, ref_off)
             [] output.model # "subwoofer" /\ source.model = "point" ->
                  PointSource(ls, source, ref_off, _focused(source, outputs, reference))
             [] output.model # "subwoofer" /\ source.model = "plane" -> PlaneWave(ls, source)
             [] OTHER -> [weight |-> <<"one">>, delay |-> 0]
      silent == r.weight = Zero \/ gain = 0 \/ output.weight = 0
  IN  IF delay_is_valid(r.delay)
      THEN [weight |-> IF silent THEN Zero
                       ELSE r.weight \o Attenuation(source, ref_off) \o <<gain, output.weight>>,
            delay |-> r.delay]
      ELSE [weight |-> Zero, delay |-> 0]

\* The crossfade mode that select() returns.
CrossfadeMode(old, new) ==
  CASE old.weight = Zero /\ new.weight = Zero -> "nothing"
    [] new.weight # Zero /\ old = new -> "constant"
    [] old.weight = Zero /\ new.weight # Zero -> "fade_in"
    [] old.weight # Zero /\ new.weight = Zero -> "fade_out"
    [] OTHER -> "change"

Silence == [weight |-> Zero, delay |-> 0]

Mutant_Crossfade(old, new) ==
  LET mode == CrossfadeMode(old, new)
      from == [weight |-> old.weight, delay |-> new.delay]
      into == [weight |-> new.weight,
               delay |-> IF mode = "constant" THEN old.delay ELSE new.delay]
  IN  [begins |-> IF mode \in {"nothing", "fade_in"} THEN Silence ELSE from,
       ends |-> IF mode \in {"nothing", "fade_out"} THEN Silence ELSE into]

\* What the block begins with, read with the old delay, and what it ends with:
\* update() reads with the new delay.
Crossfade(old, new) ==
  LET mode == CrossfadeMode(old, new)
      from == [weight |-> IF mode = "constant" THEN new.weight ELSE old.weight,
               delay |-> old.delay]
      into == [weight |-> new.weight,
               delay |-> IF mode = "constant" THEN old.delay ELSE new.delay]
  IN  [begins |-> IF mode \in {"nothing", "fade_in"} THEN Silence ELSE from,
       ends |-> IF mode \in {"nothing", "fade_out"} THEN Silence ELSE into]
==============================================================================
