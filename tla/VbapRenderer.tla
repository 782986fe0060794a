----------------------------- MODULE VbapRenderer -----------------------------
(***************************************************************************)
(* VbapRenderer: the list of the loudspeakers in the order of their        *)
(* azimuth as seen from the reference offset, and the pair of them that    *)
(* plays a source.  The largest angle of a pair is 180 degrees, and a      *)
(* single loudspeaker plays what is less than 30 degrees beside it.        *)
(***************************************************************************)
EXTENDS Geometry, Sequences, SequencesExt

Unplayed == [ls |-> 0, weight |-> <<>>]

\* _update_angles(): `list` holds the numbers of the outputs.
_update_angles(list, outputs, offset) ==
  [k \in DOMAIN list |->
     [list[k] EXCEPT !.angle = orientation(Minus(outputs[list[k].ls].position, offset))]]

_sort_loudspeakers(list) == SortSeq(list, LAMBDA a, b : AngleLess(a.angle, b.angle))

\* Whether the next azimuth is at most 180 degrees further.  They are compared
\* as numbers from 0 to 360; at the end of the list the first one comes next,
\* 360 degrees later.
WithinMaxAngle(angle, next) ==
  ~ AngleLess(angle, next) \/ Cross(angle, next) > 0
    \/ (Cross(angle, next) = 0 /\ Dot(angle, next) < 0)
WithinMaxAngleAround(angle, first) ==
  /\ AngleLess(first, angle)
  /\ Cross(angle, first) > 0 \/ (Cross(angle, first) = 0 /\ Dot(angle, first) < 0)

_update_valid_sections(list) ==
  [k \in DOMAIN list |->
     [list[k] EXCEPT !.valid_section =
        IF k = Len(list) THEN WithinMaxAngleAround(list[k].angle, list[1].angle)
        ELSE WithinMaxAngle(list[k].angle, list[k + 1].angle)]]

\* load_reproduction_setup() of the renderer, after the outputs were loaded.
SortedLoudspeakers(outputs, offset) ==
  LET normal == SelectSeq([o \in DOMAIN outputs |-> o],
                          LAMBDA o : outputs[o].model # "subwoofer")
      list == [k \in DOMAIN normal |-> [ls |-> normal[k], angle |-> <<1, 0>>, valid_section |-> FALSE]]
  IN  _update_valid_sections(_sort_loudspeakers(_update_angles(list, outputs, offset)))

Mutant_Reordered(list, outputs, offset) ==
  _update_valid_sections(_update_angles(list, outputs, offset))

\* Process, if the reference offset has changed: it is sorted again only if the
\* azimuths have wrapped around.
Reordered(list, outputs, offset) ==
  LET moved == _update_angles(list, outputs, offset)
  IN  _update_valid_sections(
        IF AngleLess(Last(moved).angle, Head(moved).angle)
        THEN _sort_loudspeakers(moved) ELSE moved)

\* std::upper_bound(): halves the rest of the list until nothing is left.
upper_bound(list, angle) ==
  LET search[first \in 1 .. Len(list) + 1, len \in 0 .. Len(list)] ==
        LET half == len \div 2 IN
        IF len = 0 THEN first
        ELSE IF AngleLess(angle, list[first + half].angle) THEN search[first, half]
        ELSE search[first + half + 1, len - half - 1]
  IN  search[1, Len(list)]

\* The circular iterators `first` and `second` around the source.
Second(list, angle) ==
  LET k == upper_bound(list, angle) IN IF k > Len(list) THEN 1 ELSE k
First(list, angle) ==
  IF Second(list, angle) = 1 THEN Len(list) ELSE Second(list, angle) - 1

\* Source::Process: the azimuth of the source as seen from the reference offset.
IncidenceAngle(source, reference, offset) ==
  rotate(orientation(Minus(source.position,
           Plus(rotate(offset, reference.orientation), reference.position))),
         - reference.orientation)

\* A loudspeaker of a pair whose section is valid: the sine of the angle of the
\* source on the side of the other one, by the sine of the angle between both.
Panned(entry, numerator, denominator) ==
  [ls |-> entry.ls, weight |-> IF numerator = 0 THEN <<>> ELSE <<"pan", numerator, denominator>>]

\* Less than 30 degrees, counterclockwise.
Overhangs(from, to) ==
  Dot(from, to) > 0 /\ Cross(from, to) >= 0
    /\ 3 * Cross(from, to) * Cross(from, to) < Dot(from, to) * Dot(from, to)
Overhanging(entry, from, to) ==
  IF Overhangs(from, to) THEN [ls |-> entry.ls, weight |-> <<"cos", Cross(from, to), Dot(from, to)>>]
  ELSE Unplayed

_calculate_loudspeaker_weights(angle, first, second) ==
  IF first.valid_section
  THEN << Panned(first, Cross(angle, second.angle), Cross(first.angle, second.angle)),
          Panned(second, Cross(first.angle, angle), Cross(first.angle, second.angle)) >>
  ELSE << Overhanging(first, first.angle, angle), Overhanging(second, angle, second.angle) >>

\* The weights are multiplied by that of the source.
Pair(list, source, gain, reference, offset) ==
  LET angle == IncidenceAngle(source, reference, offset)
      w == _calculate_loudspeaker_weights(angle, list[First(list, angle)], list[Second(list, angle)])
  IN  [k \in 1 .. 2 |-> IF gain = 0 THEN [w[k] EXCEPT !.weight = <<>>] ELSE w[k]]

\* get_weight() of an output, for the old or the new pair.
WeightIn(pair, o) ==
  CASE pair[1].ls = o -> pair[1].weight
    [] pair[1].ls # o /\ pair[2].ls = o -> pair[2].weight
    [] OTHER -> <<>>
==============================================================================
