--------------------------- MODULE LoudspeakerSetup ----------------------------
(***************************************************************************)
(* LoudspeakerRenderer::load_reproduction_setup(): the elements of a       *)
(* reproduction setup and the outputs they become.  An element is a record *)
(* whose field `element` is its name; an attribute or a child that is not  *)
(* given is NotGiven.  What the schema refuses is left out.                    *)
(***************************************************************************)
EXTENDS Geometry, Sequences, SequencesExt

CONSTANT NotGiven

\* What is added for a loudspeaker: model and weight of an array are the
\* defaults of Loudspeaker.
NewOutput(point, model, weight, channel) ==
  [position |-> point.position, orientation |-> point.orientation,
   model |-> model, weight |-> weight, connect_to |-> channel]

\* A loudspeaker whose model is not given is of unknown type.
_load_loudspeaker(e, channel) ==
  << NewOutput(e, IF e.model = NotGiven THEN "unknown" ELSE e.model,
               IF e.weight = NotGiven THEN 1 ELSE e.weight, channel) >>

\* The loudspeakers between the first one and the last one, or one after the
\* other in the distance of the first and the second.
_load_linear_array(e, channel) ==
  LET steps == IF e.second = NotGiven THEN e.number - 1 ELSE 1
      other == IF e.second = NotGiven THEN e.last ELSE e.second
      increment == [position |-> Minus(other.position, e.first.position),
                    orientation |-> other.orientation - e.first.orientation]
      current(k) == [position |-> <<e.first.position[1] + (k * increment.position[1]) \div steps,
                                    e.first.position[2] + (k * increment.position[2]) \div steps>>,
                     orientation |-> e.first.orientation + (k * increment.orientation) \div steps]
  IN  [k \in 1 .. e.number |-> NewOutput(current(k - 1), "normal", 1, channel + k - 1)]

\* Counterclockwise, over the full circle if no angle is given.
_load_circular_array(e, channel) ==
  LET increment == CASE e.second # NotGiven -> e.second
                     [] e.second = NotGiven /\ e.last # NotGiven -> e.last \div (e.number - 1)
                     [] OTHER -> 360 \div e.number
      radius == Minus(e.first.position, e.center)
      point(k) == [position |-> Plus(rotate(radius, k * increment), e.center),
                   orientation |-> e.first.orientation + k * increment]
  IN  [k \in 1 .. e.number |-> NewOutput(point(k - 1), "normal", 1, channel + k - 1)]

\* A <skip> leaves channels out.
Loaded(acc, e) ==
  LET new == CASE e.element = "loudspeaker" -> _load_loudspeaker(e, acc.channel)
               [] e.element = "linear_array" -> _load_linear_array(e, acc.channel)
               [] e.element = "circular_array" -> _load_circular_array(e, acc.channel)
               [] e.element = "skip" -> <<>>
  IN  [outputs |-> acc.outputs \o new,
       channel |-> acc.channel + (IF e.element = "skip" THEN e.number ELSE Len(new))]

load_reproduction_setup(elements) ==
  FoldLeft(Loaded, [outputs |-> <<>>, channel |-> 1], elements)
==============================================================================
