----------------------------- MODULE MCRenderers ------------------------------
(* A circle with a subwoofer, two lines and a single loudspeaker.  The     *)
(* loudspeakers are at odd coordinates in the direction they face, sources *)
(* and references at even ones: no source is exactly beside a loudspeaker. *)
(* For the headphones three partitions, two directions, one factor besides *)
(* 0 and two audible weights: they change while older changes are under way. *)
EXTENDS Renderers

Circle ==
  << [element |-> "circular_array", number |-> 4, center |-> <<0, 0>>,
      first |-> [position |-> <<3, 0>>, orientation |-> 180], second |-> NotGiven, last |-> NotGiven],
     [element |-> "skip", number |-> 2],
     [element |-> "loudspeaker", position |-> <<2, 3>>, orientation |-> 0,
      model |-> "subwoofer", weight |-> NotGiven] >>

Lines ==
  << [element |-> "linear_array", number |-> 2, second |-> NotGiven,
      first |-> [position |-> <<3, -1>>, orientation |-> 180],
      last |-> [position |-> <<3, 1>>, orientation |-> 180]],
     [element |-> "linear_array", number |-> 2, last |-> NotGiven,
      first |-> [position |-> <<-3, 1>>, orientation |-> 0],
      second |-> [position |-> <<-3, -1>>, orientation |-> 0]] >>

Alone ==
  << [element |-> "loudspeaker", position |-> <<3, 2>>, orientation |-> 180,
      model |-> NotGiven, weight |-> NotGiven] >>

\* Seven loudspeakers for the four modes of an order of 3.
Seven ==
  << [element |-> "linear_array", number |-> 3, second |-> NotGiven,
      first |-> [position |-> <<3, -2>>, orientation |-> 180],
      last |-> [position |-> <<3, 2>>, orientation |-> 180]],
     [element |-> "linear_array", number |-> 4, last |-> NotGiven,
      first |-> [position |-> <<-3, 3>>, orientation |-> 0],
      second |-> [position |-> <<-3, 1>>, orientation |-> 0]] >>

SomeSetups ==
  [r \in {"wfs", "vbap", "aap", "nfc-hoa", "generic"} |->
     CASE r = "nfc-hoa" -> {Lines, Seven}
       [] r = "generic" -> {Lines}
       [] r = "aap" -> {Circle}
       [] r = "wfs" -> {Circle, Lines}
       [] OTHER -> {Circle, Lines, Alone}]
SomePositions == {<<0, 0>>, <<-2, 0>>, <<-6, 2>>, <<4, 4>>}
TwoReferences == {<<0, 0>>, <<2, 0>>}
SomeOffsets == {<<0, 0>>, <<1, 0>>, <<-1, 0>>, <<-6, 1>>}

\* Reproduction setups for the MEX file.
SomeFiles ==
  [name \in {"two", "three", "gone", "sub", "many"} |->
     CASE name = "two" -> [outputs |-> 2, fails |-> "nothing"]
       [] name = "three" -> [outputs |-> 3, fails |-> "nothing"]
       [] name = "gone" -> [outputs |-> 0, fails |-> "document"]
       [] name = "sub" -> [outputs |-> 3, fails |-> "subwoofer"]
       [] name = "many" -> [outputs |-> 4, fails |-> "order"]]

------------------------------------------------------------------------------
(* What the renderers use, for all inputs of a small size                  *)

Combining == INSTANCE CombineChannels
Data == INSTANCE Containers

\* Blocks of three samples, and four values for the raised cosine.
Fade == Combining!raised_cosine_fade(<<4, 3, 1, 0>>)
SomeItems(kind) ==
  [selection : IF kind = "interpolation" THEN {"nothing", "constant", "change"}
               ELSE Combining!CombineChannelsResult,
   signal : {<<1, 2, 3>>, <<10, 20, 40>>}, old : {1, 5}, new : {7}]

\* Up to three items, and the memory empty or not.
ASSUME CombinedIsSum ==
  \A kind \in {"crossfade", "interpolation"}, x \in {0, 100} :
    \A items \in Data!BoundedSeq(SomeItems(kind), 3) :
      Combining!IsSumOfItems(kind, Combining!Combiner(<<x, x, x>>, <<x, 2 * x, x>>, <<x, x, 3 * x>>),
                             items, Fade)

\* Two targets, with an element of another source in one of them.
ASSUME SublistsAreFound ==
  Data!TakenOutAgain(<<"a1", "a2">>, <<"b1", "b2">>, << <<>>, <<"c2">> >>)

\* Up to four calls, of a vector that has been given a size or not.
ASSUME VectorsStay ==
  \A n \in 0 .. 2 :
    \A calls \in Data!BoundedSeq([name : {"resize", "reserve", "emplace_back"}, n : 0 .. 2], 4) :
      Data!NeverReallocated(n, calls)

\* More than twice around, in both directions.
ASSUME CirclesAreRound ==
  \A length \in 1 .. 4 : \A current \in 10 .. 10 + length, n \in -9 .. 9 :
    Data!GoesRound(Data!circular_iterator(10, 10 + length, current), n)

\* A part of a list is moved to each place outside of it: nothing is lost and the
\* others keep their order.
ASSUME PartsMove ==
  \A first \in 1 .. 4 : \A last \in first .. 5 : \A target \in (1 .. first) \cup (last .. 5) :
    LET moved == Data!move(<<"a", "b", "c", "d">>, first, last, target)
        others == SubSeq(<<"a", "b", "c", "d">>, 1, first - 1)
                    \o SubSeq(<<"a", "b", "c", "d">>, last, 4)
    IN  /\ Data!ToSet(moved) = {"a", "b", "c", "d"} /\ Len(moved) = 4
        /\ SelectSeq(moved, LAMBDA x : x \in Data!ToSet(others)) = others
\* The filters of NFC-HOA: one section and two, one of them oscillating.
Hoa == INSTANCE NfcHoaRenderer
SomeSections == {<<1, 0, 0, 0, 0>>, <<1, 2, 3, 0, 0>>, <<4, -3, 6, 0, 1>>, <<1, 5, 0, -1, 1>>}
ASSUME FiltersAreEquations ==
  /\ \A c1 \in SomeSections :
       /\ Hoa!IsDifferenceEquation(<<c1>>, <<1, 0, 2, 0, -5, 0>>)
       /\ \A c2 \in SomeSections :
            /\ Hoa!IsDifferenceEquation(<<c1, c2>>, <<1, 0, 2, 0, -5, 0>>)
            /\ Hoa!IsGradual(<<c1, c2>>, <<c2, c1>>, <<1, 0, 2>>)
  /\ \A b1, b2 \in -1 .. 2, a1, a2 \in 0 .. 2, h \in 1 .. 2 :
       Hoa!IsSubstitution(<<1, b1, b2, a1, a2>>, h)
==============================================================================
