-------------------------- MODULE LoudspeakerRenderers --------------------------
(***************************************************************************)
(* A source played by the loudspeakers of a WFS, VBAP, AAP, NFC-HOA or     *)
(* generic renderer.                                                       *)
(* Between the blocks the source, the reference and the reference offset   *)
(* change; Process computes one block: the list of sources first, then the *)
(* outputs, which compare the new weight and delay of the source with      *)
(* those of the last block and fade from one to the other.                 *)
(*                                                                         *)
(* Of a BlockParameter only the current value is kept: the old one is used *)
(* only in the block in which it was the current one before.               *)
(***************************************************************************)
EXTENDS WfsRenderer, LoudspeakerSetup, FiniteSets

Vbap == INSTANCE VbapRenderer

CONSTANTS
  LaplaceRows,   \* rows in the table of the filters of NFC-HOA
  ResponseSize,  \* samples in an impulse response of the generic renderer
  Setups,        \* for each renderer, the reproduction setups
  Positions,     \* of the source
  Models,        \* of the source
  Orientations,  \* of the source and of the reference
  References,    \* positions of the reference
  Offsets,       \* positions of the reference offset
  MaxChanges     \* bound on changes between two blocks

Hoa == INSTANCE NfcHoaRenderer

VARIABLES
  renderer,  \* "wfs", "vbap", "aap", "nfc-hoa" or "generic"; never changes
  outputs,   \* the loudspeakers; never change
  settings,  \* SharedData of the renderer and the source; `gain` 0 is also mute
  offset,    \* _reference_offset_position of VBAP
  list,      \* _sorted_loudspeakers of VBAP
  pair,      \* loudspeaker_weights of VBAP
  channels,  \* weighting_factor and delay of each SourceChannel, stored_weight
  source_state,    \* NfcHoaRenderer::Source with its modes, _weighting_factor of the generic one
  line,      \* _delayline of the input of WFS
  outputs_begin,  \* what the latest block begins with at each output; <<>> after a change
  outputs_end,    \* what it ends with
  changes,   \* since the latest block
  inside,    \* history: the offset was always between the loudspeakers
  written    \* history: blocks in the delay line, up to its size

vars == <<renderer, outputs, settings, offset, list, pair, channels,
          source_state, line, outputs_begin, outputs_end, changes, inside, written>>

Normal == {o \in DOMAIN outputs : outputs[o].model # "subwoofer"}
AnyReference == [position |-> settings.reference, orientation |-> settings.reference_orientation]
AnySource == [position |-> settings.position, orientation |-> settings.orientation,
              model |-> settings.model]
Offset == [position |-> settings.offset, orientation |-> 0]

------------------------------------------------------------------------------
(* AAP and the generic renderer                                            *)

\* RenderFunction::select() of AapRenderer: the weight is a function of the
\* angle between the loudspeaker and the source, and of the distance.  A
\* loudspeaker that is not known to be normal plays everything.
AmbisonicsWeight(output, source, gain, reference) ==
  LET way == Minus(source.position, reference.position)
      alpha_0 == orientation(output.position)
      theta_pw == rotate(orientation(way), - reference.orientation)
      panned == IF output.model = "normal"
                THEN <<Cross(alpha_0, theta_pw), Dot(alpha_0, theta_pw)>> ELSE <<"one">>
      distance == IF source.model = "plane" THEN <<"amplitude_reference_distance">>
                  ELSE <<"distance", Dot(way, way)>>
      \* in phase, the weight is 0 in the opposite direction
      opposite == /\ output.model = "normal"
                  /\ Cross(alpha_0, theta_pw) = 0 /\ Dot(alpha_0, theta_pw) < 0
  IN  IF gain = 0 \/ opposite THEN <<>> ELSE panned \o distance \o <<gain>>

\* In the generic renderer every loudspeaker plays a source through a filter of
\* its own, which never changes; only the weight of the source fades.
\* The impulse responses are interleaved in the file, one channel for each
\* output; a sample is known by its place in the file.
ir_data(size, channel_count) ==
  Hoa!fixed_matrix(size, channel_count, [k \in 0 .. size * channel_count - 1 |-> k])

Response(o) == Hoa!slices(ir_data(ResponseSize, Len(outputs)))[o - 1]

\* SourceChannel::convolve(): the input through the filter, weighted.
convolve(response, weight) == IF weight = 0 THEN <<>> ELSE <<response, weight>>

\* RenderFunction::select() and update(): what a block begins and ends with.
select(response, old, new) ==
  CASE old = 0 /\ new = 0 -> [begins |-> <<>>, ends |-> <<>>]
    [] old = 0 /\ new # 0 -> [begins |-> <<>>, ends |-> convolve(response, new)]
    [] old # 0 /\ new = 0 -> [begins |-> convolve(response, old), ends |-> <<>>]
    [] old # 0 /\ new = old ->
         [begins |-> convolve(response, old), ends |-> convolve(response, old)]
    [] old # 0 /\ new # 0 /\ new # old ->
         [begins |-> convolve(response, old), ends |-> convolve(response, new)]

------------------------------------------------------------------------------
\* The constructors; AAP needs three loudspeakers for its order to be positive.
Init ==
  /\ renderer \in {"wfs", "vbap", "aap", "nfc-hoa", "generic"}
  /\ \E setup \in Setups[renderer] : outputs = load_reproduction_setup(setup).outputs
  /\ renderer = "vbap" => Normal # {}
  /\ renderer = "aap" => Cardinality(Normal) > 2
  /\ renderer = "nfc-hoa" => Hoa!accepted(outputs)
  /\ settings = [position |-> <<0, 0>>, model |-> "point", orientation |-> 0, gain |-> 1,
                 reference |-> <<0, 0>>, reference_orientation |-> 0, offset |-> <<0, 0>>]
  /\ offset = <<0, 0>>
  /\ list = IF renderer = "vbap" THEN Vbap!SortedLoudspeakers(outputs, <<0, 0>>) ELSE <<>>
  /\ pair = <<Vbap!Unplayed, Vbap!Unplayed>>
  /\ channels = [o \in DOMAIN outputs |-> Silence]
  /\ source_state = CASE renderer = "nfc-hoa" -> Hoa!NewSource(Len(outputs))
                [] renderer = "generic" -> [weight |-> 0]
                [] OTHER -> <<>>
  /\ line = NewDelayLine
  /\ outputs_begin = <<>>
  /\ outputs_end = CASE renderer = "nfc-hoa" -> Hoa!NothingHeard(Len(outputs))
                     [] renderer = "generic" -> [o \in DOMAIN outputs |-> <<>>]
                     [] OTHER -> channels
  /\ changes = 0
  /\ inside = TRUE
  /\ written = 0

------------------------------------------------------------------------------
(* RenderSubscriber: settings that take effect with the next block         *)

Change(setting, values) ==
  /\ changes < MaxChanges
  /\ changes' = changes + 1
  /\ \E value \in values \ {settings[setting]} : settings' = [settings EXCEPT ![setting] = value]
  /\ outputs_begin' = <<>>
  /\ UNCHANGED <<renderer, outputs, offset, list, pair, channels, source_state, line,
                 outputs_end, inside, written>>

set_source_position == Change("position", Positions)
set_source_model == Change("model", Models)
set_source_orientation == settings.model = "plane" /\ Change("orientation", Orientations)
set_source_gain == Change("gain", {0, 1})
set_reference_position == Change("reference", References)
set_reference_orientation == Change("reference_orientation", Orientations)
set_reference_offset_position == renderer \in {"wfs", "vbap"} /\ Change("offset", Offsets)

------------------------------------------------------------------------------
(* One block                                                               *)

\* From all loudspeakers there is another one less than 180 degrees further.
Surrounded(p) ==
  \A o \in Normal : \E n \in Normal :
    Cross(Minus(outputs[o].position, p), Minus(outputs[n].position, p)) > 0

ProcessWfs ==
  LET new(o) == Driven(outputs[o], AnySource, settings.gain, outputs, AnyReference, Offset)
      fades == [o \in DOMAIN outputs |-> Crossfade(channels[o], new(o))]
  IN  /\ renderer = "wfs"
      /\ line' = write_block(line)
      /\ written' = IF written < NumberOfBlocks THEN written + 1 ELSE written
      /\ channels' = [o \in DOMAIN outputs |-> new(o)]
      /\ outputs_begin' = [o \in DOMAIN outputs |-> fades[o].begins]
      /\ outputs_end' = [o \in DOMAIN outputs |-> fades[o].ends]
      /\ UNCHANGED <<offset, list, pair, source_state, inside>>

\* The offset is turned by 90 degrees; then the pair of loudspeakers is found,
\* and each output interpolates between its weight in the old and the new pair.
ProcessVbap ==
  LET moved == rotate(settings.offset, -90)
      sections == IF moved # offset THEN Vbap!Reordered(list, outputs, moved) ELSE list
      new == Vbap!Pair(sections, AnySource, settings.gain, AnyReference, moved)
      weight(p, o) == [weight |-> Vbap!WeightIn(p, o), delay |-> 0]
  IN  /\ renderer = "vbap"
      /\ offset' = moved
      /\ list' = sections
      /\ pair' = new
      /\ inside' = (inside /\ Surrounded(moved))
      /\ outputs_begin' = [o \in DOMAIN outputs |-> weight(pair, o)]
      /\ outputs_end' = [o \in DOMAIN outputs |-> weight(new, o)]
      /\ UNCHANGED <<channels, source_state, line, written>>

ProcessAap ==
  LET new(o) == [weight |-> AmbisonicsWeight(outputs[o], AnySource, settings.gain, AnyReference),
                 delay |-> 0]
  IN  /\ renderer = "aap"
      /\ channels' = [o \in DOMAIN outputs |-> new(o)]
      /\ outputs_begin' = channels
      /\ outputs_end' = channels'
      /\ UNCHANGED <<offset, list, pair, source_state, line, inside, written>>

\* The sources, their modes, the accumulators and the transforms one list after
\* the other, then each output copies its slice.
ProcessNfcHoa ==
  LET radius == Hoa!array_radius(outputs)
      processed == Hoa!Processed(source_state, AnySource, settings.gain, AnyReference)
      modes == [m \in DOMAIN source_state.modes |->
                  Hoa!_process(source_state.modes[m], m, source_state, processed, radius)]
  IN  /\ renderer = "nfc-hoa"
      /\ source_state' = [processed EXCEPT !.modes = modes]
      /\ \E slice \in {Hoa!Slice(Len(outputs), source_state, source_state')} :
           /\ outputs_begin' = [o \in DOMAIN outputs |-> slice[o - 1][0]]
           /\ outputs_end' = [o \in DOMAIN outputs |-> slice[o - 1][1]]
      /\ UNCHANGED <<offset, list, pair, channels, line, inside, written>>

ProcessGeneric ==
  LET played(o) == select(Response(o), source_state.weight, settings.gain)
  IN  /\ renderer = "generic"
      /\ source_state' = [weight |-> settings.gain]
      /\ outputs_begin' = [o \in DOMAIN outputs |-> played(o).begins]
      /\ outputs_end' = [o \in DOMAIN outputs |-> played(o).ends]
      /\ UNCHANGED <<offset, list, pair, channels, line, inside, written>>

Process ==
  /\ ProcessWfs \/ ProcessVbap \/ ProcessAap \/ ProcessNfcHoa \/ ProcessGeneric
  /\ changes' = 0
  /\ UNCHANGED <<renderer, outputs, settings>>

Next ==
  \/ set_source_position \/ set_source_model \/ set_source_orientation \/ set_source_gain
  \/ set_reference_position \/ set_reference_orientation \/ set_reference_offset_position
  \/ Process

Spec == Init /\ [][Next]_vars

------------------------------------------------------------------------------
(* Properties                                                              *)

\* What an output of NFC-HOA transforms is one sample of a half-complex
\* spectrum: the cosine part of mode k in bin k, its sine part in bin n - k,
\* every bin filled by one mode.  This takes the order in which connect() lists
\* the modes, the channels of the accumulators and the transposed matrix; and
\* no two modes read the same rows of the table of coefficients.
HalfComplex ==
  renderer = "nfc-hoa" /\ outputs_begin # <<>> /\ settings.gain # 0 =>
    LET n == Len(outputs)
    IN  /\ \A o \in 1 .. n, bin \in 0 .. n - 1 :
             LET k == IF 2 * bin <= n THEN bin ELSE n - bin
                 heard == outputs_end[o][2][bin]
             IN  /\ outputs_end[o][1] = o - 1
                 /\ heard = << <<IF bin = k THEN 1 ELSE 2, k,
                                 << <<source_state.modes[k].filter, source_state.modes[k].filter>>,
                                    source_state.angle, source_state.weight>> >> >>
                 /\ source_state.modes[k].filter[2] >= Hoa!array_radius(outputs)
        /\ \A k, m \in 0 .. n \div 2 : k # m => Hoa!Rows(k) \cap Hoa!Rows(m) = {}

\* A valid delay reads exactly what was written so many samples ago, ahead of
\* the latest block by no more than the initial delay, and silence where nothing
\* was written (BlockDelayLine), after every block.
DelayedExactly ==
  renderer = "wfs" /\ (outputs_begin # <<>> \/ written = 0) =>
    \A delay \in - InitialDelay - 1 .. MaxDelay + 1 :
      /\ delay_is_valid(delay) <=> delay \in - InitialDelay .. MaxDelay
      /\ delay_is_valid(delay) =>
           \A k \in 0 .. BlockSize - 1 :
             LET time == k - delay - InitialDelay
             IN  read_block(line, delay)[k] =
                   IF time < (1 - written) * BlockSize \/ written = 0 THEN None ELSE time

\* A point source is behind all loudspeakers that play it or in front of all:
\* no loudspeaker plays it ahead of time together with one that delays it
\* (Source::_process() and select() compute the places independently).
BehindOrInFront ==
  renderer = "wfs" /\ outputs_begin # <<>> /\ settings.model = "point" =>
    \A o, n \in Normal :
      channels[o].weight # Zero /\ channels[n].weight # Zero =>
        ~ (channels[o].delay < 0 /\ channels[n].delay > 0)

\* As long as the offset stays between the loudspeakers, which is what a convex
\* array promises, the pair that plays a source is the one around it: the order
\* of the list is right though it is not always sorted (VbapRenderer::Process).
PairEncloses ==
  renderer = "vbap" /\ inside /\ outputs_begin # <<>> /\ Surrounded(offset) =>
    LET from(p) == Minus(outputs[p.ls].position, offset)
        source == Vbap!IncidenceAngle(AnySource, AnyReference, offset)
    IN  /\ \A k \in 1 .. 2 : pair[k].ls \in Normal
        /\ Cross(from(pair[1]), from(pair[2])) > 0
        /\ Cross(from(pair[1]), source) >= 0 /\ Cross(source, from(pair[2])) > 0
        /\ \A o \in Normal :
             LET other == Minus(outputs[o].position, offset)
             IN  ~ (Cross(from(pair[1]), other) > 0 /\ Cross(other, from(pair[2])) > 0)
==============================================================================
