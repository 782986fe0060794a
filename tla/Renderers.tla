------------------------------- MODULE Renderers -------------------------------
(***************************************************************************)
(* The rendering of one source by any of the SSR's programs: each one is   *)
(* compiled with one renderer.  ssr-binaural and ssr-brs play it over      *)
(* headphones (BinauralSource, BrsSource), the others over loudspeakers    *)
(* (LoudspeakerRenderers).  The variables of the other kind keep their     *)
(* initial values.                                                         *)
(***************************************************************************)
EXTENDS BrsSource, BlockDelayLine, MatlabInterface

CONSTANTS NotGiven, LaplaceRows, ResponseSize, Setups, Positions, Models, Orientations,
          References, Offsets, MaxChanges

VARIABLES renderer, outputs, settings, offset, list, pair, channels, source_state, line,
          outputs_begin, outputs_end, changes, inside, written

Loudspeakers == INSTANCE LoudspeakerRenderers

\* What is loaded from a reproduction setup is a list of outputs.
ASSUME SetupsAssumption ==
  /\ DOMAIN Setups = {"wfs", "vbap", "aap", "nfc-hoa", "generic"}
  /\ \A r \in DOMAIN Setups : \A setup \in Setups[r] :
       LET loaded == Loudspeakers!load_reproduction_setup(setup).outputs
       IN  /\ Len(loaded) \in Nat /\ DOMAIN loaded = 1 .. Len(loaded)
           /\ \A o \in DOMAIN loaded :
                /\ loaded[o] = Loudspeakers!NewOutput(loaded[o], loaded[o].model,
                                                      loaded[o].weight, loaded[o].connect_to)
                /\ loaded[o].position \in Int \X Int
                /\ loaded[o].orientation \in Int /\ loaded[o].orientation % 90 = 0

\* Geometry: positions are vectors of integers, orientations multiples of 90 degrees.
ASSUME PlacesAssumption ==
  /\ Positions \cup References \cup Offsets \subseteq Int \X Int
  /\ \A azimuth \in Orientations : azimuth \in Int /\ azimuth % 90 = 0

loudspeaker_vars ==
  <<outputs, settings, offset, list, pair, channels, source_state, line,
    outputs_begin, outputs_end, changes, inside, written>>

NoLoudspeakers ==
  /\ outputs = <<>>
  /\ settings = <<>>
  /\ offset = <<0, 0>>
  /\ list = <<>>
  /\ pair = <<>>
  /\ channels = <<>>
  /\ source_state = <<>>
  /\ line = NewDelayLine
  /\ outputs_begin = <<>>
  /\ outputs_end = <<>>
  /\ changes = 0
  /\ inside = TRUE
  /\ written = 0

RenderersInit ==
  /\ MatlabInit
  /\ \/ renderer \in {"binaural", "matlab"} /\ Init /\ NoLoudspeakers
     \/ renderer = "brs" /\ BrsInit /\ NoLoudspeakers
     \/ Loudspeakers!Init /\ Init

RenderersNext ==
  \/ renderer = "binaural" /\ Next /\ UNCHANGED <<renderer, loudspeaker_vars, matlab>>
  \/ renderer = "brs" /\ BrsNext /\ UNCHANGED <<renderer, loudspeaker_vars, matlab>>
  \/ renderer = "matlab" /\ MatlabNext /\ UNCHANGED <<renderer, loudspeaker_vars, vars>>
  \/ renderer \in DOMAIN Setups /\ Loudspeakers!Next /\ UNCHANGED <<vars, matlab>>

RenderersSpec == RenderersInit /\ [][RenderersNext]_<<renderer, loudspeaker_vars, vars, matlab>>

------------------------------------------------------------------------------
(* Properties of the loudspeaker renderers; the invariants are stated there *)

\* Whatever changes between two blocks, a loudspeaker goes on as it has ended:
\* with the weight, and for WFS with the delay, that the crossfade of the last
\* block (select() and the combiner) has led to.
Continuous ==
  [][outputs_begin' # <<>> => outputs_begin' = outputs_end]_loudspeaker_vars

\* What an output of NFC-HOA transforms is a half-complex spectrum.
HalfComplex == Loudspeakers!HalfComplex

\* A valid delay reads exactly what was written so many samples ago.
DelayedExactly == Loudspeakers!DelayedExactly

\* A point source is behind all loudspeakers that play it or in front of all.
BehindOrInFront == Loudspeakers!BehindOrInFront

\* The pair of loudspeakers that plays a source with VBAP is the one around it.
PairEncloses == Loudspeakers!PairEncloses
==============================================================================
