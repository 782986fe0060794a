---------------------------- MODULE BinauralSource ---------------------------
(***************************************************************************)
(* One channel of ssr::BinauralRenderer::Source, and the output that mixes *)
(* it: in every audio cycle the source compares its parameters with those  *)
(* of the last cycle, selects a crossfade mode, convolves with the old     *)
(* filter, rotates the queues and sets a new filter; then the output       *)
(* convolves with the new one and crossfades.  Both channels do the same,  *)
(* with filters of their own.                                              *)
(*                                                                         *)
(* A filter is chosen by its index (the direction) and an interpolation    *)
(* factor: 0 stands for the HRTF itself, whose partitions never change;    *)
(* otherwise the mixture is computed into temporary_hrtf, whose partitions *)
(* are overwritten each time.  What a convolution yields is known by the   *)
(* contents of the partitions it uses and by the weight.                   *)
(***************************************************************************)
EXTENDS FilterQueues, Integers

CONSTANTS Indices,  \* _hrtf_index
          Factors,  \* _interp_factor, 0 included
          Weights   \* _weight, 0 included

ASSUME ZeroAssumption == 0 \in Factors /\ 0 \in Weights
ASSUME NoIndexAssumption == -1 \notin Indices \cup Factors

VARIABLES
  at,              \* "source" or "output": which list item is processed next
  _hrtf_index, _interp_factor, _weight,  \* BlockParameters
  _filter_ptrs, _queues,
  temporary_hrtf,  \* the choice it was computed for
  crossfade_mode,
  old_signal,      \* what the source has convolved with the old filter
  begins, ends,    \* history: what the block begins and ends with
  chosen           \* history: the choices of the latest blocks, by age

filters == <<_filter_ptrs, _queues, temporary_hrtf>>
parameters == <<_hrtf_index, _interp_factor, _weight>>
vars == <<at, parameters, filters, crossfade_mode, old_signal, begins, ends, chosen>>

Choices == Indices \X Factors
NoChoice == <<-1, -1>>
Interpolated(choice) == choice[2] \notin {0, -1}

\* BlockParameter::operator=() and changed().
Parameter(value) == [current |-> value, old |-> value]
Assign(parameter, value) == [current |-> value, old |-> parameter.current]
Changed(parameter) == parameter.current # parameter.old

\* What a pointer points at; and all that a convolution would use now.
Content(pointer, temporary) ==
  IF pointer = EmptyPartition THEN <<NoChoice, 0>>
  ELSE IF pointer.in = "hrtfs" THEN <<pointer.choice, pointer.partition>>
  ELSE <<temporary, pointer.partition>>

Contents(ptrs, temporary) == [k \in 1 .. Partitions |-> Content(ptrs[k], temporary)]

Quiet == [contents |-> <<>>, weight |-> 0]

\* OutputBase::convolve(weight); with weight 0, or before the first filter is
\* set, there is nothing to hear.
Convolve(ptrs, temporary, weight) ==
  IF weight = 0 \/ ptrs = NoFilter THEN Quiet
  ELSE [contents |-> Contents(ptrs, temporary), weight |-> weight]

Init ==
  /\ at = "source"
  /\ _hrtf_index = Parameter(-1)
  /\ _interp_factor = Parameter(-1)
  /\ _weight = Parameter(0)
  /\ _filter_ptrs = NoFilter
  /\ _queues = EmptyQueues
  /\ temporary_hrtf = NoChoice
  /\ crossfade_mode = "nothing"
  /\ old_signal = Quiet
  /\ begins = Quiet
  /\ ends = Quiet
  /\ chosen = [age \in 0 .. Partitions - 1 |-> NoChoice]

------------------------------------------------------------------------------
(* Source::_process() *)

hrtf_changed(index, factor) ==
  Changed(Assign(_hrtf_index, index)) \/ Changed(Assign(_interp_factor, factor))

\* Mutant: what is left in the queues is not thought of.
Mutant_QueuesForgotten(index, factor, weight) ==
  IF weight = 0 /\ _weight.current = 0 THEN "nothing"
  ELSE IF weight = _weight.current /\ ~ hrtf_changed(index, factor) THEN "constant"
  ELSE IF weight = 0 THEN "fade_out"
  ELSE IF _weight.current = 0 THEN "fade_in"
  ELSE "change"

\* _weight.current is what will be _weight.old().
Mode(index, factor, weight) ==
  IF weight = 0 /\ _weight.current = 0 THEN "nothing"
  ELSE IF /\ queues_empty(_queues)
          /\ weight = _weight.current
          /\ ~ hrtf_changed(index, factor) THEN "constant"
  ELSE IF weight = 0 THEN "fade_out"
  ELSE IF _weight.current = 0 THEN "fade_in"
  ELSE "change"

\* The pointers to the selected filter.
Selected(index, factor) ==
  [k \in 1 .. Partitions |->
     [in |-> IF factor = 0 THEN "hrtfs" ELSE "temporary",
      choice |-> IF factor = 0 THEN <<index, 0>> ELSE NoChoice,
      partition |-> k]]

ASSUME AddressesAssumption ==
  /\ Null # EmptyPartition
  /\ \A index \in Indices, factor \in Factors : \A k \in 1 .. Partitions :
       Selected(index, factor)[k] \notin {Null, EmptyPartition}

Rotated ==
  IF queues_empty(_queues) THEN _filter_ptrs ELSE RotatePointers(_filter_ptrs, _queues)

RotatedQueues ==
  IF queues_empty(_queues) THEN _queues ELSE RotateQueues(_queues)

\* Mutant: the factor alone does not count as a change.
Mutant_FactorIgnored(index, factor) ==
  \/ /\ Changed(Assign(_hrtf_index, index))
     /\ _filter_ptrs' = SetPointers(Rotated, Selected(index, factor))
     /\ _queues' = SetQueues(RotatedQueues, Selected(index, factor))
     /\ temporary_hrtf' = IF factor = 0 THEN temporary_hrtf ELSE <<index, factor>>
  \/ /\ ~ Changed(Assign(_hrtf_index, index))
     /\ _filter_ptrs' = Rotated
     /\ _queues' = RotatedQueues
     /\ UNCHANGED temporary_hrtf

\* rotate_queues(), then set_filter(), after transform_nested() has written
\* an interpolated filter over the last one.
UpdateFilter(index, factor) ==
  \/ /\ hrtf_changed(index, factor)
     /\ _filter_ptrs' = SetPointers(Rotated, Selected(index, factor))
     /\ _queues' = SetQueues(RotatedQueues, Selected(index, factor))
     /\ temporary_hrtf' = IF factor = 0 THEN temporary_hrtf ELSE <<index, factor>>
  \/ /\ ~ hrtf_changed(index, factor)
     /\ _filter_ptrs' = Rotated
     /\ _queues' = RotatedQueues
     /\ UNCHANGED temporary_hrtf

\* A source that is not to be heard is not interpolated.
_process(index, factor, weight) ==
  /\ at = "source"
  /\ weight = 0 => factor = 0
  /\ _hrtf_index' = Assign(_hrtf_index, index)
  /\ _interp_factor' = Assign(_interp_factor, factor)
  /\ _weight' = Assign(_weight, weight)
  /\ crossfade_mode' = Mode(index, factor, weight)
  /\ old_signal' = IF crossfade_mode' \in {"nothing", "fade_in"} THEN old_signal
                   ELSE Convolve(_filter_ptrs, temporary_hrtf, _weight.current)
  /\ UpdateFilter(index, factor)
  /\ chosen' = [age \in 0 .. Partitions - 1 |->
                  IF age = 0 THEN <<index, factor>> ELSE chosen[age - 1]]
  /\ at' = "output"
  /\ UNCHANGED <<begins, ends>>

------------------------------------------------------------------------------
(* Output: CombineChannelsCrossfadeCopy with RenderFunction *)

\* update(): convolve again, with what is set now.
NewSignal == Convolve(_filter_ptrs, temporary_hrtf, _weight.current)

\* case_one() copies the signal; case_two() fades the old signal out, unless
\* there is none, and the new one in, unless there is none.
Combine ==
  /\ at = "output"
  /\ begins' = IF crossfade_mode \in {"constant", "change", "fade_out"}
               THEN old_signal ELSE Quiet
  /\ ends' = IF crossfade_mode = "constant" THEN old_signal
             ELSE IF crossfade_mode \in {"change", "fade_in"} THEN NewSignal
             ELSE Quiet
  /\ at' = "source"
  /\ UNCHANGED <<parameters, filters, crossfade_mode, old_signal, chosen>>

Next ==
  \/ \E index \in Indices, factor \in Factors, weight \in Weights :
       _process(index, factor, weight)
  \/ Combine

Spec == Init /\ [][Next]_vars

------------------------------------------------------------------------------
(* Properties *)

Modes == {"nothing", "constant", "change", "fade_in", "fade_out"}

AnyPointer ==
  {EmptyPartition}
    \cup [in : {"hrtfs"}, choice : Indices \X {0}, partition : 1 .. Partitions]
    \cup [in : {"temporary"}, choice : {NoChoice}, partition : 1 .. Partitions]

\* Types; a temporary filter that is in use was computed.
TypeOK ==
  /\ at \in {"source", "output"}
  /\ _hrtf_index \in [current : Indices \cup {-1}, old : Indices \cup {-1}]
  /\ _interp_factor \in [current : Factors \cup {-1}, old : Factors \cup {-1}]
  /\ _weight \in [current : Weights, old : Weights]
  /\ _filter_ptrs \in [1 .. Partitions -> AnyPointer]
  /\ \A q \in 1 .. Partitions - 1 : _queues[q] \in [1 .. q -> AnyPointer \cup {Null}]
  /\ temporary_hrtf \in Choices \cup {NoChoice}
  /\ crossfade_mode \in Modes
  /\ chosen \in [0 .. Partitions - 1 -> Choices \cup {NoChoice}]
  /\ \A k \in 1 .. Partitions :
       _filter_ptrs[k] # EmptyPartition /\ _filter_ptrs[k].in = "temporary" =>
         temporary_hrtf # NoChoice

\* Every block begins with the filter partitions and the weight the block
\* before it has ended with: a source that moves, fades or is muted, in
\* whatever order and however fast, makes no click.
NoClicks == [][Combine => begins' = ends]_vars

InForce == Contents(_filter_ptrs, temporary_hrtf)

FilterOf(choice, k) == IF choice = NoChoice THEN <<NoChoice, 0>> ELSE <<choice, k>>

\* Partition k belongs to the filter that was chosen k - 1 blocks ago.
InTime == \A k \in 1 .. Partitions : InForce[k] = FilterOf(chosen[k - 1], k)

\* "The first filter partition is updated immediately, the later partitions
\* are updated with rotate_queues()" (convolver.h:637), so that no input block
\* meets parts of two filters.  Pointers cannot ensure this for an interpolated
\* filter whose later partitions are still waiting, or in use, while the next
\* one is computed into the same place: it holds where among the latest
\* choices there are no two different interpolated ones.
InTimeUnlessOverwritten ==
  (\A a, b \in 0 .. Partitions - 1 :
     Interpolated(chosen[a]) /\ Interpolated(chosen[b]) => chosen[a] = chosen[b])
  => InTime
==============================================================================
