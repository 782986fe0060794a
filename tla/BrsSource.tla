------------------------------ MODULE BrsSource ------------------------------
(***************************************************************************)
(* One channel of ssr::BrsRenderer::Source and its output.  It is built    *)
(* like a binaural source (BinauralSource): the same convolver, queues and *)
(* crossfade.  It has filters for the direction of the listener only and   *)
(* no interpolation; its weight starts at -1, not at 0, so that the first  *)
(* block fades from a weight that was never heard; and its process         *)
(* function makes its decisions in an order of its own.                    *)
(***************************************************************************)
EXTENDS BinauralSource

BrsInit ==
  /\ at = "source"
  /\ _hrtf_index = Parameter(-1)
  /\ _interp_factor = Parameter(0)
  /\ _weight = Parameter(-1)
  /\ _filter_ptrs = NoFilter
  /\ _queues = EmptyQueues
  /\ temporary_hrtf = NoChoice
  /\ crossfade_mode = "nothing"
  /\ old_signal = Quiet
  /\ begins = Quiet
  /\ ends = Quiet
  /\ chosen = [age \in 0 .. Partitions - 1 |-> NoChoice]

brtf_changed(index) == Changed(Assign(_hrtf_index, index))

BrsMode(index, weight) ==
  IF weight = 0 /\ _weight.current = 0 THEN "nothing"
  ELSE IF /\ queues_empty(_queues)
          /\ weight = _weight.current
          /\ ~ brtf_changed(index) THEN "constant"
  ELSE IF _weight.current = 0 THEN "fade_in"
  ELSE IF weight = 0 THEN "fade_out"
  ELSE "change"

\* Source::_process(): as long as nothing is to be heard, the filters go on.
BrsProcess(index, weight) ==
  /\ at = "source"
  /\ _hrtf_index' = Assign(_hrtf_index, index)
  /\ _weight' = Assign(_weight, weight)
  /\ crossfade_mode' = BrsMode(index, weight)
  /\ old_signal' = IF crossfade_mode' \in {"nothing", "fade_in"} THEN old_signal
                   ELSE Convolve(_filter_ptrs, temporary_hrtf, _weight.current)
  /\ \/ /\ brtf_changed(index)
        /\ _filter_ptrs' = SetPointers(Rotated, Selected(index, 0))
        /\ _queues' = SetQueues(RotatedQueues, Selected(index, 0))
     \/ /\ ~ brtf_changed(index)
        /\ _filter_ptrs' = Rotated
        /\ _queues' = RotatedQueues
  /\ chosen' = [age \in 0 .. Partitions - 1 |->
                  IF age = 0 THEN <<index, 0>> ELSE chosen[age - 1]]
  /\ at' = "output"
  /\ UNCHANGED <<_interp_factor, temporary_hrtf, begins, ends>>

BrsNext ==
  \/ \E index \in Indices, weight \in Weights : BrsProcess(index, weight)
  \/ Combine

BrsSpec == BrsInit /\ [][BrsNext]_vars
==============================================================================
