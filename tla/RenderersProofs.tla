---------------------------- MODULE RenderersProofs ----------------------------
(***************************************************************************)
(* What holds of every program, for every reproduction setup, every block  *)
(* size, delay and number of partitions.                                   *)
(***************************************************************************)
EXTENDS Renderers, WellFoundedInduction, SequenceTheorems, TLAPS

------------------------------------------------------------------------------
(* A binaural source, and a BRS source, for every number of partitions,    *)
(* every set of directions, factors and weights                            *)

\* What would be heard with the filter and the weight of now.
Sound == Convolve(_filter_ptrs, temporary_hrtf, _weight.current)

\* Between two cycles, the last block has ended with what is set.  Within one,
\* the crossfade mode tells how the block that is due must begin and end.
ContinuityInv ==
  /\ at = "source" => ends = Sound
  /\ at = "output" =>
       /\ crossfade_mode \in Modes
       /\ crossfade_mode \in {"constant", "change", "fade_out"} => ends = old_signal
       /\ crossfade_mode \in {"nothing", "fade_in"} => ends = Quiet
       /\ crossfade_mode = "constant" => old_signal = Sound
       /\ crossfade_mode \in {"nothing", "fade_out"} => Sound = Quiet

LEMMA InitContinuous == Init => ContinuityInv
BY DEF Init, ContinuityInv, Sound, Convolve, Parameter

LEMMA ProcessContinuous ==
  ASSUME ContinuityInv, NEW index, NEW factor, NEW weight,
         _process(index, factor, weight)
  PROVE  ContinuityInv'
<1> DEFINE old == _weight.current
           mode == Mode(index, factor, weight)
<1>1. /\ at = "source" /\ at' = "output"
      /\ crossfade_mode' = mode
      /\ UNCHANGED ends
      /\ ends = Convolve(_filter_ptrs, temporary_hrtf, old)
  BY DEF _process, ContinuityInv, Sound
<1>2. _weight'.current = weight
  BY DEF _process, Assign
<1>3. /\ mode \in Modes
      /\ mode = "nothing" => weight = 0 /\ old = 0
      /\ mode = "fade_out" => weight = 0
      /\ mode = "fade_in" => old = 0
      /\ mode = "constant" => /\ queues_empty(_queues)
                              /\ weight = old
                              /\ ~ hrtf_changed(index, factor)
  BY DEF Mode, Modes
<1>4. mode \notin {"nothing", "fade_in"} => old_signal' = ends
  BY <1>1 DEF _process
<1>5. old = 0 => ends = Quiet
  BY <1>1 DEF Convolve
<1>6. weight = 0 => Sound' = Quiet
  BY <1>2 DEF Sound, Convolve
<1>7. mode = "constant" => Sound' = ends
  <2> SUFFICES ASSUME mode = "constant" PROVE Sound' = ends
    OBVIOUS
  <2>1. Rotated = _filter_ptrs
    BY <1>3 DEF Rotated
  <2>2. _filter_ptrs' = _filter_ptrs /\ temporary_hrtf' = temporary_hrtf
    <3>1. UpdateFilter(index, factor)
      BY DEF _process
    <3> QED
      BY <1>3, <2>1, <3>1 DEF UpdateFilter
  <2> QED
    BY <1>1, <1>2, <1>3, <2>2 DEF Sound, Convolve, Contents, Content
<1> HIDE DEF mode, old
<1> QED
  BY <1>1, <1>3, <1>4, <1>5, <1>6, <1>7 DEF ContinuityInv

LEMMA CombineContinuous ==
  ASSUME ContinuityInv, Combine
  PROVE  ContinuityInv' /\ begins' = ends
<1>1. at = "output" /\ at' = "source"
  BY DEF Combine
<1>2. NewSignal = Sound
  BY DEF NewSignal, Sound
<1>3. UNCHANGED <<_filter_ptrs, temporary_hrtf, _weight>>
  BY DEF Combine, filters, parameters
<1>4. Sound' = Sound
  BY <1>3 DEF Sound, Convolve, Contents, Content
<1>5. begins' = ends
  BY <1>1 DEF Combine, ContinuityInv, Modes
<1>6. ends' = Sound
  BY <1>1, <1>2 DEF Combine, ContinuityInv, Modes
<1> QED
  BY <1>1, <1>4, <1>5, <1>6 DEF ContinuityInv

\* For any number of partitions and any parameters: each block begins with the
\* filters and the weight with which the block before it has ended.
THEOREM BinauralContinuous == Spec => NoClicks
<1>1. ContinuityInv /\ [Next]_vars => ContinuityInv' /\ [Combine => begins' = ends]_vars
  <2> SUFFICES ASSUME ContinuityInv, [Next]_vars
               PROVE  ContinuityInv' /\ [Combine => begins' = ends]_vars
    OBVIOUS
  <2>1. ASSUME NEW index, NEW factor, NEW weight, _process(index, factor, weight)
        PROVE  ContinuityInv'
    BY <2>1, ProcessContinuous
  <2>2. CASE UNCHANGED vars
    BY <2>2 DEF vars, filters, parameters, ContinuityInv, Sound, Convolve, Contents, Content
  <2> QED
    BY <2>1, <2>2, CombineContinuous DEF Next
<1> QED
  BY <1>1, InitContinuous, PTL DEF Spec, NoClicks

LEMMA BrsInitContinuous == BrsInit => ContinuityInv
BY DEF BrsInit, ContinuityInv, Sound, Convolve, Parameter

LEMMA BrsProcessContinuous ==
  ASSUME ContinuityInv, NEW index, NEW weight, BrsProcess(index, weight)
  PROVE  ContinuityInv'
<1> DEFINE old == _weight.current
           mode == BrsMode(index, weight)
<1>1. /\ at = "source" /\ at' = "output"
      /\ crossfade_mode' = mode
      /\ UNCHANGED <<ends, temporary_hrtf>>
      /\ ends = Convolve(_filter_ptrs, temporary_hrtf, old)
  BY DEF BrsProcess, ContinuityInv, Sound
<1>2. _weight'.current = weight
  BY DEF BrsProcess, Assign
<1>3. /\ mode \in Modes
      /\ mode = "nothing" => weight = 0 /\ old = 0
      /\ mode = "fade_out" => weight = 0
      /\ mode = "fade_in" => old = 0
      /\ mode = "constant" => /\ queues_empty(_queues)
                              /\ weight = old
                              /\ ~ brtf_changed(index)
  BY DEF BrsMode, Modes
<1>4. mode \notin {"nothing", "fade_in"} => old_signal' = ends
  BY <1>1 DEF BrsProcess
<1>5. old = 0 => ends = Quiet
  BY <1>1 DEF Convolve
<1>6. weight = 0 => Sound' = Quiet
  BY <1>2 DEF Sound, Convolve
<1>7. mode = "constant" => Sound' = ends
  <2> SUFFICES ASSUME mode = "constant" PROVE Sound' = ends
    OBVIOUS
  <2>1. Rotated = _filter_ptrs
    BY <1>3 DEF Rotated
  <2>2. _filter_ptrs' = _filter_ptrs
    BY <1>3, <2>1 DEF BrsProcess
  <2> QED
    BY <1>1, <1>2, <1>3, <2>2 DEF Sound, Convolve, Contents, Content
<1> HIDE DEF mode, old
<1> QED
  BY <1>1, <1>3, <1>4, <1>5, <1>6, <1>7 DEF ContinuityInv

\* The same for a BRS source, whose weight starts at -1: the empty filter it
\* starts with makes that inaudible.
THEOREM BrsContinuous == BrsSpec => NoClicks
<1>1. ContinuityInv /\ [BrsNext]_vars => ContinuityInv' /\ [Combine => begins' = ends]_vars
  <2> SUFFICES ASSUME ContinuityInv, [BrsNext]_vars
               PROVE  ContinuityInv' /\ [Combine => begins' = ends]_vars
    OBVIOUS
  <2>1. ASSUME NEW index, NEW weight, BrsProcess(index, weight)
        PROVE  ContinuityInv'
    BY <2>1, BrsProcessContinuous
  <2>2. CASE UNCHANGED vars
    BY <2>2 DEF vars, filters, parameters, ContinuityInv, Sound, Convolve, Contents, Content
  <2> QED
    BY <2>1, <2>2, CombineContinuous DEF BrsNext
<1> QED
  BY <1>1, BrsInitContinuous, PTL DEF BrsSpec, NoClicks

------------------------------------------------------------------------------
(* Which filters are applied to which block *)

\* The pointer to partition k of the filter that was chosen.
PointerTo(choice, k) ==
  IF choice = NoChoice THEN EmptyPartition ELSE Selected(choice[1], choice[2])[k]

FilterTypes ==
  /\ _filter_ptrs \in [1 .. Partitions -> AnyPointer]
  /\ \A q \in 1 .. Partitions - 1 : _queues[q] \in [1 .. q -> AnyPointer \cup {Null}]
  /\ chosen \in [0 .. Partitions - 1 -> Choices \cup {NoChoice}]

\* The filter that was chosen d blocks ago is still in the last queue.
Waiting(d) == _queues[Partitions - 1][Partitions - 1 - d] # Null

\* All queues hold the same filters, each at the place that is due in time.
QueueInv ==
  \A q \in 1 .. Partitions - 1 : \A d \in 0 .. q - 1 :
    /\ Waiting(d) => chosen[d] # NoChoice /\ _queues[q][q - d] = PointerTo(chosen[d], q + 1)
    /\ ~ Waiting(d) => _queues[q][q - d] = Null

\* Where none waits, none was set, because the choice was that of the block before.
KeptInv == \A d \in 0 .. Partitions - 2 : ~ Waiting(d) => chosen[d] = chosen[d + 1]

PointerInv == \A k \in 1 .. Partitions : _filter_ptrs[k] = PointerTo(chosen[k - 1], k)

\* The temporary filter is the interpolated one that was chosen last.
TemporaryInv ==
  \A a \in 0 .. Partitions - 1 :
    Interpolated(chosen[a]) =>
      /\ temporary_hrtf # NoChoice
      /\ \/ temporary_hrtf = chosen[a]
         \/ \E b \in 0 .. a - 1 : Interpolated(chosen[b]) /\ chosen[b] # chosen[a]

FilterInv == FilterTypes /\ QueueInv /\ KeptInv /\ PointerInv /\ TemporaryInv

\* What both kinds of sources do with their filters in a block.
Advance(choice, changed) ==
  /\ chosen' = [age \in 0 .. Partitions - 1 |-> IF age = 0 THEN choice ELSE chosen[age - 1]]
  /\ temporary_hrtf' = IF changed /\ choice[2] # 0 THEN choice ELSE temporary_hrtf
  /\ \/ /\ changed
        /\ _filter_ptrs' = SetPointers(Rotated, Selected(choice[1], choice[2]))
        /\ _queues' = SetQueues(RotatedQueues, Selected(choice[1], choice[2]))
     \/ /\ ~ changed
        /\ choice = chosen[0]
        /\ _filter_ptrs' = Rotated
        /\ _queues' = RotatedQueues

LEMMA PointerTypes ==
  /\ EmptyPartition \in AnyPointer
  /\ \A choice \in Choices : \A k \in 1 .. Partitions :
       /\ PointerTo(choice, k) = Selected(choice[1], choice[2])[k]
       /\ PointerTo(choice, k) \in AnyPointer \ {Null, EmptyPartition}
<1>1. ASSUME NEW choice \in Choices, NEW k \in 1 .. Partitions
      PROVE  /\ PointerTo(choice, k) = Selected(choice[1], choice[2])[k]
             /\ PointerTo(choice, k) \in AnyPointer \ {Null, EmptyPartition}
  <2>1. PICK index \in Indices, factor \in Factors : choice = <<index, factor>>
    BY DEF Choices
  <2>2. choice # NoChoice
    BY <2>1, NoIndexAssumption DEF NoChoice
  <2>3. Selected(index, factor)[k]
        = [in |-> IF factor = 0 THEN "hrtfs" ELSE "temporary",
           choice |-> IF factor = 0 THEN <<index, 0>> ELSE NoChoice,
           partition |-> k]
    BY DEF Selected
  <2>4. Selected(index, factor)[k] \in AnyPointer
    BY <2>3 DEF AnyPointer
  <2> QED
    BY <2>1, <2>2, <2>4, AddressesAssumption DEF PointerTo
<1> QED
  BY <1>1 DEF AnyPointer

LEMMA SelectedParts ==
  ASSUME NEW choice \in Choices
  PROVE  /\ Selected(choice[1], choice[2])[1] = PointerTo(choice, 1)
         /\ \A q \in 1 .. Partitions - 1 :
              (IF q + 1 <= Len(Selected(choice[1], choice[2]))
               THEN Selected(choice[1], choice[2])[q + 1] ELSE EmptyPartition)
              = PointerTo(choice, q + 1)
<1> USE PartitionsAssumption
<1> DEFINE filter == Selected(choice[1], choice[2])
<1>1. \A k \in 1 .. Partitions : filter[k] = PointerTo(choice, k) /\ filter[k] \in AnyPointer
  BY PointerTypes
<1>2. filter = [k \in 1 .. Partitions |-> filter[k]]
  BY DEF Selected
<1>3. filter \in [1 .. Partitions -> AnyPointer]
  BY <1>1, <1>2
<1> HIDE DEF filter
<1>4. Len(filter) = Partitions
  BY <1>3
<1> QED
  BY <1>1, <1>4 DEF filter

\* queues_empty() is true exactly if nothing waits.
LEMMA NothingWaits ==
  queues_empty(_queues) <=> \A d \in 0 .. Partitions - 2 : ~ Waiting(d)
<1> USE PartitionsAssumption
<1>1. ASSUME queues_empty(_queues), NEW d \in 0 .. Partitions - 2 PROVE ~ Waiting(d)
  <2>1. Partitions # 1 /\ Partitions - 1 - d \in 1 .. Partitions - 1
    OBVIOUS
  <2> QED
    BY <1>1, <2>1 DEF queues_empty, Waiting
<1>2. ASSUME \A d \in 0 .. Partitions - 2 : ~ Waiting(d) PROVE queues_empty(_queues)
  <2>1. ASSUME Partitions # 1, NEW place \in 1 .. Partitions - 1
        PROVE  _queues[Partitions - 1][place] = Null
    <3>1. Partitions - 1 - place \in 0 .. Partitions - 2
      OBVIOUS
    <3>2. Partitions - 1 - (Partitions - 1 - place) = place
      OBVIOUS
    <3> QED
      BY <1>2, <3>1, <3>2 DEF Waiting
  <2> QED
    BY <2>1 DEF queues_empty
<1> QED
  BY <1>1, <1>2

\* What partition k's pointer is after a rotation: that of the block before.
LEMMA RotatedPointers ==
  ASSUME FilterInv
  PROVE  /\ Rotated \in [1 .. Partitions -> AnyPointer]
         /\ Rotated[1] = PointerTo(chosen[0], 1)
         /\ \A k \in 2 .. Partitions : Rotated[k] = PointerTo(chosen[k - 2], k)
<1> USE PartitionsAssumption DEF FilterInv
<1>1. ASSUME NEW k \in 2 .. Partitions
      PROVE  /\ Waiting(k - 2) => /\ _queues[k - 1][1] = PointerTo(chosen[k - 2], k)
                                  /\ _queues[k - 1][1] # Null
                                  /\ _queues[k - 1][1] \in AnyPointer
             /\ ~ Waiting(k - 2) => /\ _queues[k - 1][1] = Null
                                    /\ _filter_ptrs[k] = PointerTo(chosen[k - 2], k)
  <2>1. /\ k - 1 \in 1 .. Partitions - 1 /\ k - 2 \in 0 .. (k - 1) - 1
        /\ (k - 1) - (k - 2) = 1 /\ (k - 1) + 1 = k /\ k - 2 \in 0 .. Partitions - 2
        /\ (k - 2) + 1 = k - 1 /\ k - 2 \in 0 .. Partitions - 1
    OBVIOUS
  <2>2. /\ Waiting(k - 2) => /\ chosen[k - 2] # NoChoice
                             /\ _queues[k - 1][1] = PointerTo(chosen[k - 2], k)
        /\ ~ Waiting(k - 2) => _queues[k - 1][1] = Null
    BY <2>1 DEF QueueInv
  <2>3. chosen[k - 2] \in Choices \cup {NoChoice}
    BY <2>1 DEF FilterTypes
  <2>4. ~ Waiting(k - 2) => chosen[k - 2] = chosen[k - 1]
    BY <2>1 DEF KeptInv
  <2>5. _filter_ptrs[k] = PointerTo(chosen[k - 1], k)
    BY DEF PointerInv
  <2>6. chosen[k - 2] \in Choices =>
          PointerTo(chosen[k - 2], k) # Null /\ PointerTo(chosen[k - 2], k) \in AnyPointer
    BY PointerTypes
  <2> QED
    BY <2>2, <2>3, <2>4, <2>5, <2>6
<1>2. _filter_ptrs \in [1 .. Partitions -> AnyPointer] /\ _filter_ptrs[1] = PointerTo(chosen[0], 1)
  BY DEF FilterTypes, PointerInv
<1>3. CASE queues_empty(_queues)
  <2>1. \A k \in 2 .. Partitions : ~ Waiting(k - 2)
    BY <1>3, NothingWaits
  <2>2. Rotated = _filter_ptrs
    BY <1>3 DEF Rotated
  <2> QED
    BY <1>1, <1>2, <2>1, <2>2
<1>4. CASE ~ queues_empty(_queues)
  <2>1. Rotated = [k \in 1 .. Partitions |->
                     IF k > 1 /\ _queues[k - 1][1] # Null THEN _queues[k - 1][1]
                                                          ELSE _filter_ptrs[k]]
    BY <1>4 DEF Rotated, RotatePointers
  <2>2. \A k \in 1 .. Partitions : k > 1 => k \in 2 .. Partitions /\ k # 1
    OBVIOUS
  <2>3. \A k \in 2 .. Partitions : Rotated[k] = PointerTo(chosen[k - 2], k)
    <3> SUFFICES ASSUME NEW k \in 2 .. Partitions
                 PROVE  Rotated[k] = PointerTo(chosen[k - 2], k)
      OBVIOUS
    <3>1. Rotated[k] = IF _queues[k - 1][1] # Null THEN _queues[k - 1][1] ELSE _filter_ptrs[k]
      BY <2>1
    <3> QED
      BY <1>1, <3>1
  <2>4. Rotated[1] = _filter_ptrs[1]
    BY <2>1
  <2>5. \A k \in 1 .. Partitions :
          (IF k > 1 /\ _queues[k - 1][1] # Null THEN _queues[k - 1][1] ELSE _filter_ptrs[k])
          \in AnyPointer
    BY <1>1, <1>2, <2>2
  <2>6. Rotated \in [1 .. Partitions -> AnyPointer]
    BY <2>1, <2>5
  <2> QED
    BY <1>2, <2>3, <2>4, <2>6
<1> QED
  BY <1>3, <1>4

\* What the queues hold after a rotation.
LEMMA RotatedPlaces ==
  ASSUME FilterInv, NEW q \in 1 .. Partitions - 1
  PROVE  /\ RotatedQueues[q] \in [1 .. q -> AnyPointer \cup {Null}]
         /\ RotatedQueues[q][q] = Null
         /\ \A d \in 1 .. q - 1 :
              /\ Waiting(d - 1) => /\ chosen[d - 1] # NoChoice
                                   /\ RotatedQueues[q][q - d] = PointerTo(chosen[d - 1], q + 1)
                                   /\ RotatedQueues[q][q - d] # Null
              /\ ~ Waiting(d - 1) => RotatedQueues[q][q - d] = Null
<1> USE PartitionsAssumption DEF FilterInv
<1>1. _queues[q] \in [1 .. q -> AnyPointer \cup {Null}]
  BY DEF FilterTypes
<1>2. ASSUME NEW d \in 0 .. q - 1
      PROVE  /\ Waiting(d) => /\ chosen[d] # NoChoice
                              /\ _queues[q][q - d] = PointerTo(chosen[d], q + 1)
                              /\ _queues[q][q - d] # Null
             /\ ~ Waiting(d) => _queues[q][q - d] = Null
  <2>1. /\ Waiting(d) => /\ chosen[d] # NoChoice
                         /\ _queues[q][q - d] = PointerTo(chosen[d], q + 1)
        /\ ~ Waiting(d) => _queues[q][q - d] = Null
    BY DEF QueueInv
  <2>2. d \in 0 .. Partitions - 1 /\ q + 1 \in 1 .. Partitions
    OBVIOUS
  <2>3. chosen[d] \in Choices \cup {NoChoice}
    BY <2>2 DEF FilterTypes
  <2>4. chosen[d] \in Choices => PointerTo(chosen[d], q + 1) # Null
    BY <2>2, PointerTypes
  <2> QED
    BY <2>1, <2>3, <2>4
<1>3. CASE queues_empty(_queues)
  <2>1. RotatedQueues = _queues
    BY <1>3 DEF RotatedQueues
  <2>2. \A d \in 0 .. q - 1 : ~ Waiting(d) /\ _queues[q][q - d] = Null
    <3>1. \A d \in 0 .. q - 1 : d \in 0 .. Partitions - 2
      OBVIOUS
    <3> QED
      BY <1>2, <1>3, <3>1, NothingWaits
  <2>3. _queues[q][q] = Null
    <3>1. 0 \in 0 .. q - 1 /\ q - 0 = q
      OBVIOUS
    <3> QED
      BY <2>2, <3>1
  <2>4. \A d \in 1 .. q - 1 : ~ Waiting(d - 1) /\ _queues[q][q - d] = Null
    <3>1. \A d \in 1 .. q - 1 : d \in 0 .. q - 1 /\ d - 1 \in 0 .. q - 1
      OBVIOUS
    <3> QED
      BY <2>2, <3>1
  <2> QED
    BY <1>1, <2>1, <2>3, <2>4
<1>4. CASE ~ queues_empty(_queues)
  <2>1. RotatedQueues[q] = [place \in 1 .. q |-> IF place < q THEN _queues[q][place + 1]
                                                         ELSE Null]
    BY <1>4 DEF RotatedQueues, RotateQueues
  <2>2. \A place \in 1 .. q : place < q => _queues[q][place + 1] \in AnyPointer \cup {Null}
    BY <1>1
  <2>3. RotatedQueues[q] \in [1 .. q -> AnyPointer \cup {Null}]
    BY <2>1, <2>2
  <2>4. RotatedQueues[q][q] = Null
    BY <2>1
  <2>5. ASSUME NEW d \in 1 .. q - 1
        PROVE  RotatedQueues[q][q - d] = _queues[q][q - (d - 1)] /\ d - 1 \in 0 .. q - 1
    <3>1. q - d \in 1 .. q /\ q - d < q /\ (q - d) + 1 = q - (d - 1)
      OBVIOUS
    <3> QED
      BY <2>1, <3>1
  <2>6. \A d \in 1 .. q - 1 :
              /\ Waiting(d - 1) => /\ chosen[d - 1] # NoChoice
                                   /\ RotatedQueues[q][q - d] = PointerTo(chosen[d - 1], q + 1)
                                   /\ RotatedQueues[q][q - d] # Null
              /\ ~ Waiting(d - 1) => RotatedQueues[q][q - d] = Null
    BY <1>2, <2>5
  <2> QED
    BY <2>3, <2>4, <2>6
<1> QED
  BY <1>3, <1>4

LEMMA AdvanceStep ==
  ASSUME FilterInv, NEW choice \in Choices, NEW changed \in BOOLEAN, Advance(choice, changed)
  PROVE  FilterInv'
<1> USE PartitionsAssumption
<1>1. /\ chosen'[0] = choice
      /\ \A age \in 1 .. Partitions - 1 : chosen'[age] = chosen[age - 1]
      /\ chosen' \in [0 .. Partitions - 1 -> Choices \cup {NoChoice}]
  BY DEF Advance, FilterInv, FilterTypes
<1>2. choice # NoChoice
  BY NoIndexAssumption DEF Choices, NoChoice
<1>3. \A q \in 1 .. Partitions - 1 :
        PointerTo(choice, q + 1) # Null /\ PointerTo(choice, q + 1) \in AnyPointer
  <2>1. \A q \in 1 .. Partitions - 1 : q + 1 \in 1 .. Partitions
    OBVIOUS
  <2> QED
    BY <2>1, PointerTypes
<1>4. /\ _filter_ptrs' \in [1 .. Partitions -> AnyPointer]
      /\ _filter_ptrs'[1] = PointerTo(choice, 1)
      /\ \A k \in 2 .. Partitions : _filter_ptrs'[k] = Rotated[k]
  <2>1. Rotated \in [1 .. Partitions -> AnyPointer] /\ Rotated[1] = PointerTo(chosen[0], 1)
    BY RotatedPointers
  <2>2. CASE changed
    <3>1. _filter_ptrs' = [Rotated EXCEPT ![1] = PointerTo(choice, 1)]
      BY <2>2, SelectedParts DEF Advance, SetPointers
    <3>2. PointerTo(choice, 1) \in AnyPointer
      BY PointerTypes
    <3> QED
      BY <2>1, <3>1, <3>2
  <2>3. CASE ~ changed
    BY <2>1, <2>3 DEF Advance
  <2> QED
    BY <2>2, <2>3
<1>5. ASSUME NEW q \in 1 .. Partitions - 1
      PROVE  /\ _queues'[q] \in [1 .. q -> AnyPointer \cup {Null}]
             /\ changed => _queues'[q][q] = PointerTo(choice, q + 1)
             /\ ~ changed => _queues'[q][q] = Null
             /\ \A d \in 1 .. q - 1 : _queues'[q][q - d] = RotatedQueues[q][q - d]
  <2>1. RotatedQueues[q] \in [1 .. q -> AnyPointer \cup {Null}] /\ RotatedQueues[q][q] = Null
    BY RotatedPlaces
  <2>2. \A d \in 1 .. q - 1 : q - d # q /\ q - d \in 1 .. q
    OBVIOUS
  <2>3. CASE changed
    <3>1. _queues'[q] = [RotatedQueues[q] EXCEPT ![q] = PointerTo(choice, q + 1)]
      BY <2>3, SelectedParts DEF Advance, SetQueues
    <3> QED
      BY <1>3, <2>1, <2>2, <2>3, <3>1
  <2>4. CASE ~ changed
    BY <2>1, <2>4 DEF Advance
  <2> QED
    BY <2>3, <2>4
<1>6. ASSUME NEW d \in 0 .. Partitions - 2
      PROVE  /\ d = 0 => (Waiting(d)' <=> changed)
             /\ d # 0 => (Waiting(d)' <=> Waiting(d - 1))
  <2> DEFINE q == Partitions - 1
  <2>1. q \in 1 .. Partitions - 1 /\ q - 0 = q /\ (d # 0 => d \in 1 .. q - 1)
    OBVIOUS
  <2>2. Waiting(d)' <=> _queues'[q][q - d] # Null
    BY DEF Waiting
  <2>3. CASE d = 0
    BY <1>3, <1>5, <2>1, <2>2, <2>3
  <2>4. CASE d # 0
    <3>1. _queues'[q][q - d] = RotatedQueues[q][q - d]
      BY <1>5, <2>1, <2>4
    <3>2. /\ Waiting(d - 1) => RotatedQueues[q][q - d] # Null
          /\ ~ Waiting(d - 1) => RotatedQueues[q][q - d] = Null
      BY <2>1, <2>4, RotatedPlaces
    <3> QED
      BY <2>2, <2>4, <3>1, <3>2
  <2> QED
    BY <2>3, <2>4
<1>7. QueueInv'
  <2>1. ASSUME NEW q \in 1 .. Partitions - 1, NEW d \in 0 .. q - 1
        PROVE  /\ Waiting(d)' => /\ chosen'[d] # NoChoice
                                 /\ _queues'[q][q - d] = PointerTo(chosen'[d], q + 1)
               /\ ~ Waiting(d)' => _queues'[q][q - d] = Null
    <3>1. d \in 0 .. Partitions - 2 /\ q - 0 = q
      OBVIOUS
    <3>2. CASE d = 0
      BY <1>1, <1>2, <1>5, <1>6, <3>1, <3>2
    <3>3. CASE d # 0
      <4>1. d \in 1 .. q - 1 /\ d \in 1 .. Partitions - 1
        BY <3>3
      <4>2. chosen'[d] = chosen[d - 1] /\ _queues'[q][q - d] = RotatedQueues[q][q - d]
        BY <1>1, <1>5, <4>1
      <4>3. /\ Waiting(d - 1) => /\ chosen[d - 1] # NoChoice
                                 /\ RotatedQueues[q][q - d] = PointerTo(chosen[d - 1], q + 1)
            /\ ~ Waiting(d - 1) => RotatedQueues[q][q - d] = Null
        BY <4>1, RotatedPlaces
      <4> QED
        BY <1>6, <3>1, <3>3, <4>2, <4>3
    <3> QED
      BY <3>2, <3>3
  <2> QED
    BY <2>1 DEF QueueInv
<1>8. KeptInv'
  <2>1. ASSUME NEW d \in 0 .. Partitions - 2, ~ Waiting(d)' PROVE chosen'[d] = chosen'[d + 1]
    <3>1. CASE d = 0
      <4>1. choice = chosen[0]
        BY <1>6, <2>1, <3>1 DEF Advance
      <4>2. 1 \in 1 .. Partitions - 1
        BY <3>1
      <4>3. chosen'[1] = chosen[0]
        BY <1>1, <4>2
      <4> QED
        BY <1>1, <3>1, <4>1, <4>3
    <3>2. CASE d # 0
      <4>1. d - 1 \in 0 .. Partitions - 2 /\ (d - 1) + 1 = d /\ ~ Waiting(d - 1)
        BY <1>6, <2>1, <3>2
      <4>2. chosen[d - 1] = chosen[d]
        BY <4>1 DEF FilterInv, KeptInv
      <4>3. d \in 1 .. Partitions - 1 /\ d + 1 \in 1 .. Partitions - 1 /\ (d + 1) - 1 = d
        BY <3>2
      <4> QED
        BY <1>1, <4>2, <4>3
    <3> QED
      BY <3>1, <3>2
  <2> QED
    BY <2>1 DEF KeptInv
<1>9. PointerInv'
  <2>1. ASSUME NEW k \in 1 .. Partitions PROVE _filter_ptrs'[k] = PointerTo(chosen'[k - 1], k)
    <3>1. CASE k = 1
      BY <1>1, <1>4, <3>1
    <3>2. CASE k # 1
      <4>1. k \in 2 .. Partitions /\ k - 1 \in 1 .. Partitions - 1 /\ (k - 1) - 1 = k - 2
        BY <3>2
      <4>2. Rotated[k] = PointerTo(chosen[k - 2], k)
        BY <4>1, RotatedPointers
      <4>3. chosen'[k - 1] = chosen[k - 2]
        BY <1>1, <4>1
      <4> QED
        BY <1>4, <4>1, <4>2, <4>3
    <3> QED
      BY <3>1, <3>2
  <2> QED
    BY <2>1 DEF PointerInv
<1>10. TemporaryInv'
  <2>1. temporary_hrtf' = IF changed /\ choice[2] # 0 THEN choice ELSE temporary_hrtf
    BY DEF Advance
  <2>2. Interpolated(choice) => choice[2] # 0
    BY DEF Interpolated
  <2>3. ASSUME NEW a \in 0 .. Partitions - 1, Interpolated(chosen[a])
        PROVE  /\ temporary_hrtf # NoChoice
               /\ \/ temporary_hrtf = chosen[a]
                  \/ \E b \in 0 .. a - 1 : Interpolated(chosen[b]) /\ chosen[b] # chosen[a]
    BY <2>3 DEF FilterInv, TemporaryInv
  <2>4. ASSUME NEW a \in 0 .. Partitions - 1, Interpolated(chosen'[a])
        PROVE  /\ temporary_hrtf' # NoChoice
               /\ \/ temporary_hrtf' = chosen'[a]
                  \/ \E b \in 0 .. a - 1 : Interpolated(chosen'[b]) /\ chosen'[b] # chosen'[a]
    <3>1. CASE a = 0
      <4>1. CASE changed
        BY <1>1, <1>2, <2>1, <2>2, <2>4, <3>1, <4>1
      <4>2. CASE ~ changed
        <5>1. chosen'[0] = chosen[0] /\ temporary_hrtf' = temporary_hrtf
          BY <1>1, <2>1, <4>2 DEF Advance
        <5>2. temporary_hrtf # NoChoice /\ temporary_hrtf = chosen[0]
          BY <2>3, <2>4, <3>1, <5>1
        <5> QED
          BY <3>1, <5>1, <5>2
      <4> QED
        BY <4>1, <4>2
    <3>2. CASE a # 0
      <4>1. a \in 1 .. Partitions - 1 /\ a - 1 \in 0 .. Partitions - 1
        BY <3>2
      <4>2. chosen'[a] = chosen[a - 1]
        BY <1>1, <4>1
      <4>3. CASE changed /\ choice[2] # 0
        <5>1. choice[2] \in Factors
          BY DEF Choices
        <5>2. Interpolated(chosen'[0])
          BY <1>1, <4>3, <5>1, NoIndexAssumption DEF Interpolated
        <5>3. 0 \in 0 .. a - 1 /\ temporary_hrtf' = chosen'[0]
          BY <1>1, <2>1, <4>1, <4>3
        <5> QED
          BY <1>1, <1>2, <5>2, <5>3
      <4>4. CASE ~ (changed /\ choice[2] # 0)
        <5>1. temporary_hrtf' = temporary_hrtf
          BY <2>1, <4>4
        <5>2. temporary_hrtf # NoChoice
          BY <2>3, <2>4, <4>1, <4>2
        <5>3. CASE temporary_hrtf = chosen[a - 1]
          BY <4>2, <5>1, <5>2, <5>3
        <5>4. CASE temporary_hrtf # chosen[a - 1]
          <6>1. PICK b \in 0 .. (a - 1) - 1 :
                  Interpolated(chosen[b]) /\ chosen[b] # chosen[a - 1]
            BY <2>3, <2>4, <4>1, <4>2, <5>4
          <6>2. b + 1 \in 1 .. Partitions - 1 /\ b + 1 \in 0 .. a - 1 /\ (b + 1) - 1 = b
            BY <4>1
          <6>3. chosen'[b + 1] = chosen[b]
            BY <1>1, <6>2
          <6> QED
            BY <4>2, <5>1, <5>2, <6>1, <6>2, <6>3
        <5> QED
          BY <5>3, <5>4
      <4> QED
        BY <4>3, <4>4
    <3> QED
      BY <3>1, <3>2
  <2> QED
    BY <2>4 DEF TemporaryInv
<1>11. FilterTypes'
  BY <1>1, <1>4, <1>5 DEF FilterTypes
<1> QED
  BY <1>7, <1>8, <1>9, <1>10, <1>11 DEF FilterInv

LEMMA FilterInvInTime == ASSUME FilterInv PROVE InTimeUnlessOverwritten
<1> USE PartitionsAssumption
<1> SUFFICES ASSUME \A a, b \in 0 .. Partitions - 1 :
                      Interpolated(chosen[a]) /\ Interpolated(chosen[b]) => chosen[a] = chosen[b],
                    NEW k \in 1 .. Partitions
             PROVE  InForce[k] = FilterOf(chosen[k - 1], k)
  BY DEF InTimeUnlessOverwritten, InTime
<1> DEFINE choice == chosen[k - 1]
<1>1. k - 1 \in 0 .. Partitions - 1 /\ choice \in Choices \cup {NoChoice}
  BY DEF FilterInv, FilterTypes
<1>2. InForce[k] = Content(PointerTo(choice, k), temporary_hrtf)
  BY DEF FilterInv, PointerInv, InForce, Contents
<1>3. CASE choice = NoChoice
  BY <1>2, <1>3 DEF PointerTo, Content, FilterOf
<1>4. CASE choice \in Choices
  <2>1. PICK index \in Indices, factor \in Factors : choice = <<index, factor>>
    BY <1>4 DEF Choices
  <2>2. choice # NoChoice /\ factor # -1
    BY <2>1, NoIndexAssumption DEF NoChoice
  <2>3. PointerTo(choice, k) # EmptyPartition
    BY <1>4, PointerTypes
  <2>4. PointerTo(choice, k) = [in |-> IF factor = 0 THEN "hrtfs" ELSE "temporary",
                                choice |-> IF factor = 0 THEN <<index, 0>> ELSE NoChoice,
                                partition |-> k]
    BY <2>1, <2>2 DEF PointerTo, Selected
  <2>5. CASE factor = 0
    BY <1>2, <2>1, <2>2, <2>3, <2>4, <2>5 DEF Content, FilterOf
  <2>6. CASE factor # 0
    <3>1. Interpolated(chosen[k - 1])
      BY <2>1, <2>2, <2>6 DEF Interpolated
    <3>2. temporary_hrtf = choice
      <4>1. \A b \in 0 .. (k - 1) - 1 : b \in 0 .. Partitions - 1
        OBVIOUS
      <4> QED
        BY <1>1, <3>1, <4>1 DEF FilterInv, TemporaryInv
    <3> QED
      BY <1>2, <2>2, <2>3, <2>4, <2>6, <3>2 DEF Content, FilterOf
  <2> QED
    BY <2>5, <2>6
<1> QED
  BY <1>1, <1>3, <1>4

LEMMA InitFilters ==
  ASSUME _filter_ptrs = NoFilter, _queues = EmptyQueues,
         chosen = [age \in 0 .. Partitions - 1 |-> NoChoice]
  PROVE  FilterInv
<1> USE PartitionsAssumption
<1>1. ASSUME NEW q \in 1 .. Partitions - 1
      PROVE  /\ _queues[q] \in [1 .. q -> AnyPointer \cup {Null}]
             /\ \A d \in 0 .. q - 1 : _queues[q][q - d] = Null
  <2>1. _queues[q] = [place \in 1 .. q |-> Null]
    BY DEF EmptyQueues
  <2>2. \A d \in 0 .. q - 1 : q - d \in 1 .. q
    OBVIOUS
  <2> QED
    BY <2>1, <2>2
<1>2. \A d \in 0 .. Partitions - 2 : ~ Waiting(d)
  <2> SUFFICES ASSUME NEW d \in 0 .. Partitions - 2 PROVE ~ Waiting(d)
    OBVIOUS
  <2>1. Partitions - 1 \in 1 .. Partitions - 1 /\ d \in 0 .. (Partitions - 1) - 1
    OBVIOUS
  <2> QED
    BY <1>1, <2>1 DEF Waiting
<1>3. QueueInv
  <2>1. \A q \in 1 .. Partitions - 1 : \A d \in 0 .. q - 1 : d \in 0 .. Partitions - 2
    OBVIOUS
  <2> QED
    BY <1>1, <1>2, <2>1 DEF QueueInv
<1>4. FilterTypes
  BY <1>1, PointerTypes DEF FilterTypes, NoFilter
<1>5. KeptInv /\ PointerInv
  BY DEF KeptInv, PointerInv, NoFilter, PointerTo
<1>6. TemporaryInv
  BY DEF TemporaryInv, Interpolated, NoChoice
<1> QED
  BY <1>3, <1>4, <1>5, <1>6 DEF FilterInv

\* The parameters of the last block are those of the filter that was chosen.
CurrentInv ==
  \/ chosen[0] = NoChoice /\ _hrtf_index.current = -1
  \/ chosen[0] = <<_hrtf_index.current, _interp_factor.current>>

LEMMA ProcessAdvances ==
  ASSUME FilterInv, CurrentInv,
         NEW index \in Indices, NEW factor \in Factors, NEW weight, _process(index, factor, weight)
  PROVE  FilterInv' /\ CurrentInv'
<1> USE PartitionsAssumption
<1> DEFINE choice == <<index, factor>>
           changed == hrtf_changed(index, factor)
<1>1. choice \in Choices /\ changed \in BOOLEAN
  BY DEF Choices, hrtf_changed, Changed
<1>2. ~ changed => _hrtf_index.current = index /\ _interp_factor.current = factor
  BY DEF hrtf_changed, Changed, Assign
<1>3. ~ changed => choice = chosen[0]
  BY <1>2, NoIndexAssumption DEF CurrentInv
<1>4. Advance(choice, changed)
  <2>1. UpdateFilter(index, factor)
    BY DEF _process
  <2>2. choice[1] = index /\ choice[2] = factor
    OBVIOUS
  <2>3. chosen' = [age \in 0 .. Partitions - 1 |-> IF age = 0 THEN choice ELSE chosen[age - 1]]
    BY DEF _process
  <2> HIDE DEF choice
  <2> QED
    BY <1>3, <2>1, <2>2, <2>3 DEF Advance, UpdateFilter, choice
<1>5. FilterInv'
  BY <1>1, <1>4, AdvanceStep
<1>6. _hrtf_index'.current = index /\ _interp_factor'.current = factor /\ chosen'[0] = choice
  BY DEF _process, Assign
<1> QED
  BY <1>5, <1>6 DEF CurrentInv

LEMMA BrsProcessAdvances ==
  ASSUME FilterInv, CurrentInv, _interp_factor.current = 0,
         NEW index \in Indices, NEW weight, BrsProcess(index, weight)
  PROVE  FilterInv' /\ CurrentInv' /\ _interp_factor'.current = 0
<1> USE PartitionsAssumption
<1> DEFINE choice == <<index, 0>>
           changed == brtf_changed(index)
<1>1. choice \in Choices /\ changed \in BOOLEAN
  BY ZeroAssumption DEF Choices, brtf_changed, Changed
<1>2. ~ changed => _hrtf_index.current = index
  BY DEF brtf_changed, Changed, Assign
<1>3. ~ changed => choice = chosen[0]
  BY <1>2, NoIndexAssumption DEF CurrentInv
<1>4. Advance(choice, changed)
  <2>1. choice[1] = index /\ choice[2] = 0
    OBVIOUS
  <2>2. chosen' = [age \in 0 .. Partitions - 1 |-> IF age = 0 THEN choice ELSE chosen[age - 1]]
    BY DEF BrsProcess
  <2>3. temporary_hrtf' = temporary_hrtf
    BY DEF BrsProcess
  <2>4. \/ /\ changed
           /\ _filter_ptrs' = SetPointers(Rotated, Selected(index, 0))
           /\ _queues' = SetQueues(RotatedQueues, Selected(index, 0))
        \/ ~ changed /\ _filter_ptrs' = Rotated /\ _queues' = RotatedQueues
    BY DEF BrsProcess
  <2> HIDE DEF choice, changed
  <2> QED
    BY <1>3, <2>1, <2>2, <2>3, <2>4 DEF Advance
<1>5. FilterInv'
  BY <1>1, <1>4, AdvanceStep
<1>6. /\ _hrtf_index'.current = index /\ _interp_factor'.current = 0
      /\ chosen'[0] = choice
  BY DEF BrsProcess, Assign
<1> QED
  BY <1>5, <1>6 DEF CurrentInv

LEMMA FiltersStay ==
  ASSUME FilterInv, CurrentInv, UNCHANGED <<parameters, filters, chosen>>
  PROVE  FilterInv' /\ CurrentInv'
BY DEF parameters, filters, FilterInv, FilterTypes, QueueInv, KeptInv, PointerInv,
       TemporaryInv, Waiting, CurrentInv

LEMMA FiltersKept == Spec => [](FilterInv /\ CurrentInv)
<1>1. Init => FilterInv /\ CurrentInv
  <2> SUFFICES ASSUME Init PROVE FilterInv /\ CurrentInv
    OBVIOUS
  <2>1. CurrentInv
    BY PartitionsAssumption DEF Init, Parameter, CurrentInv, NoChoice
  <2> QED
    BY <2>1, InitFilters DEF Init
<1>2. FilterInv /\ CurrentInv /\ [Next]_vars => FilterInv' /\ CurrentInv'
  <2> SUFFICES ASSUME FilterInv, CurrentInv, [Next]_vars PROVE FilterInv' /\ CurrentInv'
    OBVIOUS
  <2>1. CASE UNCHANGED vars
    BY <2>1, FiltersStay DEF vars
  <2>2. CASE Combine
    BY <2>2, FiltersStay DEF Combine
  <2> QED
    BY <2>1, <2>2, ProcessAdvances DEF Next
<1> QED
  BY <1>1, <1>2, PTL DEF Spec

\* For any number of partitions: unless an interpolated filter was computed over
\* another one that is still in use or waiting, each partition is the one of the
\* filter that was chosen for the block it is applied to.
THEOREM FiltersInTime == Spec => []InTimeUnlessOverwritten
<1>1. FilterInv => InTimeUnlessOverwritten
  BY FilterInvInTime
<1> QED
  BY <1>1, FiltersKept, PTL

\* Types, for any number of partitions: a null pointer never gets out of a queue,
\* and no partition of the temporary filter is in use before one was computed.
THEOREM Typing == Spec => []TypeOK
<1> USE PartitionsAssumption, ZeroAssumption
<1> DEFINE OtherTypes ==
             /\ at \in {"source", "output"}
             /\ _hrtf_index \in [current : Indices \cup {-1}, old : Indices \cup {-1}]
             /\ _interp_factor \in [current : Factors \cup {-1}, old : Factors \cup {-1}]
             /\ _weight \in [current : Weights, old : Weights]
             /\ temporary_hrtf \in Choices \cup {NoChoice}
             /\ crossfade_mode \in Modes
<1>1. Init => OtherTypes
  BY DEF Init, Parameter, Modes
<1>2. OtherTypes /\ [Next]_vars => OtherTypes'
  <2> SUFFICES ASSUME OtherTypes, [Next]_vars PROVE OtherTypes'
    OBVIOUS
  <2>1. ASSUME NEW index \in Indices, NEW factor \in Factors, NEW weight \in Weights,
               _process(index, factor, weight)
        PROVE  OtherTypes'
    <3>1. at' = "output" /\ crossfade_mode' \in Modes
      BY <2>1 DEF _process, Mode, Modes
    <3>2. /\ _hrtf_index' \in [current : Indices \cup {-1}, old : Indices \cup {-1}]
          /\ _interp_factor' \in [current : Factors \cup {-1}, old : Factors \cup {-1}]
          /\ _weight' \in [current : Weights, old : Weights]
      BY <2>1 DEF _process, Assign
    <3>3. temporary_hrtf' \in {temporary_hrtf, <<index, factor>>}
      BY <2>1 DEF _process, UpdateFilter
    <3>4. <<index, factor>> \in Choices
      BY DEF Choices
    <3> QED
      BY <3>1, <3>2, <3>3, <3>4
  <2>2. CASE Combine
    BY <2>2 DEF Combine, parameters, filters
  <2>3. CASE UNCHANGED vars
    BY <2>3 DEF vars, parameters, filters
  <2> QED
    BY <2>1, <2>2, <2>3 DEF Next
<1>3. FilterInv /\ OtherTypes => TypeOK
  <2> SUFFICES ASSUME FilterInv, OtherTypes PROVE TypeOK
    OBVIOUS
  <2>1. ASSUME NEW k \in 1 .. Partitions,
               _filter_ptrs[k] # EmptyPartition, _filter_ptrs[k].in = "temporary"
        PROVE  temporary_hrtf # NoChoice
    <3>1. _filter_ptrs[k] = PointerTo(chosen[k - 1], k) /\ k - 1 \in 0 .. Partitions - 1
      BY DEF FilterInv, PointerInv
    <3>2. chosen[k - 1] \in Choices
      <4>1. chosen[k - 1] \in Choices \cup {NoChoice}
        BY <3>1 DEF FilterInv, FilterTypes
      <4> QED
        BY <2>1, <3>1, <4>1 DEF PointerTo
    <3>3. PICK index \in Indices, factor \in Factors : chosen[k - 1] = <<index, factor>>
      BY <3>2 DEF Choices
    <3>4. Selected(index, factor)[k].in = "temporary"
      BY <2>1, <3>1, <3>2, <3>3, PointerTypes
    <3>5. factor # 0
      BY <3>4 DEF Selected
    <3>6. Interpolated(chosen[k - 1])
      BY <3>3, <3>5, NoIndexAssumption DEF Interpolated
    <3> QED
      BY <3>1, <3>6 DEF FilterInv, TemporaryInv
  <2> QED
    BY <2>1 DEF TypeOK, FilterInv, FilterTypes
<1> HIDE DEF OtherTypes
<1> QED
  BY <1>1, <1>2, <1>3, FiltersKept, PTL DEF Spec

\* A BRS source has no interpolated filters, so that its partitions are always in
\* time, for any number of them.
THEOREM BrsFiltersInTime == BrsSpec => []InTime
<1> USE PartitionsAssumption
<1> DEFINE BrsInv == /\ FilterInv /\ CurrentInv /\ _interp_factor.current = 0
                     /\ \A a \in 0 .. Partitions - 1 : ~ Interpolated(chosen[a])
<1>1. BrsInit => BrsInv
  <2> SUFFICES ASSUME BrsInit PROVE BrsInv
    OBVIOUS
  <2>1. CurrentInv /\ _interp_factor.current = 0
    BY DEF BrsInit, Parameter, CurrentInv, NoChoice
  <2>2. \A a \in 0 .. Partitions - 1 : ~ Interpolated(chosen[a])
    BY DEF BrsInit, Interpolated, NoChoice
  <2> QED
    BY <2>1, <2>2, InitFilters DEF BrsInit
<1>2. BrsInv /\ [BrsNext]_vars => BrsInv'
  <2> SUFFICES ASSUME BrsInv, [BrsNext]_vars PROVE BrsInv'
    OBVIOUS
  <2>1. CASE UNCHANGED <<parameters, filters, chosen>>
    BY <2>1, FiltersStay DEF parameters
  <2>2. CASE UNCHANGED vars
    BY <2>1, <2>2 DEF vars
  <2>3. CASE Combine
    BY <2>1, <2>3 DEF Combine
  <2>4. ASSUME NEW index \in Indices, NEW weight \in Weights, BrsProcess(index, weight)
        PROVE  BrsInv'
    <3>1. /\ chosen'[0] = <<index, 0>>
          /\ \A a \in 1 .. Partitions - 1 : chosen'[a] = chosen[a - 1]
      BY <2>4 DEF BrsProcess
    <3>2. \A a \in 1 .. Partitions - 1 : ~ Interpolated(chosen'[a])
      BY <3>1 DEF Interpolated
    <3>3. ~ Interpolated(chosen'[0])
      BY <3>1 DEF Interpolated
    <3> QED
      BY <2>4, <3>2, <3>3, BrsProcessAdvances
  <2> QED
    BY <2>2, <2>3, <2>4 DEF BrsNext
<1>3. BrsInv => InTime
  BY FilterInvInTime DEF InTimeUnlessOverwritten
<1> HIDE DEF BrsInv
<1> QED
  BY <1>1, <1>2, <1>3, PTL DEF BrsSpec

------------------------------------------------------------------------------
(* Headphones                                                              *)

LEMMA LoudspeakersKeepRenderer == Loudspeakers!Next => UNCHANGED renderer
BY DEF Loudspeakers!Next, Loudspeakers!set_source_position, Loudspeakers!set_source_model,
       Loudspeakers!set_source_orientation, Loudspeakers!set_source_gain,
       Loudspeakers!set_reference_position, Loudspeakers!set_reference_orientation,
       Loudspeakers!set_reference_offset_position, Loudspeakers!Change, Loudspeakers!Process

\* A BRS source never gets an interpolation factor.
HeadphonesInv ==
  /\ ContinuityInv
  /\ FilterInv
  /\ CurrentInv
  /\ renderer = "brs" => _interp_factor.current = 0

LEMMA HeadphonesInit == RenderersInit => HeadphonesInv
<1> SUFFICES ASSUME RenderersInit PROVE HeadphonesInv
  OBVIOUS
<1>1. CASE Init /\ renderer # "brs"
  <2>1. CurrentInv
    BY <1>1, PartitionsAssumption DEF Init, Parameter, CurrentInv, NoChoice
  <2>2. FilterInv
    BY <1>1, InitFilters DEF Init
  <2> QED
    BY <1>1, <2>1, <2>2, InitContinuous DEF HeadphonesInv
<1>2. CASE BrsInit
  <2>1. CurrentInv /\ _interp_factor.current = 0
    BY <1>2, PartitionsAssumption DEF BrsInit, Parameter, CurrentInv, NoChoice
  <2>2. FilterInv
    BY <1>2, InitFilters DEF BrsInit
  <2> QED
    BY <1>2, <2>1, <2>2, BrsInitContinuous DEF HeadphonesInv
<1>3. Loudspeakers!Init => renderer # "brs"
  BY DEF Loudspeakers!Init
<1> QED
  BY <1>1, <1>2, <1>3 DEF RenderersInit

LEMMA HeadphonesStep ==
  ASSUME HeadphonesInv, [RenderersNext]_<<renderer, loudspeaker_vars, vars, matlab>>
  PROVE  HeadphonesInv' /\ [Combine => begins' = ends]_vars
<1>1. ASSUME UNCHANGED vars, renderer' = renderer PROVE HeadphonesInv'
  <2>1. ContinuityInv'
    BY <1>1 DEF HeadphonesInv, vars, filters, parameters, ContinuityInv, Sound, Convolve,
                Contents, Content
  <2>2. FilterInv' /\ CurrentInv'
    BY <1>1, FiltersStay DEF HeadphonesInv, vars
  <2> QED
    BY <1>1, <2>1, <2>2 DEF HeadphonesInv, vars, parameters
<1>2. CASE Combine /\ UNCHANGED renderer
  <2>1. ContinuityInv' /\ begins' = ends
    BY <1>2, CombineContinuous DEF HeadphonesInv
  <2>2. FilterInv' /\ CurrentInv'
    BY <1>2, FiltersStay DEF HeadphonesInv, Combine
  <2> QED
    BY <1>2, <2>1, <2>2 DEF HeadphonesInv, Combine, parameters
<1>3. ASSUME NEW index \in Indices, NEW factor \in Factors, NEW weight \in Weights,
             _process(index, factor, weight), renderer = "binaural", UNCHANGED renderer
      PROVE  HeadphonesInv' /\ ~ Combine
  BY <1>3, ProcessContinuous, ProcessAdvances DEF HeadphonesInv, _process, Combine
<1>4. ASSUME NEW index \in Indices, NEW weight \in Weights,
             BrsProcess(index, weight), renderer = "brs", UNCHANGED renderer
      PROVE  HeadphonesInv' /\ ~ Combine
  BY <1>4, BrsProcessContinuous, BrsProcessAdvances DEF HeadphonesInv, BrsProcess, Combine
<1>5. CASE renderer = "binaural" /\ Next /\ UNCHANGED renderer
  BY <1>2, <1>3, <1>5, CombineContinuous DEF Next, HeadphonesInv
<1>6. CASE renderer = "brs" /\ BrsNext /\ UNCHANGED renderer
  BY <1>2, <1>4, <1>6, CombineContinuous DEF BrsNext, HeadphonesInv
<1>7. CASE UNCHANGED vars /\ renderer' = renderer
  BY <1>1, <1>7
<1> QED
  BY <1>5, <1>6, <1>7, LoudspeakersKeepRenderer DEF RenderersNext

\* In every program that plays over headphones, each block begins with the filters
\* and the weight with which the block before it has ended.
THEOREM NoClicksAnywhere == RenderersSpec => NoClicks
BY HeadphonesInit, HeadphonesStep, PTL DEF RenderersSpec, NoClicks

\* In every program that plays over headphones, each partition of a filter is
\* applied to the block that it was chosen for, unless it was overwritten.
THEOREM FiltersInTimeAnywhere == RenderersSpec => []InTimeUnlessOverwritten
<1>1. HeadphonesInv => InTimeUnlessOverwritten
  BY FilterInvInTime DEF HeadphonesInv
<1> QED
  BY <1>1, HeadphonesInit, HeadphonesStep, PTL DEF RenderersSpec

------------------------------------------------------------------------------
(* The interface to MATLAB                                                 *)

SourceRecords == [position : {0, 1}, orientation : {0, 1}, model : {"point", "plane"}]
AnySources == Seq(SourceRecords)

\* Where no init has failed last, what has to fit together; and the types of an
\* engine, whatever has failed.
EngineTypes ==
  engine # <<>> =>
    engine[1] \in [block_size : Int \cup BlockSizes, outputs : Nat, inputs : Nat,
                   sources : AnySources]

LEMMA NewEngineFits ==
  ASSUME EngineTypes, EngineFits, InitCall
  PROVE  EngineTypes' /\ EngineFits'
<1> PICK a \in Arguments, name \in DOMAIN Files :
      LET file == Files[name]
          accepted == Bad \notin {a.number, a.size, a.others}
          loaded == accepted /\ file.fails \notin {"document", "subwoofer"}
          done == loaded /\ (file.fails = "order" => a.number = 0)
          new == NewEngine(a.size, file)
      IN  /\ Converted(a)
          /\ engine' = IF ~ accepted THEN engine
                       ELSE <<IF loaded THEN WithSources(new, file, a.number) ELSE new>>
          /\ out_channels' = IF loaded THEN file.outputs ELSE out_channels
          /\ Resized(done, a.number, file)
          /\ answer' = IF done THEN <<>> ELSE Error
          /\ failed' = ~ done
  BY DEF InitCall
<1> DEFINE file == Files[name]
           accepted == Bad \notin {a.number, a.size, a.others}
           loaded == accepted /\ file.fails \notin {"document", "subwoofer"}
           done == loaded /\ (file.fails = "order" => a.number = 0)
           new == NewEngine(a.size, file)
           with == WithSources(new, file, a.number)
<1>1. /\ Converted(a)
      /\ engine' = IF ~ accepted THEN engine ELSE <<IF loaded THEN with ELSE new>>
      /\ out_channels' = IF loaded THEN file.outputs ELSE out_channels
      /\ Resized(done, a.number, file)
      /\ failed' = ~ done
      /\ fate' = fate /\ fate = "running"
  BY DEF InitCall
<1>2. /\ file.outputs \in Nat
      /\ a.number \in {Bad} \cup Nat
      /\ a.size \in {Bad} \cup BlockSizes
  BY FilesAssumption DEF Arguments
<1>3. new \in [block_size : Int \cup BlockSizes, outputs : Nat, inputs : Nat, sources : AnySources]
  BY <1>2 DEF NewEngine, Bad, AnySources
<1>4. /\ new.block_size = a.size
      /\ file.fails # "document" => new.outputs = file.outputs
      /\ new.inputs = 0 /\ new.sources = <<>>
  BY DEF NewEngine
<1>5. ASSUME accepted
      PROVE  /\ with \in [block_size : Int \cup BlockSizes, outputs : Nat, inputs : Nat,
                          sources : AnySources]
             /\ with.block_size = a.size /\ with.outputs = new.outputs
             /\ done => with.inputs = a.number /\ Len(with.sources) = a.number
  <2>1. a.number \in Nat
    BY <1>2, <1>5 DEF Bad
  <2>2. PICK number \in Nat : number = a.number
    BY <2>1
  <2>3. PICK e \in [block_size : Int \cup BlockSizes, outputs : Nat, inputs : Nat,
                    sources : AnySources] : e = new
    BY <1>3
  <2> HIDE DEF new
  <2>4. CASE file.fails = "order"
    <3>1. with = [e EXCEPT !.inputs = IF number > 0 THEN 1 ELSE 0]
      BY <2>2, <2>3, <2>4 DEF WithSources
    <3> QED
      BY <1>4, <2>2, <2>3, <2>4, <3>1
  <2>5. CASE file.fails # "order"
    <3>1. PICK s : s = [id \in 1 .. number |-> NewSource]
      OBVIOUS
    <3>2. NewSource \in SourceRecords
      BY DEF NewSource, SourceRecords
    <3>3. s \in [1 .. number -> SourceRecords]
      BY <3>1, <3>2
    <3>4. s \in AnySources /\ Len(s) = number
      BY <3>3 DEF AnySources
    <3>5. with = [e EXCEPT !.inputs = number, !.sources = s]
      BY <2>2, <2>3, <2>5, <3>1 DEF WithSources
    <3> QED
      BY <1>4, <2>2, <2>3, <3>4, <3>5
  <2> QED
    BY <2>4, <2>5
<1> HIDE DEF new, with
<1>6. EngineTypes'
  BY <1>1, <1>3, <1>5 DEF EngineTypes
<1>7. done => /\ in_channels' = a.number /\ block_size' = a.size
              /\ input_pointers' = a.number /\ output_pointers' = file.outputs
              /\ out_channels' = file.outputs
  BY <1>1 DEF Converted, Resized
<1>8. ASSUME done PROVE EngineFits'
  <2>1. engine'[1] = with /\ fate' = "running"
    BY <1>1, <1>8
  <2> QED
    BY <1>4, <1>5, <1>7, <1>8, <2>1 DEF EngineFits
<1> QED
  BY <1>1, <1>6, <1>8 DEF EngineFits

LEMMA SourcesStayFit ==
  ASSUME EngineTypes, EngineFits, SourceCall
  PROVE  EngineTypes' /\ EngineFits'
<1> PICK member \in DOMAIN NewSource : \E values \in Lists(ValuesOf(member)), good \in 0 .. MaxChannels :
       /\ good = Len(values) \/ (member = "model" /\ good < Len(values))
       /\ IF Len(values) = in_channels
          THEN /\ Assigned(member, SubSeq(values, 1, good))
               /\ answer' = IF good = Len(values) THEN <<>> ELSE Error
          ELSE answer' = Error /\ UNCHANGED <<engine, fate>>
  BY DEF SourceCall
<1> PICK values \in Lists(ValuesOf(member)), good \in 0 .. MaxChannels :
       /\ good = Len(values) \/ (member = "model" /\ good < Len(values))
       /\ IF Len(values) = in_channels
          THEN /\ Assigned(member, SubSeq(values, 1, good))
               /\ answer' = IF good = Len(values) THEN <<>> ELSE Error
          ELSE answer' = Error /\ UNCHANGED <<engine, fate>>
  OBVIOUS
<1>1. fate = "running" /\ engine # <<>> /\ UNCHANGED <<globals, failed>>
  BY DEF SourceCall
<1>2. values \in Seq(ValuesOf(member)) /\ Len(values) \in Nat
  BY DEF Lists
<1>3. CASE Len(values) # in_channels
  BY <1>1, <1>3 DEF EngineTypes, EngineFits, globals
<1>4. CASE Len(values) = in_channels
  <2>1. PICK set : set = SubSeq(values, 1, good)
    OBVIOUS
  <2>2. set \in Seq(ValuesOf(member)) /\ Len(set) = good /\ good \in Nat
    BY <1>2, <2>1
  <2>3. PICK e \in [block_size : Int \cup BlockSizes, outputs : Nat, inputs : Nat,
                    sources : AnySources] : e = engine[1]
    BY <1>1 DEF EngineTypes
  <2>4. PICK sources \in AnySources : sources = e.sources
    BY <2>3
  <2>5. PICK new : new = [id \in DOMAIN sources |->
                            IF id <= Len(set) THEN [sources[id] EXCEPT ![member] = set[id]]
                                              ELSE sources[id]]
    OBVIOUS
  <2>6. /\ engine' = <<[e EXCEPT !.sources = new]>>
        /\ ~ (Len(set) > Len(sources)) => fate' = fate
    BY <1>4, <2>1, <2>3, <2>4, <2>5 DEF Assigned
  <2>7. new \in AnySources /\ Len(new) = Len(sources)
    <3>1. ASSUME NEW r \in SourceRecords, NEW v \in ValuesOf(member)
          PROVE  [r EXCEPT ![member] = v] \in SourceRecords
      <4>1. member \in {"position", "orientation", "model"}
        BY DEF NewSource
      <4>2. CASE member = "position"
        BY <4>2 DEF ValuesOf, SourceRecords
      <4>3. CASE member = "orientation"
        BY <4>3 DEF ValuesOf, SourceRecords
      <4>4. CASE member = "model"
        BY <4>4 DEF ValuesOf, SourceRecords
      <4> QED
        BY <4>1, <4>2, <4>3, <4>4
    <3>2. DOMAIN sources = 1 .. Len(sources) /\ Len(sources) \in Nat
      BY <2>4 DEF AnySources
    <3>3. \A id \in 1 .. Len(sources) : sources[id] \in SourceRecords
      BY <2>4 DEF AnySources
    <3>4. \A id \in 1 .. Len(sources) : id <= Len(set) => set[id] \in ValuesOf(member)
      BY <2>2, <3>2
    <3>5. new \in [1 .. Len(sources) -> SourceRecords]
      BY <2>5, <3>1, <3>2, <3>3, <3>4
    <3>6. new \in Seq(SourceRecords) /\ Len(new) = Len(sources)
      BY <3>2, <3>5
    <3> QED
      BY <3>6 DEF AnySources
  <2>8. PICK f \in [block_size : Int \cup BlockSizes, outputs : Nat, inputs : Nat,
                    sources : AnySources] :
          /\ f = [e EXCEPT !.sources = new]
          /\ f.block_size = e.block_size /\ f.outputs = e.outputs /\ f.inputs = e.inputs
          /\ f.sources = new
    <3>1. new \in AnySources
      BY <2>7
    <3>2. PICK f : f = [e EXCEPT !.sources = new]
      OBVIOUS
    <3>3. f \in [block_size : Int \cup BlockSizes, outputs : Nat, inputs : Nat,
                 sources : AnySources]
      BY <3>1, <3>2
    <3>4. /\ f.block_size = e.block_size /\ f.outputs = e.outputs /\ f.inputs = e.inputs
          /\ f.sources = new
      BY <3>2
    <3> QED
      BY <3>2, <3>3, <3>4
  <2>9. engine' = <<f>> /\ engine'[1] = f
    BY <2>6, <2>8
  <2>10. EngineTypes'
    BY <2>8, <2>9 DEF EngineTypes
  <2>11. EngineFits'
    <3> SUFFICES ASSUME ~ failed PROVE EngineFits'
      BY <1>1 DEF EngineFits
    <3>1. /\ in_channels = e.inputs /\ in_channels = Len(sources)
          /\ out_channels = e.outputs /\ block_size = e.block_size
          /\ in_channels = input_pointers /\ out_channels = output_pointers
      BY <1>1, <2>3, <2>4 DEF EngineFits
    <3>2. fate' = "running"
      BY <1>1, <1>4, <2>2, <2>6, <3>1
    <3>3. UNCHANGED globals
      BY <1>1
    <3> QED
      BY <2>7, <2>8, <2>9, <3>1, <3>2, <3>3 DEF EngineFits, globals
  <2> QED
    BY <2>10, <2>11
<1> QED
  BY <1>3, <1>4

\* Whatever calls have failed before, the globals of the MEX file fit the engine as
\* soon as an init succeeds, for any files, block sizes and numbers of channels.
THEOREM EngineAlwaysFits == RenderersSpec => []EngineFits
<1>1. MatlabInit => EngineTypes /\ EngineFits
  BY DEF MatlabInit, EngineTypes, EngineFits
<1>2. EngineTypes /\ EngineFits /\ (MatlabNext \/ UNCHANGED matlab) => EngineTypes' /\ EngineFits'
  <2> SUFFICES ASSUME EngineTypes, EngineFits, MatlabNext \/ UNCHANGED matlab
               PROVE  EngineTypes' /\ EngineFits'
    OBVIOUS
  <2>1. CASE UNCHANGED matlab
    BY <2>1 DEF matlab, EngineTypes, EngineFits
  <2>2. CASE ProcessCall
    <3>1. /\ fate = "running" /\ engine # <<>> /\ UNCHANGED <<engine, globals, failed>>
      BY <2>2 DEF ProcessCall
    <3>2. PICK rows \in BlockSizes, columns \in 0 .. MaxChannels :
            LET taken == rows = block_size /\ columns = in_channels
            IN  /\ answer' = IF taken THEN <<block_size, out_channels>> ELSE Error
                /\ fate' \in CASE ~ taken -> {"running"}
                     [] taken /\ block_size # engine[1].block_size -> {"assertion"}
                     [] OTHER -> {"running", IF Strays THEN "stray pointer" ELSE "one too many"}
      BY <2>2 DEF ProcessCall
    <3>3. ASSUME ~ failed PROVE fate' \in {"running", "one too many"}
      <4>1. block_size = engine[1].block_size
        BY <3>1, <3>3 DEF EngineFits
      <4>2. engine[1].inputs \in Nat /\ engine[1].outputs \in Nat
        BY <3>1 DEF EngineTypes
      <4>3. ~ Strays
        BY <3>1, <3>3, <4>2 DEF EngineFits, Strays
      <4> QED
        BY <3>2, <4>1, <4>3
    <3> QED
      BY <3>1, <3>3 DEF globals, EngineTypes, EngineFits
  <2>3. CASE QueryCall \/ ClearCall \/ OtherCall \/ Again
    BY <2>3 DEF QueryCall, ClearCall, OtherCall, Again, globals, EngineTypes, EngineFits
  <2> QED
    BY <2>1, <2>2, <2>3, NewEngineFits, SourcesStayFit DEF MatlabNext
<1>3. RenderersNext => MatlabNext \/ UNCHANGED matlab
  BY DEF RenderersNext
<1>4. RenderersInit => MatlabInit
  BY DEF RenderersInit
<1>5. [RenderersNext]_<<renderer, loudspeaker_vars, vars, matlab>> => MatlabNext \/ UNCHANGED matlab
  BY <1>3
<1> QED
  BY <1>1, <1>2, <1>4, <1>5, PTL DEF RenderersSpec

------------------------------------------------------------------------------
(* The delay line                                                          *)

\* How much later than the latest block a place of the delay line comes.
After(i) ==
  IF i >= line.block THEN i - line.block ELSE i - line.block + Loudspeakers!Length

\* What is there: the latest block, or what was written most of a round ago.
SampleAfter(r) ==
  LET time == IF r < BlockSize THEN r ELSE r - Loudspeakers!Length
  IN  IF written = 0 \/ time < (1 - written) * BlockSize THEN None ELSE time

LineInv ==
  /\ written \in 0 .. Loudspeakers!NumberOfBlocks
  /\ \E n \in 0 .. Loudspeakers!NumberOfBlocks - 1 : line.block = n * BlockSize
  /\ line.samples = line.block
  /\ \A i \in 0 .. Loudspeakers!Length - 1 : line.data[i] = SampleAfter(After(i))

\* Long enough for the longest delay, and for one block more.
LEMMA Lengths ==
  /\ Loudspeakers!NumberOfBlocks \in Nat /\ Loudspeakers!NumberOfBlocks >= 2
  /\ Loudspeakers!Length = Loudspeakers!NumberOfBlocks * BlockSize
  /\ Loudspeakers!Length \in Nat /\ Loudspeakers!Length >= 2 * BlockSize
  /\ Loudspeakers!Length >= MaxDelay + InitialDelay + BlockSize
<1> DEFINE n == MaxDelay + InitialDelay
           blocks == (n + 2 * BlockSize - 1) \div BlockSize
<1>1. BlockSize \in Nat \ {0} /\ n \in Nat
  BY DelayAssumption
<1>2. blocks \in Nat /\ blocks * BlockSize >= n + BlockSize
  <2> HIDE DEF n
  <2> QED
    BY <1>1
<1>3. Loudspeakers!NumberOfBlocks = IF blocks < 2 THEN 2 ELSE blocks
  BY DEF Loudspeakers!NumberOfBlocks
<1>4. PICK N \in Nat : N = Loudspeakers!NumberOfBlocks /\ N >= 2 /\ N >= blocks
  BY <1>2, <1>3
<1> HIDE DEF blocks
<1>5. N * BlockSize \in Nat /\ N * BlockSize >= 2 * BlockSize /\ N * BlockSize >= blocks * BlockSize
  BY <1>1, <1>2, <1>4
<1> QED
  BY <1>1, <1>2, <1>4, <1>5 DEF Loudspeakers!Length

LEMMA Wrapped ==
  ASSUME NEW full \in Nat \ {0}, NEW i \in - full .. 2 * full - 1
  PROVE  Loudspeakers!wrap(i, full)
         = IF i < 0 THEN i + full ELSE IF i < full THEN i ELSE i - full
BY DEF Loudspeakers!wrap

\* A block fits before the end, and the next one begins where it ends or at 0.
LEMMA BlockFits ==
  ASSUME LineInv
  PROVE  /\ line.block \in 0 .. Loudspeakers!Length - BlockSize
         /\ Loudspeakers!wrap(line.block + BlockSize, Loudspeakers!Length)
            = IF line.block = Loudspeakers!Length - BlockSize THEN 0 ELSE line.block + BlockSize
         /\ \E n \in 0 .. Loudspeakers!NumberOfBlocks - 1 :
              Loudspeakers!wrap(line.block + BlockSize, Loudspeakers!Length) = n * BlockSize
<1> DEFINE N == Loudspeakers!NumberOfBlocks
           L == Loudspeakers!Length
<1>1. BlockSize \in Nat \ {0}
  BY DelayAssumption
<1>2. N \in Nat /\ N >= 2 /\ L = N * BlockSize /\ L \in Nat /\ L >= 2 * BlockSize
  BY Lengths
<1>3. PICK n \in 0 .. N - 1 : line.block = n * BlockSize
  BY DEF LineInv
<1> HIDE DEF N, L
<1>4. n * BlockSize \in Nat /\ n * BlockSize + BlockSize <= L
  BY <1>1, <1>2
<1>5. n * BlockSize = L - BlockSize <=> n = N - 1
  BY <1>1, <1>2
<1>6. line.block \in 0 .. L - BlockSize
  BY <1>1, <1>2, <1>3, <1>4
<1>7. Loudspeakers!wrap(line.block + BlockSize, L)
      = IF line.block = L - BlockSize THEN 0 ELSE line.block + BlockSize
  <2>1. L \in Nat \ {0} /\ line.block + BlockSize \in - L .. 2 * L - 1
    BY <1>1, <1>2, <1>6
  <2> QED
    BY <1>1, <1>2, <1>6, <2>1, Wrapped
<1>8. \E m \in 0 .. N - 1 : Loudspeakers!wrap(line.block + BlockSize, L) = m * BlockSize
  <2>1. CASE n = N - 1
    <3>1. Loudspeakers!wrap(line.block + BlockSize, L) = 0 * BlockSize
      BY <1>1, <1>3, <1>5, <1>7, <2>1
    <3> QED
      BY <1>2, <3>1
  <2>2. CASE n # N - 1
    <3>1. Loudspeakers!wrap(line.block + BlockSize, L) = (n + 1) * BlockSize
      BY <1>1, <1>3, <1>5, <1>7, <2>2
    <3> QED
      BY <1>2, <2>2, <3>1
  <2> QED
    BY <2>1, <2>2
<1> QED
  BY <1>6, <1>7, <1>8 DEF N, L

LEMMA WriteBlockStep ==
  ASSUME LineInv, line' = Loudspeakers!write_block(line),
         written' = IF written < Loudspeakers!NumberOfBlocks THEN written + 1 ELSE written
  PROVE  LineInv'
<1> DEFINE N == Loudspeakers!NumberOfBlocks
           L == Loudspeakers!Length
           start == Loudspeakers!wrap(line.block + BlockSize, L)
<1>1. BlockSize \in Nat \ {0} /\ None \notin Int
  BY DelayAssumption
<1>2. N \in Nat /\ N >= 2 /\ L = N * BlockSize /\ L \in Nat /\ L >= 2 * BlockSize
  BY Lengths
<1>3. /\ line.block \in 0 .. L - BlockSize
      /\ start = IF line.block = L - BlockSize THEN 0 ELSE line.block + BlockSize
      /\ \E n \in 0 .. N - 1 : start = n * BlockSize
  BY BlockFits
<1>4. /\ line'.block = start
      /\ line'.samples = Loudspeakers!wrap(line.samples + BlockSize, L)
      /\ \A i \in 0 .. L - 1 :
           line'.data[i] = IF i \in start .. start + BlockSize - 1 THEN i - start
                           ELSE IF line.data[i] = None THEN None ELSE line.data[i] - BlockSize
  BY DEF Loudspeakers!write_block
<1>5. line'.samples = start
  BY <1>4 DEF LineInv
<1>6. written \in 0 .. N
  BY DEF LineInv
<1>7. (1 - N) * BlockSize = BlockSize - L
  BY <1>1, <1>2
<1>8. (1 - (written + 1)) * BlockSize = (1 - written) * BlockSize - BlockSize
  BY <1>1, <1>2, <1>6
<1>9. PICK low \in Int : low = (1 - written) * BlockSize
  BY <1>1, <1>2, <1>6
<1>10. ASSUME NEW i \in 0 .. L - 1
       PROVE  line'.data[i] = SampleAfter(After(i))'
  <2>1. PICK old : old = After(i)
    OBVIOUS
  <2>2. PICK new : new = After(i)'
    OBVIOUS
  <2>3. old = IF i >= line.block THEN i - line.block ELSE i - line.block + L
    BY <2>1 DEF After
  <2>4. new = IF i >= start THEN i - start ELSE i - start + L
    BY <1>4, <2>2 DEF After
  <2>5. line.data[i] = IF written = 0 \/ (IF old < BlockSize THEN old ELSE old - L) < low
                       THEN None ELSE IF old < BlockSize THEN old ELSE old - L
    BY <1>9, <2>1 DEF LineInv, SampleAfter
  <2>6. written' = IF written = N THEN N ELSE written + 1
    BY <1>2, <1>6
  <2>7. SampleAfter(After(i))'
        = IF (IF new < BlockSize THEN new ELSE new - L)
             < (IF written = N THEN BlockSize - L ELSE low - BlockSize)
          THEN None ELSE IF new < BlockSize THEN new ELSE new - L
    <3>1. (1 - written') * BlockSize = IF written = N THEN BlockSize - L ELSE low - BlockSize
      BY <1>7, <1>8, <1>9, <2>6
    <3>2. written' # 0
      BY <1>2, <1>6, <2>6
    <3> QED
      BY <2>2, <3>1, <3>2 DEF SampleAfter
  <2>8. written = N => low = BlockSize - L
    BY <1>7, <1>9
  <2>9. written = 0 => low = BlockSize
    BY <1>1, <1>9
  <2>10. written > 0 => low <= 0
    BY <1>1, <1>2, <1>6, <1>9
  <2>11. low >= BlockSize - L
    BY <1>1, <1>2, <1>6, <1>7, <1>9
  <2> HIDE DEF N, L, start
  <2>12. CASE i \in start .. start + BlockSize - 1
    <3>1. new = i - start /\ new \in 0 .. BlockSize - 1
      BY <1>1, <1>2, <1>3, <2>4, <2>12
    <3>2. line'.data[i] = new
      BY <1>4, <2>12, <3>1
    <3>3. ~ (new < (IF written = N THEN BlockSize - L ELSE low - BlockSize))
      BY <1>1, <1>2, <1>6, <2>9, <2>10, <3>1
    <3> QED
      BY <1>1, <2>7, <3>1, <3>2, <3>3
  <2>13. CASE ~ (i \in start .. start + BlockSize - 1)
    <3>1. new \in BlockSize .. L - 1
      BY <1>1, <1>2, <1>3, <2>4, <2>13
    <3>2. old \in 0 .. L - 1
      BY <1>1, <1>2, <1>3, <2>3
    <3>3. (IF old < BlockSize THEN old ELSE old - L) - BlockSize = new - L
      BY <1>1, <1>2, <1>3, <2>3, <2>4, <2>13
    <3>4. line'.data[i] = IF line.data[i] = None THEN None ELSE line.data[i] - BlockSize
      BY <1>4, <2>13
    <3>5. PICK time \in Int : time = IF old < BlockSize THEN old ELSE old - L
      BY <1>1, <1>2, <3>2
    <3>6. line'.data[i] = IF written = 0 \/ time < low THEN None ELSE new - L
      BY <1>1, <2>5, <3>3, <3>4, <3>5
    <3>7. new - L = time - BlockSize /\ ~ (new < BlockSize) /\ new - L < 0 /\ new - L >= BlockSize - L
      BY <1>1, <1>2, <3>1, <3>3, <3>5
    <3>8. SampleAfter(After(i))'
          = IF time - BlockSize < (IF written = N THEN BlockSize - L ELSE low - BlockSize)
            THEN None ELSE new - L
      BY <2>7, <3>7
    <3>9. time - BlockSize < (IF written = N THEN BlockSize - L ELSE low - BlockSize)
          <=> written = 0 \/ time < low
      BY <1>1, <1>2, <1>6, <2>8, <2>9, <2>10, <2>11, <3>1, <3>7
    <3> QED
      BY <3>6, <3>8, <3>9
  <2> QED
    BY <2>12, <2>13
<1>11. written' \in 0 .. N
  BY <1>2, <1>6
<1> QED
  BY <1>3, <1>4, <1>5, <1>10, <1>11 DEF LineInv

LEMMA ReadBlock ==
  ASSUME LineInv, NEW delay \in - InitialDelay .. MaxDelay, NEW k \in 0 .. BlockSize - 1
  PROVE  Loudspeakers!read_block(line, delay)[k]
         = LET time == k - delay - InitialDelay
           IN  IF time < (1 - written) * BlockSize \/ written = 0 THEN None ELSE time
<1> DEFINE L == Loudspeakers!Length
           from == Loudspeakers!wrap(line.samples - (delay + InitialDelay), L)
           i == Loudspeakers!wrap(from + k, L)
           time == k - delay - InitialDelay
<1>1. BlockSize \in Nat \ {0} /\ MaxDelay \in Nat /\ InitialDelay \in Nat
  BY DelayAssumption
<1>2. L \in Nat \ {0} /\ L >= 2 * BlockSize /\ L >= MaxDelay + InitialDelay + BlockSize
  BY <1>1, Lengths
<1>3. line.samples = line.block /\ line.block \in 0 .. L - BlockSize
  BY BlockFits DEF LineInv
<1>4. Loudspeakers!read_block(line, delay)[k] = line.data[i]
  BY DEF Loudspeakers!read_block, Loudspeakers!get_read_circulator
<1>5. PICK D \in 0 .. MaxDelay + InitialDelay : D = delay + InitialDelay
  BY <1>1
<1>6. from = IF line.block - D < 0 THEN line.block - D + L ELSE line.block - D
  <2>1. line.block - D \in - L .. 2 * L - 1 /\ line.block - D < L
    BY <1>1, <1>2, <1>3
  <2> HIDE DEF L
  <2> QED
    BY <1>2, <1>3, <1>5, <2>1, Wrapped
<1>7. from \in 0 .. L - 1
  BY <1>1, <1>2, <1>3, <1>6
<1> HIDE DEF from
<1>8. i = IF from + k < L THEN from + k ELSE from + k - L
  <2>1. PICK x \in 0 .. 2 * L - 1 : x = from + k
    BY <1>1, <1>2, <1>7
  <2> HIDE DEF L
  <2>2. L \in Nat \ {0} /\ x \in - L .. 2 * L - 1 /\ ~ (x < 0)
    BY <1>2
  <2>3. Loudspeakers!wrap(x, L) = IF x < 0 THEN x + L ELSE IF x < L THEN x ELSE x - L
    BY <2>2, Wrapped
  <2>4. Loudspeakers!wrap(x, L) = IF x < L THEN x ELSE x - L
    BY <2>2, <2>3
  <2> QED
    BY <1>1, <1>2, <1>7, <2>1, <2>4
<1>9. i \in 0 .. L - 1
  BY <1>1, <1>2, <1>7, <1>8
<1> HIDE DEF i, L
<1>10. line.data[i] = SampleAfter(After(i))
  BY <1>9 DEF LineInv, L
<1>11. time = k - D /\ time \in Int /\ time < BlockSize /\ time >= BlockSize - L
  BY <1>1, <1>2, <1>5
<1>12. After(i) = IF i >= line.block THEN i - line.block ELSE i - line.block + L
  BY DEF After, L
<1>13. After(i) = IF time < 0 THEN time + L ELSE time
  <2>1. PICK place \in 0 .. L - 1 : place = i
    BY <1>9
  <2>2. PICK first \in 0 .. L - 1 : first = from
    BY <1>7
  <2>3. PICK b \in 0 .. L - BlockSize : b = line.block
    BY <1>3
  <2>4. first = IF b - D < 0 THEN b - D + L ELSE b - D
    BY <1>6, <2>2, <2>3
  <2>5. place = IF first + k < L THEN first + k ELSE first + k - L
    BY <1>8, <2>1, <2>2
  <2>6. After(i) = IF place >= b THEN place - b ELSE place - b + L
    BY <1>12, <2>1, <2>3
  <2>7. (IF place >= b THEN place - b ELSE place - b + L) = IF k - D < 0 THEN k - D + L ELSE k - D
    BY <1>1, <1>2, <2>4, <2>5
  <2> QED
    BY <1>11, <2>6, <2>7
<1>14. (IF After(i) < BlockSize THEN After(i) ELSE After(i) - L) = time
  <2> HIDE DEF time
  <2> QED
    BY <1>1, <1>2, <1>11, <1>13
<1>15. SampleAfter(After(i)) = IF written = 0 \/ time < (1 - written) * BlockSize THEN None ELSE time
  <2>1. SampleAfter(After(i))
        = LET t == IF After(i) < BlockSize THEN After(i) ELSE After(i) - L
          IN  IF written = 0 \/ t < (1 - written) * BlockSize THEN None ELSE t
    BY DEF SampleAfter, L
  <2> HIDE DEF time
  <2> QED
    BY <1>14, <2>1
<1> QED
  BY <1>4, <1>10, <1>15

LEMMA NewLine ==
  ASSUME line = Loudspeakers!NewDelayLine, written = 0
  PROVE  LineInv
<1>1. BlockSize \in Nat \ {0}
  BY DelayAssumption
<1>2. \A i \in 0 .. Loudspeakers!Length - 1 : line.data[i] = SampleAfter(After(i))
  BY DEF Loudspeakers!NewDelayLine, SampleAfter
<1>3. 0 \in 0 .. Loudspeakers!NumberOfBlocks - 1 /\ 0 * BlockSize = 0
  BY <1>1, Lengths
<1>4. line.block = 0 /\ line.samples = 0
  BY DEF Loudspeakers!NewDelayLine
<1>5. written \in 0 .. Loudspeakers!NumberOfBlocks
  BY Lengths
<1> QED
  BY <1>2, <1>3, <1>4, <1>5 DEF LineInv

LEMMA LoudspeakerSteps ==
  ASSUME Loudspeakers!Next
  PROVE  \/ /\ UNCHANGED <<renderer, outputs, offset, list, pair, channels, source_state, line,
                         outputs_end, inside, written>>
            /\ outputs_begin' = <<>>
         \/ Loudspeakers!Process
BY DEF Loudspeakers!Next, Loudspeakers!set_source_position, Loudspeakers!set_source_model,
       Loudspeakers!set_source_orientation, Loudspeakers!set_source_gain,
       Loudspeakers!set_reference_position, Loudspeakers!set_reference_orientation,
       Loudspeakers!set_reference_offset_position, Loudspeakers!Change

\* What the other programs leave alone.
LEMMA OnlyLoudspeakers ==
  ASSUME [RenderersNext]_<<renderer, loudspeaker_vars, vars, matlab>>
  PROVE  UNCHANGED <<renderer, loudspeaker_vars>> \/ Loudspeakers!Next
BY DEF RenderersNext

\* For every size of a block and all lengths of the delays: a valid delay reads
\* exactly what was written so many samples ago, and silence where nothing was.
THEOREM AlwaysDelayedExactly == RenderersSpec => []DelayedExactly
<1> DEFINE Inv == renderer = "wfs" => LineInv
<1>1. RenderersInit => Inv
  <2> SUFFICES ASSUME RenderersInit, renderer = "wfs" PROVE LineInv
    OBVIOUS
  <2>1. Loudspeakers!Init
    BY DEF RenderersInit
  <2> QED
    BY <2>1, NewLine DEF Loudspeakers!Init
<1>2. Inv /\ [RenderersNext]_<<renderer, loudspeaker_vars, vars, matlab>> => Inv'
  <2> SUFFICES ASSUME Inv, [RenderersNext]_<<renderer, loudspeaker_vars, vars, matlab>>,
                      renderer' = "wfs"
               PROVE  LineInv'
    OBVIOUS
  <2>1. ASSUME UNCHANGED <<renderer, line, written>> PROVE LineInv'
    BY <2>1 DEF LineInv, After, SampleAfter
  <2>2. CASE Loudspeakers!Process
    <3>1. renderer = "wfs"
      BY <2>2 DEF Loudspeakers!Process
    <3>2. Loudspeakers!ProcessWfs
      BY <2>2, <3>1 DEF Loudspeakers!Process, Loudspeakers!ProcessVbap, Loudspeakers!ProcessAap,
                        Loudspeakers!ProcessNfcHoa, Loudspeakers!ProcessGeneric
    <3>3. /\ line' = Loudspeakers!write_block(line)
          /\ written' = IF written < Loudspeakers!NumberOfBlocks THEN written + 1 ELSE written
      BY <3>2 DEF Loudspeakers!ProcessWfs
    <3> QED
      BY <3>1, <3>3, WriteBlockStep
  <2> QED
    BY <2>1, <2>2, OnlyLoudspeakers, LoudspeakerSteps DEF loudspeaker_vars
<1>3. Inv => DelayedExactly
  <2> SUFFICES ASSUME Inv, renderer = "wfs",
                      NEW delay \in - InitialDelay - 1 .. MaxDelay + 1
               PROVE  /\ Loudspeakers!delay_is_valid(delay) <=> delay \in - InitialDelay .. MaxDelay
                      /\ Loudspeakers!delay_is_valid(delay) =>
                           \A k \in 0 .. BlockSize - 1 :
                             LET time == k - delay - InitialDelay
                             IN  Loudspeakers!read_block(line, delay)[k] =
                                   IF time < (1 - written) * BlockSize \/ written = 0
                                   THEN None ELSE time
    BY DEF DelayedExactly, Loudspeakers!DelayedExactly
  <2>1. Loudspeakers!delay_is_valid(delay) <=> delay \in - InitialDelay .. MaxDelay
    BY DelayAssumption DEF Loudspeakers!delay_is_valid
  <2> QED
    BY <2>1, ReadBlock
<1> HIDE DEF Inv
<1> QED
  BY <1>1, <1>2, <1>3, PTL DEF RenderersSpec

------------------------------------------------------------------------------
(* Loudspeakers                                                            *)

\* What a source plays at an output after the crossfade.
Settled(channel) ==
  IF channel.weight = Loudspeakers!Zero THEN Loudspeakers!Silence
  ELSE [weight |-> channel.weight, delay |-> channel.delay]

\* The last block has ended with what is set for the next one, except for NFC-HOA.
EndsAsSet ==
  /\ renderer = "wfs" => outputs_end = [o \in DOMAIN outputs |-> Settled(channels[o])]
  /\ renderer = "vbap" =>
       outputs_end = [o \in DOMAIN outputs |->
                        [weight |-> Loudspeakers!Vbap!WeightIn(pair, o), delay |-> 0]]
  /\ renderer = "aap" => outputs_end = channels
  /\ renderer = "generic" =>
       outputs_end = [o \in DOMAIN outputs |->
                        Loudspeakers!convolve(Loudspeakers!Response(o), source_state.weight)]

LEMMA CrossfadeSettles ==
  ASSUME NEW old, NEW new
  PROVE  /\ Loudspeakers!Crossfade(old, new).begins = Settled(old)
         /\ Loudspeakers!Crossfade(old, new).ends = Settled(new)
<1> DEFINE mode == Loudspeakers!CrossfadeMode(old, new)
<1>1. CASE old.weight = Loudspeakers!Zero /\ new.weight = Loudspeakers!Zero
  <2>1. mode = "nothing"
    BY <1>1 DEF Loudspeakers!CrossfadeMode
  <2> QED
    BY <1>1, <2>1 DEF Loudspeakers!Crossfade, Settled
<1>2. CASE new.weight # Loudspeakers!Zero /\ old = new
  <2>1. mode = "constant"
    BY <1>2 DEF Loudspeakers!CrossfadeMode
  <2> QED
    BY <1>2, <2>1 DEF Loudspeakers!Crossfade, Settled
<1>3. CASE old.weight = Loudspeakers!Zero /\ new.weight # Loudspeakers!Zero
  <2>1. mode = "fade_in"
    BY <1>3 DEF Loudspeakers!CrossfadeMode
  <2> QED
    BY <1>3, <2>1 DEF Loudspeakers!Crossfade, Settled
<1>4. CASE old.weight # Loudspeakers!Zero /\ new.weight = Loudspeakers!Zero
  <2>1. mode = "fade_out"
    BY <1>4 DEF Loudspeakers!CrossfadeMode
  <2> QED
    BY <1>4, <2>1 DEF Loudspeakers!Crossfade, Settled
<1>5. CASE old.weight # Loudspeakers!Zero /\ new.weight # Loudspeakers!Zero /\ old # new
  <2>1. mode = "change"
    BY <1>5 DEF Loudspeakers!CrossfadeMode
  <2> QED
    BY <1>5, <2>1 DEF Loudspeakers!Crossfade, Settled
<1> QED
  BY <1>1, <1>2, <1>3, <1>4, <1>5

LEMMA SelectSettles ==
  ASSUME NEW response, NEW old, NEW new
  PROVE  /\ Loudspeakers!select(response, old, new).begins = Loudspeakers!convolve(response, old)
         /\ Loudspeakers!select(response, old, new).ends = Loudspeakers!convolve(response, new)
<1>1. CASE old = 0 /\ new = 0
  BY <1>1 DEF Loudspeakers!select, Loudspeakers!convolve
<1>2. CASE old = 0 /\ new # 0
  BY <1>2 DEF Loudspeakers!select, Loudspeakers!convolve
<1>3. CASE old # 0 /\ new = 0
  BY <1>3 DEF Loudspeakers!select, Loudspeakers!convolve
<1>4. CASE old # 0 /\ new = old
  BY <1>4 DEF Loudspeakers!select, Loudspeakers!convolve
<1>5. CASE old # 0 /\ new # 0 /\ new # old
  BY <1>5 DEF Loudspeakers!select, Loudspeakers!convolve
<1> QED
  BY <1>1, <1>2, <1>3, <1>4, <1>5

LEMMA InitEndsAsSet == ASSUME Loudspeakers!Init PROVE EndsAsSet
<1>1. channels = [o \in DOMAIN outputs |-> Loudspeakers!Silence]
  BY DEF Loudspeakers!Init
<1>2. ASSUME renderer \in {"wfs", "vbap", "aap"} PROVE outputs_end = channels
  BY <1>2 DEF Loudspeakers!Init
<1>3. ASSUME renderer = "generic"
      PROVE  outputs_end = [o \in DOMAIN outputs |-> <<>>] /\ source_state.weight = 0
  BY <1>3 DEF Loudspeakers!Init
<1>4. Settled(Loudspeakers!Silence) = Loudspeakers!Silence
  BY DEF Settled, Loudspeakers!Silence
<1>5. renderer = "wfs" => outputs_end = [o \in DOMAIN outputs |-> Settled(channels[o])]
  BY <1>1, <1>2, <1>4
<1>6. pair = <<Loudspeakers!Vbap!Unplayed, Loudspeakers!Vbap!Unplayed>>
  BY DEF Loudspeakers!Init
<1>7. \A o : Loudspeakers!Vbap!WeightIn(pair, o) = <<>>
  BY <1>6 DEF Loudspeakers!Vbap!WeightIn, Loudspeakers!Vbap!Unplayed
<1>8. renderer = "vbap" =>
        outputs_end = [o \in DOMAIN outputs |->
                         [weight |-> Loudspeakers!Vbap!WeightIn(pair, o), delay |-> 0]]
  BY <1>1, <1>2, <1>7 DEF Loudspeakers!Silence, Loudspeakers!Zero
<1>9. renderer = "generic" =>
        outputs_end = [o \in DOMAIN outputs |->
                         Loudspeakers!convolve(Loudspeakers!Response(o), source_state.weight)]
  BY <1>3 DEF Loudspeakers!convolve
<1> QED
  BY <1>2, <1>5, <1>8, <1>9 DEF EndsAsSet

\* Both what a block of these four begins with and what it ends with.
LEMMA ProcessEndsAsSet ==
  ASSUME EndsAsSet, Loudspeakers!Process, renderer # "nfc-hoa"
  PROVE  EndsAsSet' /\ outputs_begin' = outputs_end
<1>1. UNCHANGED <<renderer, outputs>>
  BY DEF Loudspeakers!Process
<1>2. CASE Loudspeakers!ProcessWfs
  <2> DEFINE new(o) == Loudspeakers!Driven(outputs[o], Loudspeakers!AnySource, settings.gain,
                         outputs, Loudspeakers!AnyReference, Loudspeakers!Offset)
             fades == [o \in DOMAIN outputs |-> Loudspeakers!Crossfade(channels[o], new(o))]
  <2>1. /\ renderer = "wfs"
        /\ channels' = [o \in DOMAIN outputs |-> new(o)]
        /\ outputs_begin' = [o \in DOMAIN outputs |-> fades[o].begins]
        /\ outputs_end' = [o \in DOMAIN outputs |-> fades[o].ends]
    BY <1>2 DEF Loudspeakers!ProcessWfs
  <2> HIDE DEF new
  <2>2. \A o \in DOMAIN outputs :
          fades[o].begins = Settled(channels[o]) /\ fades[o].ends = Settled(new(o))
    BY CrossfadeSettles
  <2>3. outputs_begin' = [o \in DOMAIN outputs |-> Settled(channels[o])]
    BY <2>1, <2>2
  <2>4. outputs_end' = [o \in DOMAIN outputs |-> Settled(channels'[o])]
    BY <2>1, <2>2
  <2> QED
    BY <1>1, <2>1, <2>3, <2>4 DEF EndsAsSet
<1>3. CASE Loudspeakers!ProcessVbap
  BY <1>1, <1>3 DEF EndsAsSet, Loudspeakers!ProcessVbap
<1>4. CASE Loudspeakers!ProcessAap
  BY <1>1, <1>4 DEF EndsAsSet, Loudspeakers!ProcessAap
<1>5. CASE Loudspeakers!ProcessGeneric
  <2>1. /\ renderer = "generic"
        /\ source_state'.weight = settings.gain
        /\ outputs_begin' = [o \in DOMAIN outputs |->
             Loudspeakers!select(Loudspeakers!Response(o), source_state.weight, settings.gain).begins]
        /\ outputs_end' = [o \in DOMAIN outputs |->
             Loudspeakers!select(Loudspeakers!Response(o), source_state.weight, settings.gain).ends]
    BY <1>5 DEF Loudspeakers!ProcessGeneric
  <2>2. \A o : Loudspeakers!Response(o)' = Loudspeakers!Response(o)
    BY <1>1 DEF Loudspeakers!Response
  <2>3. outputs_begin' = [o \in DOMAIN outputs |->
          Loudspeakers!convolve(Loudspeakers!Response(o), source_state.weight)]
    BY <2>1, SelectSettles
  <2>4. outputs_end' = [o \in DOMAIN outputs |->
          Loudspeakers!convolve(Loudspeakers!Response(o), source_state'.weight)]
    BY <2>1, SelectSettles
  <2>5. outputs_end' = [o \in DOMAIN outputs' |->
          Loudspeakers!convolve(Loudspeakers!Response(o)', source_state'.weight)]
    BY <1>1, <2>2, <2>4
  <2> QED
    BY <1>1, <2>1, <2>3, <2>5 DEF EndsAsSet
<1>6. ~ Loudspeakers!ProcessNfcHoa
  BY DEF Loudspeakers!ProcessNfcHoa
<1> QED
  BY <1>2, <1>3, <1>4, <1>5, <1>6 DEF Loudspeakers!Process

------------------------------------------------------------------------------
(* NFC-HOA                                                                 *)

\* What is heard of each mode, if nothing changes.
SetHeard(state) ==
  [m \in DOMAIN state.modes |->
     Loudspeakers!Hoa!Heard(<<state.modes[m].filter, state.modes[m]._coefficients>>,
                            state.modes[m].rotation, state.weight)]

\* What each output plays of it.
Spectrum(o, loudspeakers, heard) ==
  <<o, [bin \in 0 .. loudspeakers - 1 |->
          Loudspeakers!Hoa!Accumulated(bin, loudspeakers, heard)]>>

LEMMA InTwoChannels ==
  ASSUME NEW L \in Nat, NEW s \in 0 .. 1, NEW k \in 0 .. L - 1
  PROVE  /\ s * L + k \in 0 .. 2 * L - 1
         /\ (s * L + k) \div L = s /\ (s * L + k) % L = k
<1>1. CASE s = 0
  BY <1>1
<1>2. CASE s = 1
  BY <1>2
<1> QED
  BY <1>1, <1>2

LEMMA InTwoSlices ==
  ASSUME NEW L \in Nat, NEW s \in 0 .. 1, NEW k \in 0 .. L - 1
  PROVE  /\ s + k * 2 \in 0 .. 2 * L - 1
         /\ (s + k * 2) \div 2 = k /\ (s + k * 2) % 2 = s
OBVIOUS

\* A matrix of two channels.
TwoChannels(matrix, L) ==
  \E data : /\ matrix = [max_channels |-> 2, max_slices |-> L, data |-> data]
            /\ DOMAIN data = 0 .. 2 * L - 1

\* The channels that a matrix was set to, and the slices of it.
SetTo(matrix, L, ch) ==
  /\ TwoChannels(matrix, L)
  /\ \A s \in 0 .. 1 :
       /\ Loudspeakers!Hoa!channels(matrix)[s] = [k \in 0 .. L - 1 |-> ch[s][k]]
       /\ \A k \in 0 .. L - 1 : Loudspeakers!Hoa!slices(matrix)[k][s] = ch[s][k]

LEMMA SetMatrix ==
  ASSUME NEW L \in Nat, NEW ch, NEW matrix, TwoChannels(matrix, L)
  PROVE  SetTo(Loudspeakers!Hoa!set_channels(matrix, ch), L, ch)
<1> DEFINE m == Loudspeakers!Hoa!set_channels(matrix, ch)
<1>1. PICK c, s, d : /\ matrix = [max_channels |-> c, max_slices |-> s, data |-> d]
                     /\ c = 2 /\ s = L /\ DOMAIN d = 0 .. 2 * L - 1
  BY DEF TwoChannels
<1>2. c = 2 /\ s = L /\ DOMAIN d = 0 .. 2 * L - 1
  BY <1>1
<1>3. m = [max_channels |-> 2, max_slices |-> L,
           data |-> [k \in 0 .. 2 * L - 1 |-> ch[k \div L][k % L]]]
  BY <1>1, <1>2 DEF Loudspeakers!Hoa!set_channels
<1> HIDE DEF m
<1>4. /\ m.max_channels = 2 /\ m.max_slices = L /\ DOMAIN m.data = 0 .. 2 * L - 1
      /\ m = [max_channels |-> m.max_channels, max_slices |-> m.max_slices, data |-> m.data]
      /\ \A k \in 0 .. 2 * L - 1 : m.data[k] = ch[k \div L][k % L]
  BY <1>3
<1>5. ASSUME NEW t \in 0 .. 1
      PROVE  /\ Loudspeakers!Hoa!channels(m)[t] = [k \in 0 .. L - 1 |-> ch[t][k]]
             /\ \A k \in 0 .. L - 1 : Loudspeakers!Hoa!slices(m)[k][t] = ch[t][k]
  <2>1. \A k \in 0 .. L - 1 : m.data[t * L + k] = ch[t][k]
    BY <1>4, InTwoChannels
  <2>2. Loudspeakers!Hoa!channels(m)[t] = [k \in 0 .. L - 1 |-> m.data[t * L + k * 1]]
    BY <1>4 DEF Loudspeakers!Hoa!channels, Loudspeakers!Hoa!Strided
  <2>3. \A k \in 0 .. L - 1 : k * 1 = k
    OBVIOUS
  <2>4. ASSUME NEW k \in 0 .. L - 1 PROVE Loudspeakers!Hoa!slices(m)[k][t] = ch[t][k]
    <3>1. Loudspeakers!Hoa!slices(m)[k] = [i \in 0 .. 1 |-> m.data[k + i * L]]
      BY <1>4 DEF Loudspeakers!Hoa!slices, Loudspeakers!Hoa!Strided
    <3>2. k + t * L = t * L + k
      <4>1. CASE t = 0
        BY <4>1
      <4>2. CASE t = 1
        BY <4>2
      <4> QED
        BY <4>1, <4>2
    <3> QED
      BY <2>1, <3>1, <3>2
  <2> QED
    BY <2>1, <2>2, <2>3, <2>4
<1>6. TwoChannels(m, L)
  BY <1>4 DEF TwoChannels
<1> QED
  BY <1>5, <1>6 DEF m, SetTo

\* The matrices and the transforms bring to each output what is heard of each mode.
LEMMA SliceHeard ==
  ASSUME NEW L \in Nat, NEW old, NEW new, NEW o \in 0 .. L - 1, NEW s \in 0 .. 1
  PROVE  Loudspeakers!Hoa!Slice(L, old, new)[o][s]
           = Spectrum(o, L, [m \in DOMAIN new.modes |->
                               Loudspeakers!Hoa!FirstAndLast(old, new, m)[s + 1]])
<1> DEFINE heard == [sample \in 0 .. 1 |-> [m \in DOMAIN new.modes |->
                       Loudspeakers!Hoa!FirstAndLast(old, new, m)[sample + 1]]]
           modes == Loudspeakers!Hoa!_mode_matrix(L, old, new)
           sums == Loudspeakers!Hoa!slices(modes)
           empty == Loudspeakers!Hoa!initialize(2, L, <<>>)
           transposed == Loudspeakers!Hoa!set_channels(empty, sums)
           spectra == [sample \in 0 .. 1 |-> [i \in 0 .. L - 1 |->
                         <<i, Loudspeakers!Hoa!channels(transposed)[sample]>>]]
           transformed == Loudspeakers!Hoa!set_channels(transposed, spectra)
<1>1. modes = [max_channels |-> L, max_slices |-> 2,
               data |-> [k \in 0 .. 2 * L - 1 |->
                           Loudspeakers!Hoa!Accumulated(k \div 2, L, heard[k % 2])]]
  BY DEF Loudspeakers!Hoa!_mode_matrix, Loudspeakers!Hoa!fixed_matrix
<1>2. Loudspeakers!Hoa!Slice(L, old, new) = Loudspeakers!Hoa!slices(transformed)
  BY DEF Loudspeakers!Hoa!Slice
<1> HIDE DEF heard, modes
<1>3. /\ sums[s] = [k \in 0 .. L - 1 |-> modes.data[s + k * 2]]
  BY <1>1 DEF Loudspeakers!Hoa!slices, Loudspeakers!Hoa!Strided
<1>4. \A k \in 0 .. L - 1 :
        modes.data[s + k * 2] = Loudspeakers!Hoa!Accumulated(k, L, heard[s])
  BY <1>1, InTwoSlices
<1> HIDE DEF sums
<1>5. empty = [max_channels |-> 2, max_slices |-> L, data |-> [k \in 0 .. 2 * L - 1 |-> <<>>]]
  BY DEF Loudspeakers!Hoa!initialize, Loudspeakers!Hoa!fixed_matrix
<1> HIDE DEF empty
<1>6. TwoChannels(empty, L)
  BY <1>5 DEF TwoChannels
<1>7. /\ TwoChannels(transposed, L)
      /\ Loudspeakers!Hoa!channels(transposed)[s] = [k \in 0 .. L - 1 |-> sums[s][k]]
  <2>1. SetTo(transposed, L, sums)
    BY <1>6, SetMatrix
  <2> HIDE DEF transposed
  <2> QED
    BY <2>1 DEF SetTo
<1> HIDE DEF transposed
<1>8. spectra[s][o] = <<o, Loudspeakers!Hoa!channels(transposed)[s]>>
  OBVIOUS
<1> HIDE DEF spectra
<1>9. Loudspeakers!Hoa!slices(transformed)[o][s] = spectra[s][o]
  <2>1. SetTo(transformed, L, spectra)
    BY <1>7, SetMatrix
  <2> HIDE DEF transformed
  <2> QED
    BY <2>1 DEF SetTo
<1>10. Loudspeakers!Hoa!channels(transposed)[s]
         = [bin \in 0 .. L - 1 |-> Loudspeakers!Hoa!Accumulated(bin, L, heard[s])]
  BY <1>3, <1>4, <1>7
<1>11. heard[s] = [m \in DOMAIN new.modes |->
                     Loudspeakers!Hoa!FirstAndLast(old, new, m)[s + 1]]
  BY DEF heard
<1> HIDE DEF transformed
<1> QED
  BY <1>2, <1>8, <1>9, <1>10, <1>11 DEF Spectrum

\* What is kept of a source, and of each of its modes.
IsMode(mode) ==
  \E filter, coefficients, rotation :
    mode = [filter |-> filter, _coefficients |-> coefficients, rotation |-> rotation]

SourceWith(modes, state) ==
  \E distance, angle, model, weight :
    state = [distance |-> distance, angle |-> angle, source_model |-> model,
             weight |-> weight, modes |-> modes]

IsSource(state) ==
  /\ SourceWith(state.modes, state)
  /\ \A m \in DOMAIN state.modes : IsMode(state.modes[m])

LEMMA NewSourceIsSource ==
  ASSUME NEW L
  PROVE  /\ IsSource(Loudspeakers!Hoa!NewSource(L))
         /\ SetHeard(Loudspeakers!Hoa!NewSource(L))
              = [m \in 0 .. Loudspeakers!Hoa!order(L) |-> <<>>]
<1> DEFINE new == Loudspeakers!Hoa!NewSource(L)
<1>1. new = [distance |-> -1, angle |-> <<0, 0>>, source_model |-> "none", weight |-> <<>>,
             modes |-> [m \in 0 .. Loudspeakers!Hoa!order(L) |-> Loudspeakers!Hoa!NewMode]]
  BY DEF Loudspeakers!Hoa!NewSource
<1> HIDE DEF new
<1>2. IsMode(Loudspeakers!Hoa!NewMode)
  BY DEF IsMode, Loudspeakers!Hoa!NewMode
<1>3. IsSource(new)
  BY <1>1, <1>2 DEF IsSource, SourceWith
<1>4. DOMAIN new.modes = 0 .. Loudspeakers!Hoa!order(L) /\ new.weight = <<>>
  BY <1>1
<1>5. SetHeard(new) = [m \in 0 .. Loudspeakers!Hoa!order(L) |-> <<>>]
  BY <1>4 DEF SetHeard, Loudspeakers!Hoa!Heard
<1> QED
  BY <1>3, <1>5 DEF new

\* The source is processed before its modes.
LEMMA ProcessedSource ==
  ASSUME NEW old, NEW source, NEW gain, NEW reference, IsSource(old)
  PROVE  SourceWith(old.modes, Loudspeakers!Hoa!Processed(old, source, gain, reference))
<1>1. PICK d, a, s, w, modes :
        old = [distance |-> d, angle |-> a, source_model |-> s, weight |-> w, modes |-> modes]
  BY DEF IsSource, SourceWith
<1> DEFINE way == Loudspeakers!Hoa!Minus(source.position, reference.position)
           direction == IF source.model = "point" THEN Loudspeakers!Hoa!orientation(way)
                        ELSE Loudspeakers!Hoa!Unit(source.orientation - 180)
           seen == Loudspeakers!Hoa!rotate(direction, 90 - reference.orientation)
           distance == Loudspeakers!Hoa!Samples(way)
           attenuation == IF source.model = "point"
                          THEN <<"sqrt", Loudspeakers!Hoa!Dot(way, way)>> ELSE <<"one">>
           weight == IF gain = 0 THEN <<>> ELSE attenuation \o <<gain>>
           Updated(D, A, M, W) ==
             [old EXCEPT !.distance = D,
                         !.angle = IF /\ @ # <<0, 0>>
                                      /\ Loudspeakers!Hoa!Cross(@, A) = 0
                                      /\ Loudspeakers!Hoa!Dot(@, A) > 0 THEN @ ELSE A,
                         !.source_model = M,
                         !.weight = W]
<1>2. PICK D, A, M, W :
        Loudspeakers!Hoa!Processed(old, source, gain, reference) = Updated(D, A, M, W)
  <2>1. Loudspeakers!Hoa!Processed(old, source, gain, reference)
          = Updated(distance, seen, source.model, weight)
    BY Zenon DEF Loudspeakers!Hoa!Processed
  <2> HIDE DEF distance, seen, weight, Updated
  <2> QED
    BY <2>1
<1>3. PICK angle : angle = IF /\ a # <<0, 0>>
                              /\ Loudspeakers!Hoa!Cross(a, A) = 0
                              /\ Loudspeakers!Hoa!Dot(a, A) > 0 THEN a ELSE A
  OBVIOUS
<1>4. Loudspeakers!Hoa!Processed(old, source, gain, reference)
        = [distance |-> D, angle |-> angle, source_model |-> M, weight |-> W, modes |-> modes]
  BY <1>1, <1>2, <1>3
<1>5. old.modes = modes
  BY <1>1
<1> QED
  BY <1>4, <1>5 DEF SourceWith

LEMMA ProcessedMode ==
  ASSUME NEW mode, NEW m, NEW old, NEW new, NEW radius, IsMode(mode)
  PROVE  LET next == Loudspeakers!Hoa!_process(mode, m, old, new, radius)
         IN  /\ IsMode(next)
             /\ next.rotation = Loudspeakers!Hoa!Rotation(mode, old, new)
<1>1. PICK f, c, r : mode = [filter |-> f, _coefficients |-> c, rotation |-> r]
  BY DEF IsMode
<1> DEFINE next == Loudspeakers!Hoa!_process(mode, m, old, new, radius)
<1>2. CASE Loudspeakers!Hoa!filter_changed(old, new)
  <2>1. PICK target : target = Loudspeakers!Hoa!Coefficients(m, new, radius)
    OBVIOUS
  <2>2. next = [filter |-> target, _coefficients |-> target,
                rotation |-> Loudspeakers!Hoa!Rotation(mode, old, new)]
    BY <1>2, <2>1 DEF Loudspeakers!Hoa!_process
  <2> HIDE DEF next
  <2>3. IsMode(next) /\ next.rotation = Loudspeakers!Hoa!Rotation(mode, old, new)
    BY <2>2 DEF IsMode
  <2> QED
    BY <2>3 DEF next
<1>3. CASE ~ Loudspeakers!Hoa!filter_changed(old, new)
  <2>1. next = [mode EXCEPT !.rotation = Loudspeakers!Hoa!Rotation(mode, old, new)]
    BY <1>3 DEF Loudspeakers!Hoa!_process
  <2>2. next = [filter |-> f, _coefficients |-> c,
                rotation |-> Loudspeakers!Hoa!Rotation(mode, old, new)]
    BY <1>1, <2>1
  <2> HIDE DEF next
  <2>3. IsMode(next) /\ next.rotation = Loudspeakers!Hoa!Rotation(mode, old, new)
    BY <2>2 DEF IsMode
  <2> QED
    BY <2>3 DEF next
<1> QED
  BY <1>2, <1>3

\* The rotation of a mode changes only together with the angle of the source, and
\* then it is heard as a change.
LEMMA ModesGoOn ==
  ASSUME NEW old, NEW new, NEW m \in DOMAIN new.modes, DOMAIN new.modes = DOMAIN old.modes,
         ~ Loudspeakers!Hoa!angle_changed(old, new) =>
           new.modes[m].rotation = old.modes[m].rotation
  PROVE  /\ Loudspeakers!Hoa!FirstAndLast(old, new, m)[1] = SetHeard(old)[m]
         /\ Loudspeakers!Hoa!FirstAndLast(old, new, m)[2] = SetHeard(new)[m]
<1> DEFINE set(state) == <<state.modes[m].filter, state.modes[m]._coefficients>>
           mode == Loudspeakers!Hoa!interpolation_mode(old, new)
           both == Loudspeakers!Hoa!FirstAndLast(old, new, m)
<1>1. /\ SetHeard(old)[m] = Loudspeakers!Hoa!Heard(set(old), old.modes[m].rotation, old.weight)
      /\ SetHeard(new)[m] = Loudspeakers!Hoa!Heard(set(new), new.modes[m].rotation, new.weight)
  BY DEF SetHeard
<1> HIDE DEF set
<1>2. CASE old.weight = <<>> /\ new.weight = <<>>
  <2>1. mode = "nothing"
    BY <1>2 DEF Loudspeakers!Hoa!interpolation_mode
  <2>2. both = << <<>>, <<>> >>
    BY <2>1 DEF Loudspeakers!Hoa!FirstAndLast
  <2> QED
    BY <1>1, <1>2, <2>2 DEF Loudspeakers!Hoa!Heard
<1>3. CASE /\ ~ (old.weight = <<>> /\ new.weight = <<>>)
           /\ \/ old.weight # new.weight
              \/ Loudspeakers!Hoa!angle_changed(old, new)
              \/ Loudspeakers!Hoa!filter_changed(old, new)
  <2>1. mode = "change"
    BY <1>3 DEF Loudspeakers!Hoa!interpolation_mode
  <2>2. both = << Loudspeakers!Hoa!Heard(set(old), old.modes[m].rotation, old.weight),
                  Loudspeakers!Hoa!Heard(set(new), new.modes[m].rotation, new.weight) >>
    BY <2>1 DEF Loudspeakers!Hoa!FirstAndLast, set
  <2> QED
    BY <1>1, <2>2
<1>4. CASE /\ ~ (old.weight = <<>> /\ new.weight = <<>>)
           /\ old.weight = new.weight
           /\ ~ Loudspeakers!Hoa!angle_changed(old, new)
           /\ ~ Loudspeakers!Hoa!filter_changed(old, new)
  <2>1. mode = "constant"
    BY <1>4 DEF Loudspeakers!Hoa!interpolation_mode
  <2>2. both = << Loudspeakers!Hoa!Heard(set(old), new.modes[m].rotation, new.weight),
                  Loudspeakers!Hoa!Heard(set(new), new.modes[m].rotation, new.weight) >>
    BY <2>1 DEF Loudspeakers!Hoa!FirstAndLast, set
  <2> QED
    BY <1>1, <1>4, <2>2
<1> QED
  BY <1>2, <1>3, <1>4

\* NFC-HOA ends with what is set, too.
HoaInv ==
  renderer = "nfc-hoa" =>
    /\ Len(outputs) \in Nat /\ DOMAIN outputs = 1 .. Len(outputs)
    /\ IsSource(source_state)
    /\ outputs_end = [o \in DOMAIN outputs |->
                        Spectrum(o - 1, Len(outputs), SetHeard(source_state))]

LEMMA InitHoa == ASSUME Loudspeakers!Init PROVE HoaInv
<1> SUFFICES ASSUME renderer = "nfc-hoa"
             PROVE  /\ Len(outputs) \in Nat /\ DOMAIN outputs = 1 .. Len(outputs)
                    /\ IsSource(source_state)
                    /\ outputs_end = [o \in DOMAIN outputs |->
                                        Spectrum(o - 1, Len(outputs), SetHeard(source_state))]
  BY DEF HoaInv
<1>1. Len(outputs) \in Nat /\ DOMAIN outputs = 1 .. Len(outputs)
  BY SetupsAssumption DEF Loudspeakers!Init
<1>2. /\ source_state = Loudspeakers!Hoa!NewSource(Len(outputs))
      /\ outputs_end = Loudspeakers!Hoa!NothingHeard(Len(outputs))
  BY DEF Loudspeakers!Init
<1>3. /\ IsSource(source_state)
      /\ SetHeard(source_state) = [m \in 0 .. Loudspeakers!Hoa!order(Len(outputs)) |-> <<>>]
  BY <1>2, NewSourceIsSource
<1>4. outputs_end = [o \in 1 .. Len(outputs) |->
                       Spectrum(o - 1, Len(outputs), SetHeard(source_state))]
  BY <1>2, <1>3 DEF Loudspeakers!Hoa!NothingHeard, Spectrum
<1> QED
  BY <1>1, <1>3, <1>4

LEMMA ProcessHoa ==
  ASSUME HoaInv, Loudspeakers!Process, renderer = "nfc-hoa"
  PROVE  HoaInv' /\ outputs_begin' = outputs_end
<1>1. Loudspeakers!ProcessNfcHoa /\ UNCHANGED <<renderer, outputs>>
  BY DEF Loudspeakers!Process, Loudspeakers!ProcessWfs, Loudspeakers!ProcessVbap,
         Loudspeakers!ProcessAap, Loudspeakers!ProcessGeneric
<1>2. PICK L : L = Len(outputs)
  OBVIOUS
<1>3. PICK old : old = source_state
  OBVIOUS
<1>4. /\ L \in Nat /\ DOMAIN outputs = 1 .. L
      /\ IsSource(old)
      /\ outputs_end = [o \in DOMAIN outputs |-> Spectrum(o - 1, L, SetHeard(old))]
  BY <1>2, <1>3 DEF HoaInv
<1>5. PICK radius : radius = Loudspeakers!Hoa!array_radius(outputs)
  OBVIOUS
<1>6. PICK processed :
        processed = Loudspeakers!Hoa!Processed(old, Loudspeakers!AnySource, settings.gain,
                                               Loudspeakers!AnyReference)
  OBVIOUS
<1>7. PICK modes :
        modes = [m \in DOMAIN old.modes |->
                   Loudspeakers!Hoa!_process(old.modes[m], m, old, processed, radius)]
  OBVIOUS
<1>8. PICK new : new = [processed EXCEPT !.modes = modes]
  OBVIOUS
<1>9. source_state' = new
  <2> DEFINE New(state, p, r) ==
               [p EXCEPT !.modes = [m \in DOMAIN state.modes |->
                  Loudspeakers!Hoa!_process(state.modes[m], m, state, p, r)]]
  <2>1. source_state'
          = New(source_state,
                Loudspeakers!Hoa!Processed(source_state, Loudspeakers!AnySource, settings.gain,
                                           Loudspeakers!AnyReference),
                Loudspeakers!Hoa!array_radius(outputs))
    BY <1>1, Zenon DEF Loudspeakers!ProcessNfcHoa
  <2>2. new = New(old, processed, radius)
    BY <1>7, <1>8
  <2> HIDE DEF New
  <2> QED
    BY <1>3, <1>5, <1>6, <2>1, <2>2
<1>10. /\ outputs_begin' = [o \in DOMAIN outputs |-> Loudspeakers!Hoa!Slice(L, old, new)[o - 1][0]]
       /\ outputs_end' = [o \in DOMAIN outputs |-> Loudspeakers!Hoa!Slice(L, old, new)[o - 1][1]]
  <2>1. /\ outputs_begin' = [o \in DOMAIN outputs |->
                              Loudspeakers!Hoa!Slice(Len(outputs), old, source_state')[o - 1][0]]
        /\ outputs_end' = [o \in DOMAIN outputs |->
                            Loudspeakers!Hoa!Slice(Len(outputs), old, source_state')[o - 1][1]]
    BY <1>1, <1>3 DEF Loudspeakers!ProcessNfcHoa
  <2> QED
    BY <1>2, <1>9, <2>1
<1>11. PICK d, a, s, w :
         processed = [distance |-> d, angle |-> a, source_model |-> s, weight |-> w,
                      modes |-> old.modes]
  <2>1. SourceWith(old.modes, processed)
    BY <1>4, <1>6, ProcessedSource
  <2> QED
    BY <2>1 DEF SourceWith
<1>12. new = [distance |-> d, angle |-> a, source_model |-> s, weight |-> w, modes |-> modes]
  BY <1>8, <1>11
<1>13. /\ new.modes = modes /\ new.angle = processed.angle
       /\ DOMAIN modes = DOMAIN old.modes
  BY <1>7, <1>11, <1>12
<1>14. ASSUME NEW m \in DOMAIN old.modes
       PROVE  /\ IsMode(modes[m])
              /\ modes[m].rotation = Loudspeakers!Hoa!Rotation(old.modes[m], old, processed)
  <2>1. IsMode(old.modes[m])
    BY <1>4 DEF IsSource
  <2>2. modes[m] = Loudspeakers!Hoa!_process(old.modes[m], m, old, processed, radius)
    BY <1>7
  <2> QED
    BY <2>1, <2>2, ProcessedMode
<1>15. IsSource(new)
  BY <1>12, <1>13, <1>14 DEF IsSource, SourceWith
<1>16. ASSUME NEW m \in DOMAIN new.modes
       PROVE  /\ Loudspeakers!Hoa!FirstAndLast(old, new, m)[1] = SetHeard(old)[m]
              /\ Loudspeakers!Hoa!FirstAndLast(old, new, m)[2] = SetHeard(new)[m]
  <2>1. ASSUME ~ Loudspeakers!Hoa!angle_changed(old, new)
        PROVE  new.modes[m].rotation = old.modes[m].rotation
    BY <1>13, <1>14, <2>1 DEF Loudspeakers!Hoa!Rotation, Loudspeakers!Hoa!angle_changed
  <2> QED
    BY <1>13, <2>1, ModesGoOn
<1>17. /\ [m \in DOMAIN new.modes |-> Loudspeakers!Hoa!FirstAndLast(old, new, m)[1]]
            = SetHeard(old)
       /\ [m \in DOMAIN new.modes |-> Loudspeakers!Hoa!FirstAndLast(old, new, m)[2]]
            = SetHeard(new)
  BY <1>13, <1>16 DEF SetHeard
<1>18. ASSUME NEW o \in DOMAIN outputs
       PROVE  /\ Loudspeakers!Hoa!Slice(L, old, new)[o - 1][0] = Spectrum(o - 1, L, SetHeard(old))
              /\ Loudspeakers!Hoa!Slice(L, old, new)[o - 1][1] = Spectrum(o - 1, L, SetHeard(new))
  <2>1. PICK i \in 0 .. L - 1 : i = o - 1
    BY <1>4
  <2>2. ASSUME NEW sample \in 0 .. 1
        PROVE  Loudspeakers!Hoa!Slice(L, old, new)[i][sample]
                 = Spectrum(i, L, [m \in DOMAIN new.modes |->
                                     Loudspeakers!Hoa!FirstAndLast(old, new, m)[sample + 1]])
    BY <1>4, SliceHeard
  <2>3. /\ [m \in DOMAIN new.modes |-> Loudspeakers!Hoa!FirstAndLast(old, new, m)[0 + 1]]
             = SetHeard(old)
        /\ [m \in DOMAIN new.modes |-> Loudspeakers!Hoa!FirstAndLast(old, new, m)[1 + 1]]
             = SetHeard(new)
    BY <1>17
  <2> QED
    BY <2>1, <2>2, <2>3
<1>19. outputs_begin' = outputs_end
  BY <1>4, <1>10, <1>18
<1>20. outputs_end' = [o \in DOMAIN outputs |-> Spectrum(o - 1, L, SetHeard(new))]
  BY <1>10, <1>18
<1>21. /\ Len(outputs') \in Nat /\ DOMAIN outputs' = 1 .. Len(outputs')
       /\ outputs_end' = [o \in DOMAIN outputs' |->
                            Spectrum(o - 1, Len(outputs'), SetHeard(source_state'))]
       /\ IsSource(source_state')
  BY <1>1, <1>2, <1>4, <1>9, <1>15, <1>20
<1> QED
  BY <1>19, <1>21 DEF HoaInv, Spectrum, SetHeard, IsSource, SourceWith

\* Whatever is changed between two blocks, and whatever the setup: every loudspeaker
\* goes on as it has ended (select(), update() and the combiners of all renderers, and
\* for NFC-HOA the modes, the matrices and the transforms).
THEOREM AlwaysContinuous == RenderersSpec => Continuous
<1> DEFINE Inv == EndsAsSet /\ HoaInv
<1>1. RenderersInit => Inv
  <2> SUFFICES ASSUME RenderersInit PROVE Inv
    OBVIOUS
  <2>1. CASE Loudspeakers!Init
    BY <2>1, InitEndsAsSet, InitHoa
  <2>2. CASE renderer \in {"binaural", "matlab", "brs"}
    BY <2>2 DEF EndsAsSet, HoaInv
  <2> QED
    BY <2>1, <2>2 DEF RenderersInit
<1>2. Inv /\ [RenderersNext]_<<renderer, loudspeaker_vars, vars, matlab>>
        => Inv' /\ [outputs_begin' # <<>> => outputs_begin' = outputs_end]_loudspeaker_vars
  <2> SUFFICES ASSUME Inv, [RenderersNext]_<<renderer, loudspeaker_vars, vars, matlab>>
               PROVE  Inv' /\ [outputs_begin' # <<>> => outputs_begin' = outputs_end]_loudspeaker_vars
    OBVIOUS
  <2>1. ASSUME UNCHANGED <<renderer, outputs, pair, channels, source_state, outputs_end>>
        PROVE  Inv'
    <3>1. EndsAsSet'
      BY <2>1 DEF EndsAsSet, Settled, Loudspeakers!Response
    <3>2. HoaInv'
      BY <2>1 DEF HoaInv, IsSource, SourceWith, SetHeard, Spectrum
    <3> QED
      BY <3>1, <3>2
  <2>2. CASE Loudspeakers!Process
    <3>1. CASE renderer = "nfc-hoa"
      <4>1. EndsAsSet'
        BY <2>2, <3>1 DEF Loudspeakers!Process, EndsAsSet
      <4> QED
        BY <2>2, <3>1, <4>1, ProcessHoa
    <3>2. CASE renderer # "nfc-hoa"
      <4>1. HoaInv'
        BY <2>2, <3>2 DEF Loudspeakers!Process, HoaInv
      <4> QED
        BY <2>2, <3>2, <4>1, ProcessEndsAsSet
    <3> QED
      BY <3>1, <3>2
  <2>3. CASE UNCHANGED <<renderer, loudspeaker_vars>>
    BY <2>1, <2>3 DEF loudspeaker_vars
  <2> HIDE DEF Inv
  <2> QED
    BY <2>1, <2>2, <2>3, OnlyLoudspeakers, LoudspeakerSteps
<1> HIDE DEF Inv
<1> QED
  BY <1>1, <1>2, PTL DEF RenderersSpec, Continuous

------------------------------------------------------------------------------
(* WFS: focused sources                                                    *)

LEMMA LeastElement ==
  ASSUME NEW S, S \subseteq Nat, S # {}
  PROVE  \E n \in S : \A k \in S : n <= k
<1> DEFINE Less == {p \in Nat \X Nat : p[1] < p[2]}
<1>1. IsWellFoundedOn(Less, Nat)
  BY NatLessThanWellFounded, Zenon DEF OpToRel
<1> HIDE DEF Less
<1>2. PICK n \in S : \A k \in S : ~ (<<k, n>> \in Less)
  BY <1>1, WFMin
<1>3. ASSUME NEW k \in S PROVE n <= k
  <2>1. n \in Nat /\ k \in Nat
    OBVIOUS
  <2>2. ~ (k < n)
    BY <1>2, <2>1 DEF Less
  <2> QED
    BY <2>1, <2>2
<1> QED
  BY <1>3

\* Otherwise there were a least number without a root; but the root of the number
\* before it, or the next one, is its root.
LEMMA RootExists == \A n \in Nat : \E r \in 0 .. n : r * r <= n /\ (r + 1) * (r + 1) > n
<1> DEFINE Rootless == {n \in Nat : ~ \E r \in 0 .. n : r * r <= n /\ (r + 1) * (r + 1) > n}
<1>1. SUFFICES ASSUME Rootless # {} PROVE FALSE
  OBVIOUS
<1>2. PICK n \in Rootless : \A k \in Rootless : n <= k
  <2>1. Rootless \subseteq Nat
    OBVIOUS
  <2> HIDE DEF Rootless
  <2> QED
    BY <1>1, <2>1, LeastElement
<1>3. n # 0
  BY <1>2
<1>4. PICK r \in 0 .. n - 1 : r * r <= n - 1 /\ (r + 1) * (r + 1) > n - 1
  <2>1. n - 1 \in Nat /\ n - 1 < n
    BY <1>2, <1>3
  <2>2. n - 1 \notin Rootless
    BY <1>2, <2>1
  <2> QED
    BY <2>1, <2>2
<1>5. CASE (r + 1) * (r + 1) > n
  BY <1>2, <1>4, <1>5
<1>6. CASE (r + 1) * (r + 1) <= n
  <2>1. (r + 2) * (r + 2) > (r + 1) * (r + 1) + 1
    BY <1>4
  <2>2. (r + 2) * (r + 2) > n
    BY <1>2, <1>3, <1>4, <2>1
  <2>3. r + 1 \in 0 .. n /\ (r + 1) + 1 = r + 2
    BY <1>2, <1>3, <1>4
  <2> QED
    BY <1>2, <1>6, <2>2, <2>3
<1> QED
  BY <1>2, <1>4, <1>5, <1>6

LEMMA Roots ==
  ASSUME NEW n \in Nat
  PROVE  Loudspeakers!RootOf(n) \in Nat /\ (n > 0 => Loudspeakers!RootOf(n) > 0)
<1>1. /\ Loudspeakers!RootOf(n) \in 0 .. n
      /\ (Loudspeakers!RootOf(n) + 1) * (Loudspeakers!RootOf(n) + 1) > n
  BY RootExists DEF Loudspeakers!RootOf
<1> QED
  BY <1>1

\* A sound that is not ahead of time is not played ahead of time, and the other
\* way round.
LEMMA SignOfDelays ==
  ASSUME NEW way \in Int \X Int
  PROVE  /\ Loudspeakers!Samples(way) \in Nat
         /\ Loudspeakers!SamplesBehind(way) \in Int /\ Loudspeakers!SamplesBehind(way) <= 0
<1> DEFINE square == Loudspeakers!Dot(way, way)
<1>1. square \in Nat
  <2>1. /\ way[1] \in Int /\ way[2] \in Int
        /\ way[1] * way[1] \in Nat /\ way[2] * way[2] \in Nat
    OBVIOUS
  <2> QED
    BY <2>1 DEF Loudspeakers!Dot
<1> HIDE DEF square
<1>2. 4 * square \in Nat /\ (square # 0 => 4 * square > 0)
  BY <1>1
<1>3. PICK root \in Nat : root = Loudspeakers!RootOf(4 * square) /\ (square # 0 => root > 0)
  BY <1>2, Roots
<1>4. Loudspeakers!Samples(way) = (root + 1) \div 2
  BY <1>3 DEF Loudspeakers!Samples, square
<1>5. Loudspeakers!SamplesBehind(way) = - (IF square = 0 THEN 0 ELSE (root - 1) \div 2)
  BY <1>3 DEF Loudspeakers!SamplesBehind, square
<1>6. square # 0 => (root - 1) \div 2 \in Nat
  BY <1>3
<1>7. (root + 1) \div 2 \in Nat
  BY <1>3
<1> QED
  BY <1>4, <1>5, <1>6, <1>7

LEMMA Units ==
  ASSUME NEW azimuth \in Int, azimuth % 90 = 0
  PROVE  Loudspeakers!Unit(azimuth) \in Int \X Int
<1>1. azimuth % 360 \in {0, 90, 180, 270}
  OBVIOUS
<1>2. CASE azimuth % 360 = 0
  BY <1>2 DEF Loudspeakers!Unit
<1>3. CASE azimuth % 360 = 90
  BY <1>3 DEF Loudspeakers!Unit
<1>4. CASE azimuth % 360 = 180
  BY <1>4 DEF Loudspeakers!Unit
<1>5. CASE azimuth % 360 = 270
  BY <1>5 DEF Loudspeakers!Unit
<1> QED
  BY <1>1, <1>2, <1>3, <1>4, <1>5

\* A point with an orientation.
Placed(point) ==
  /\ {"position", "orientation"} \subseteq DOMAIN point
  /\ point.position \in Int \X Int
  /\ point.orientation \in Int /\ point.orientation % 90 = 0

LEMMA Differences ==
  ASSUME NEW p \in Int \X Int, NEW q \in Int \X Int
  PROVE  /\ Loudspeakers!Minus(p, q) \in Int \X Int
         /\ Loudspeakers!Plus(p, q) \in Int \X Int
         /\ Loudspeakers!Dot(p, q) \in Int
<1>1. p[1] \in Int /\ p[2] \in Int /\ q[1] \in Int /\ q[2] \in Int
  OBVIOUS
<1>2. p[1] * q[1] \in Int /\ p[2] * q[2] \in Int
  BY <1>1
<1> QED
  BY <1>1, <1>2 DEF Loudspeakers!Minus, Loudspeakers!Plus, Loudspeakers!Dot

LEMMA Transformed ==
  ASSUME NEW point, NEW t, Placed(point), Placed(t)
  PROVE  LET p == Loudspeakers!transform(point, t)
         IN  /\ p.position \in Int \X Int
             /\ p.orientation \in Int /\ p.orientation % 90 = 0
<1> DEFINE p == Loudspeakers!transform(point, t)
<1>1. /\ p.position = Loudspeakers!Plus(Loudspeakers!rotate(point.position, t.orientation), t.position)
      /\ p.orientation = point.orientation + t.orientation
  BY DEF Placed, Loudspeakers!transform
<1> HIDE DEF p
<1>2. p.orientation \in Int /\ p.orientation % 90 = 0
  BY <1>1 DEF Placed
<1>3. PICK x \in Int, y \in Int : x = point.position[1] /\ y = point.position[2]
  BY DEF Placed
<1>4. ASSUME NEW n \in Int, NEW u \in Int \X Int PROVE Loudspeakers!Times(n, u) \in Int \X Int
  <2>1. n * u[1] \in Int /\ n * u[2] \in Int
    OBVIOUS
  <2> QED
    BY <2>1 DEF Loudspeakers!Times
<1>5. /\ Loudspeakers!Unit(t.orientation) \in Int \X Int
      /\ Loudspeakers!Unit(t.orientation + 90) \in Int \X Int
  <2>1. /\ t.orientation \in Int /\ t.orientation % 90 = 0
        /\ t.orientation + 90 \in Int /\ (t.orientation + 90) % 90 = 0
    BY DEF Placed
  <2> QED
    BY <2>1, Units
<1>6. Loudspeakers!rotate(point.position, t.orientation) \in Int \X Int
  BY <1>3, <1>4, <1>5, Differences DEF Loudspeakers!rotate
<1>7. p.position \in Int \X Int
  BY <1>1, <1>6, Differences DEF Placed
<1> QED
  BY <1>2, <1>7 DEF p

\* How far the source is in front of a loudspeaker, which is negative behind it.
Facing(output, source, reference) ==
  LET ls == Loudspeakers!transform(output, reference)
  IN  Loudspeakers!Dot(Loudspeakers!Minus(ls.position, source.position),
                       Loudspeakers!Unit(ls.orientation))

LEMMA FacingIsNumber ==
  ASSUME NEW output, NEW source, NEW reference, Placed(output), Placed(reference),
         source.position \in Int \X Int
  PROVE  /\ Facing(output, source, reference) \in Int
         /\ Loudspeakers!Minus(Loudspeakers!transform(output, reference).position, source.position)
              \in Int \X Int
<1> DEFINE ls == Loudspeakers!transform(output, reference)
<1>1. /\ ls.position \in Int \X Int
      /\ ls.orientation \in Int /\ ls.orientation % 90 = 0
  BY Transformed
<1> HIDE DEF ls
<1>2. /\ Loudspeakers!Unit(ls.orientation) \in Int \X Int
      /\ Loudspeakers!Minus(ls.position, source.position) \in Int \X Int
  BY <1>1, Units, Differences
<1> QED
  BY <1>2, Differences DEF Facing, ls

\* Only a focused source is played ahead of time; and a loudspeaker that delays a
\* source has its back to it.
LEMMA SidesOfLoudspeakers ==
  ASSUME NEW output, NEW source, NEW gain, NEW all, NEW reference, NEW reference_offset,
         Placed(output), Placed(reference), source.position \in Int \X Int,
         source.model = "point", output.model # "subwoofer"
  PROVE  LET r == Loudspeakers!Driven(output, source, gain, all, reference, reference_offset)
         IN  r.weight # Loudspeakers!Zero =>
               /\ r.delay < 0 => Loudspeakers!_focused(source, all, reference)
               /\ r.delay > 0 => Facing(output, source, reference) > 0
<1> DEFINE r == Loudspeakers!Driven(output, source, gain, all, reference, reference_offset)
           ls == Loudspeakers!transform(output, reference)
           ref_off == Loudspeakers!transform(reference, reference_offset)
           focused == Loudspeakers!_focused(source, all, reference)
           place == Loudspeakers!PointSource(ls, source, ref_off, focused)
           way == Loudspeakers!Minus(ls.position, source.position)
           inner == Facing(output, source, reference)
<1> SUFFICES ASSUME r.weight # Loudspeakers!Zero
             PROVE  (r.delay < 0 => focused) /\ (r.delay > 0 => inner > 0)
  OBVIOUS
<1>1. inner \in Int /\ way \in Int \X Int
  BY FacingIsNumber
<1>2. r.delay = place.delay /\ place.weight # Loudspeakers!Zero
  <2> HIDE DEF place
  <2>1. r = IF Loudspeakers!delay_is_valid(place.delay)
            THEN [weight |-> IF place.weight = Loudspeakers!Zero \/ gain = 0 \/ output.weight = 0
                             THEN Loudspeakers!Zero
                             ELSE place.weight \o Loudspeakers!Attenuation(source, ref_off)
                                    \o <<gain, output.weight>>,
                  delay |-> place.delay]
            ELSE [weight |-> Loudspeakers!Zero, delay |-> 0]
    BY DEF Loudspeakers!Driven, place
  <2> HIDE DEF r
  <2> QED
    BY <2>1
<1>3. /\ Loudspeakers!Samples(way) \in Nat
      /\ Loudspeakers!SamplesBehind(way) \in Int /\ Loudspeakers!SamplesBehind(way) <= 0
  BY <1>1, SignOfDelays
<1>4. inner = Loudspeakers!Dot(way, Loudspeakers!Unit(ls.orientation))
  BY DEF Facing
<1> HIDE DEF r, ls, ref_off, focused, way, inner
<1>5. CASE inner > 0
  <2>1. place.delay = Loudspeakers!Samples(way)
    BY <1>1, <1>4, <1>5 DEF Loudspeakers!PointSource, way
  <2> QED
    BY <1>2, <1>3, <1>5, <2>1
<1>6. CASE ~ (inner > 0) /\ focused
  <2>1. place.delay = Loudspeakers!SamplesBehind(way)
    BY <1>1, <1>2, <1>4, <1>6 DEF Loudspeakers!PointSource, way
  <2>2. r.delay = Loudspeakers!SamplesBehind(way)
    BY <1>2, <2>1
  <2>3. ~ (r.delay > 0)
    BY <1>3, <2>2
  <2> QED
    BY <1>6, <2>3
<1>7. CASE ~ (inner > 0) /\ ~ focused
  <2>1. place.weight = Loudspeakers!Zero
    BY <1>1, <1>4, <1>7 DEF Loudspeakers!PointSource, way
  <2> QED
    BY <1>2, <2>1
<1> QED
  BY <1>5, <1>6, <1>7

\* Where everything is, and what the latest block has computed of it.
PlacesInv ==
  /\ {"position", "reference", "reference_orientation"} \subseteq DOMAIN settings
  /\ settings.position \in Int \X Int /\ settings.reference \in Int \X Int
  /\ settings.reference_orientation \in Int /\ settings.reference_orientation % 90 = 0

DrivenInv ==
  renderer = "wfs" =>
    /\ PlacesInv
    /\ \A o \in DOMAIN outputs : Placed(outputs[o])
    /\ outputs_begin # <<>> =>
         channels = [o \in DOMAIN outputs |->
                       Loudspeakers!Driven(outputs[o], Loudspeakers!AnySource, settings.gain,
                         outputs, Loudspeakers!AnyReference, Loudspeakers!Offset)]

LEMMA ChangedPlaces ==
  ASSUME PlacesInv, Loudspeakers!Next, ~ Loudspeakers!Process
  PROVE  PlacesInv'
<1>1. ASSUME NEW setting, NEW values, Loudspeakers!Change(setting, values),
             setting \in {"position", "reference"} => values \subseteq Int \X Int,
             setting = "reference_orientation" =>
               \A azimuth \in values : azimuth \in Int /\ azimuth % 90 = 0
      PROVE  PlacesInv'
  <2>1. PICK value \in values : settings' = [settings EXCEPT ![setting] = value]
    BY <1>1 DEF Loudspeakers!Change
  <2>2. DOMAIN settings' = DOMAIN settings
    BY <2>1
  <2>3. ASSUME NEW name \in DOMAIN settings
        PROVE  settings'[name] = IF name = setting THEN value ELSE settings[name]
    BY <2>1
  <2> QED
    BY <1>1, <2>2, <2>3 DEF PlacesInv
<1>2. CASE Loudspeakers!set_source_position
  BY <1>1, <1>2, PlacesAssumption DEF Loudspeakers!set_source_position
<1>3. CASE Loudspeakers!set_source_model
  BY <1>1, <1>3 DEF Loudspeakers!set_source_model
<1>4. CASE Loudspeakers!set_source_orientation
  BY <1>1, <1>4 DEF Loudspeakers!set_source_orientation
<1>5. CASE Loudspeakers!set_source_gain
  BY <1>1, <1>5 DEF Loudspeakers!set_source_gain
<1>6. CASE Loudspeakers!set_reference_position
  BY <1>1, <1>6, PlacesAssumption DEF Loudspeakers!set_reference_position
<1>7. CASE Loudspeakers!set_reference_orientation
  BY <1>1, <1>7, PlacesAssumption DEF Loudspeakers!set_reference_orientation
<1>8. CASE Loudspeakers!set_reference_offset_position
  BY <1>1, <1>8 DEF Loudspeakers!set_reference_offset_position
<1> QED
  BY <1>2, <1>3, <1>4, <1>5, <1>6, <1>7, <1>8 DEF Loudspeakers!Next

\* For all arrays and wherever the source is: if a loudspeaker plays it ahead of time,
\* it is focused, and then no loudspeaker that plays it has its back to it.
THEOREM AlwaysBehindOrInFront == RenderersSpec => []BehindOrInFront
<1>1. RenderersInit => DrivenInv
  <2> SUFFICES ASSUME RenderersInit, renderer = "wfs"
               PROVE  /\ PlacesInv
                      /\ \A o \in DOMAIN outputs : Placed(outputs[o])
                      /\ outputs_begin = <<>>
    BY DEF DrivenInv
  <2>1. Loudspeakers!Init
    BY DEF RenderersInit
  <2>2. PlacesInv
    BY <2>1 DEF Loudspeakers!Init, PlacesInv
  <2>3. ASSUME NEW o \in DOMAIN outputs PROVE Placed(outputs[o])
    <3>1. /\ outputs[o] = Loudspeakers!NewOutput(outputs[o], outputs[o].model,
                                                 outputs[o].weight, outputs[o].connect_to)
          /\ outputs[o].position \in Int \X Int
          /\ outputs[o].orientation \in Int /\ outputs[o].orientation % 90 = 0
      BY <2>1, SetupsAssumption DEF Loudspeakers!Init
    <3>2. {"position", "orientation"} \subseteq DOMAIN outputs[o]
      BY <3>1 DEF Loudspeakers!NewOutput
    <3> QED
      BY <3>1, <3>2 DEF Placed
  <2> QED
    BY <2>1, <2>2, <2>3 DEF Loudspeakers!Init
<1>2. DrivenInv /\ [RenderersNext]_<<renderer, loudspeaker_vars, vars, matlab>> => DrivenInv'
  <2> SUFFICES ASSUME DrivenInv, [RenderersNext]_<<renderer, loudspeaker_vars, vars, matlab>>,
                      renderer' = "wfs"
               PROVE  DrivenInv'
    BY DEF DrivenInv
  <2>1. CASE UNCHANGED <<renderer, loudspeaker_vars>>
    BY <2>1 DEF loudspeaker_vars, DrivenInv, PlacesInv, Placed, Loudspeakers!AnySource,
                Loudspeakers!AnyReference, Loudspeakers!Offset
  <2>2. CASE Loudspeakers!Process
    <3>1. renderer = "wfs" /\ UNCHANGED <<outputs, settings>>
      BY <2>2 DEF Loudspeakers!Process
    <3>2. channels' = [o \in DOMAIN outputs |->
                         Loudspeakers!Driven(outputs[o], Loudspeakers!AnySource, settings.gain,
                           outputs, Loudspeakers!AnyReference, Loudspeakers!Offset)]
      BY <2>2, <3>1 DEF Loudspeakers!Process, Loudspeakers!ProcessWfs, Loudspeakers!ProcessVbap,
                        Loudspeakers!ProcessAap, Loudspeakers!ProcessNfcHoa,
                        Loudspeakers!ProcessGeneric
    <3> QED
      BY <3>1, <3>2 DEF DrivenInv, PlacesInv, Placed, Loudspeakers!AnySource,
                        Loudspeakers!AnyReference, Loudspeakers!Offset
  <2>3. CASE Loudspeakers!Next /\ ~ Loudspeakers!Process
    <3>1. UNCHANGED <<renderer, outputs>> /\ outputs_begin' = <<>>
      BY <2>3, LoudspeakerSteps
    <3>2. PlacesInv'
      BY <2>3, <3>1, ChangedPlaces DEF DrivenInv
    <3> QED
      BY <3>1, <3>2 DEF DrivenInv, Placed
  <2> QED
    BY <2>1, <2>2, <2>3, OnlyLoudspeakers
<1>3. DrivenInv => BehindOrInFront
  <2> SUFFICES ASSUME DrivenInv, renderer = "wfs", outputs_begin # <<>>,
                      settings.model = "point",
                      NEW o \in Loudspeakers!Normal, NEW n \in Loudspeakers!Normal,
                      channels[o].weight # Loudspeakers!Zero,
                      channels[n].weight # Loudspeakers!Zero,
                      channels[o].delay < 0, channels[n].delay > 0
               PROVE  FALSE
    BY DEF BehindOrInFront, Loudspeakers!BehindOrInFront
  <2>1. PICK source : source = Loudspeakers!AnySource
    OBVIOUS
  <2>2. PICK reference : reference = Loudspeakers!AnyReference
    OBVIOUS
  <2>3. /\ source.model = "point" /\ source.position \in Int \X Int
        /\ Placed(reference)
    BY <2>1, <2>2 DEF DrivenInv, PlacesInv, Placed, Loudspeakers!AnySource,
                      Loudspeakers!AnyReference
  <2>4. ASSUME NEW i \in Loudspeakers!Normal
        PROVE  /\ i \in DOMAIN outputs /\ outputs[i].model # "subwoofer" /\ Placed(outputs[i])
               /\ channels[i] = Loudspeakers!Driven(outputs[i], source, settings.gain, outputs,
                                                    reference, Loudspeakers!Offset)
    BY <2>1, <2>2 DEF DrivenInv, Loudspeakers!Normal
  <2>5. Loudspeakers!_focused(source, outputs, reference)
    BY <2>3, <2>4, SidesOfLoudspeakers
  <2>6. Facing(outputs[n], source, reference) > 0
    BY <2>3, <2>4, SidesOfLoudspeakers
  <2>7. Facing(outputs[n], source, reference) <= 0
    BY <2>4, <2>5 DEF Loudspeakers!_focused, Facing
  <2>8. Facing(outputs[n], source, reference) \in Int
    BY <2>3, <2>4, FacingIsNumber
  <2> QED
    BY <2>6, <2>7, <2>8
<1> QED
  BY <1>1, <1>2, <1>3, PTL DEF RenderersSpec
------------------------------------------------------------------------------
(* NFC-HOA: the spectrum                                                   *)

\* The modes that are in the list of a source, from the first pair that is taken to
\* the last: an interval, of which each pair makes two more.
ModeInterval(first, last) == [i \in 1 .. last - first + 1 |-> first + i - 1]

LEMMA IntervalGrows ==
  ASSUME NEW first \in Int, NEW last \in Int, first <= last + 1
  PROVE  /\ <<>> \o ModeInterval(first, last) \o <<last + 1>> = ModeInterval(first, last + 1)
         /\ <<first - 1>> \o ModeInterval(first, last) \o <<last + 1>>
              = ModeInterval(first - 1, last + 1)
<1>1. PICK s : s = ModeInterval(first, last)
  OBVIOUS
<1>2. PICK n \in Nat : n = last - first + 1
  OBVIOUS
<1>3. s \in Seq(Int) /\ Len(s) = n /\ \A i \in 1 .. n : s[i] = first + i - 1
  <2>1. s = [i \in 1 .. n |-> first + i - 1]
    BY <1>1, <1>2 DEF ModeInterval
  <2>2. \A i \in 1 .. n : first + i - 1 \in Int
    OBVIOUS
  <2> QED
    BY <2>1, <2>2
<1>4. ASSUME NEW a \in Seq(Int), NEW f \in Int, NEW m \in Nat, m = last - f + 1,
             Len(a) = m, \A i \in 1 .. m : a[i] = f + i - 1
      PROVE  a \o <<last + 1>> = ModeInterval(f, last + 1)
  <2>0. PICK e : e = <<last + 1>>
    OBVIOUS
  <2>1. e = <<last + 1>> /\ e \in Seq(Int) /\ Len(e) = 1 /\ e[1] = last + 1
    BY <2>0
  <2>2. PICK t : t = a \o e
    OBVIOUS
  <2>3. /\ t \in Seq(Int) /\ Len(t) = m + 1
        /\ \A i \in 1 .. m + 1 : t[i] = IF i <= m THEN a[i] ELSE e[i - m]
    BY <1>4, <2>1, <2>2, ConcatProperties
  <2>4. ASSUME NEW i \in 1 .. m + 1 PROVE t[i] = f + i - 1
    <3>1. CASE i <= m
      BY <1>4, <2>3, <3>1
    <3>2. CASE i = m + 1
      <4>1. i - m = 1 /\ ~ (i <= m)
        BY <3>2
      <4> QED
        BY <1>4, <2>1, <2>3, <3>2, <4>1
    <3> QED
      BY <3>1, <3>2
  <2>5. t = [i \in 1 .. m + 1 |-> f + i - 1]
    BY <2>3, <2>4
  <2>6. m + 1 = (last + 1) - f + 1
    BY <1>4
  <2> QED
    BY <2>1, <2>2, <2>5, <2>6 DEF ModeInterval
<1>5. s \o <<last + 1>> = ModeInterval(first, last + 1)
  BY <1>2, <1>3, <1>4
<1>6. (<<first - 1>> \o s) \o <<last + 1>> = ModeInterval(first - 1, last + 1)
  <2>0. PICK e : e = <<first - 1>>
    OBVIOUS
  <2>1. e = <<first - 1>> /\ e \in Seq(Int) /\ Len(e) = 1 /\ e[1] = first - 1
    BY <2>0
  <2>2. PICK a : a = e \o s
    OBVIOUS
  <2>3. /\ a \in Seq(Int) /\ Len(a) = 1 + n
        /\ \A i \in 1 .. 1 + n : a[i] = IF i <= 1 THEN e[i] ELSE s[i - 1]
    BY <1>3, <2>1, <2>2, ConcatProperties
  <2>4. ASSUME NEW i \in 1 .. n + 1 PROVE a[i] = (first - 1) + i - 1
    <3>1. CASE i = 1
      BY <2>1, <2>3, <3>1
    <3>2. CASE i # 1
      <4>1. i - 1 \in 1 .. n /\ ~ (i <= 1)
        BY <3>2
      <4>2. s[i - 1] = first + (i - 1) - 1
        BY <1>3, <4>1
      <4> QED
        BY <2>3, <4>1, <4>2
    <3> QED
      BY <3>1, <3>2
  <2>5. PICK m \in Nat : m = n + 1
    OBVIOUS
  <2>6. PICK f \in Int : f = first - 1
    OBVIOUS
  <2>7. m = last - f + 1 /\ Len(a) = m /\ \A i \in 1 .. m : a[i] = f + i - 1
    BY <1>2, <2>3, <2>4, <2>5, <2>6
  <2>8. a \o <<last + 1>> = ModeInterval(f, last + 1)
    BY <1>4, <2>3, <2>7
  <2> QED
    BY <2>1, <2>2, <2>6, <2>8
<1>7. <<>> \o s = s
  BY <1>3, ConcatEmptySeq
<1> QED
  BY <1>1, <1>5, <1>6, <1>7

\* Source::connect(): the modes are listed in their order.
LEMMA ModesInOrder ==
  ASSUME NEW n \in Nat
  PROVE  Loudspeakers!Hoa!_modes(n) = ModeInterval(0, n)
<1> DEFINE half == n \div 2
           even == n % 2 = 0
           Pair(k) == Loudspeakers!Hoa!ModePair(n \div 2 + 1 - k, n)
           Connects(g, m) == g = [k \in 0 .. m |->
                                 IF k = 0 THEN <<>>
                                 ELSE Pair(k).first \o g[k - 1] \o <<Pair(k).second>>]
           Connectable == {m \in Nat : \E g : Connects(g, m)}
<1>1. half \in Nat /\ n = 2 * half + (IF even THEN 0 ELSE 1)
  OBVIOUS
<1>2. ASSUME NEW k \in 1 .. half + 1
      PROVE  /\ Pair(k).first = IF k = half + 1 /\ even THEN <<>>
                                ELSE <<half + 1 - k - (IF even THEN 1 ELSE 0)>>
             /\ Pair(k).second = n - (half + 1 - k)
  BY <1>1 DEF Loudspeakers!Hoa!ModePair
<1> HIDE DEF Pair
<1>3. ASSUME NEW m \in Nat PROVE m \in Connectable
  <2>1. SUFFICES ASSUME Nat \ Connectable # {} PROVE FALSE
    OBVIOUS
  <2>2. PICK k \in Nat \ Connectable : \A j \in Nat \ Connectable : k <= j
    <3> HIDE DEF Connectable
    <3> QED
      BY <2>1, LeastElement
  <2>3. k # 0
    <3>1. SUFFICES ASSUME k = 0 PROVE FALSE
      OBVIOUS
    <3> DEFINE g == [i \in 0 .. 0 |-> <<>>]
    <3>2. Connects(g, 0)
      OBVIOUS
    <3> QED
      BY <2>2, <3>1, <3>2
  <2>4. k - 1 \in Nat /\ k - 1 \in Connectable
    <3>1. k - 1 \in Nat /\ ~ (k <= k - 1)
      BY <2>2, <2>3
    <3> HIDE DEF Connectable
    <3> QED
      BY <2>2, <3>1
  <2>5. PICK g : Connects(g, k - 1)
    BY <2>4
  <2> DEFINE Longer(i, s) == Pair(i).first \o s \o <<Pair(i).second>>
             h == [i \in 0 .. k |-> IF i = k THEN Longer(k, g[k - 1]) ELSE g[i]]
  <2>6. g = [i \in 0 .. k - 1 |-> IF i = 0 THEN <<>> ELSE Longer(i, g[i - 1])]
    BY <2>5
  <2>7. SUFFICES h = [i \in 0 .. k |-> IF i = 0 THEN <<>> ELSE Longer(i, h[i - 1])]
    BY <2>2
  <2> HIDE DEF Longer
  <2>8. ASSUME NEW i \in 0 .. k
        PROVE  h[i] = IF i = 0 THEN <<>> ELSE Longer(i, h[i - 1])
    <3>1. CASE i = k
      <4>1. k - 1 \in 0 .. k /\ k - 1 # k
        BY <2>2, <2>3
      <4>2. h[k - 1] = g[k - 1]
        BY <4>1
      <4> QED
        BY <2>3, <3>1, <4>2
    <3>2. CASE i # k
      <4>1. i \in 0 .. k - 1
        BY <2>2, <3>2
      <4>2. g[i] = IF i = 0 THEN <<>> ELSE Longer(i, g[i - 1])
        BY <2>6, <4>1
      <4>3. i # 0 => i - 1 \in 0 .. k /\ i - 1 # k
        BY <2>2, <4>1
      <4>4. i # 0 => h[i - 1] = g[i - 1]
        BY <4>3
      <4>5. h[i] = g[i]
        BY <3>2
      <4> QED
        BY <4>2, <4>4, <4>5
    <3> QED
      BY <3>1, <3>2
  <2>9. h = [i \in 0 .. k |-> h[i]]
    OBVIOUS
  <2> HIDE DEF h
  <2> QED
    BY <2>8, <2>9
<1> DEFINE modes == CHOOSE g : Connects(g, half + 1)
<1>4. Loudspeakers!Hoa!_modes(n) = modes[half + 1]
  BY DEF Loudspeakers!Hoa!_modes, Pair
<1>5. Connects(modes, half + 1)
  <2>1. half + 1 \in Nat
    BY <1>1
  <2>2. half + 1 \in Connectable
    BY <1>3, <2>1
  <2>3. \E g : Connects(g, half + 1)
    <3> HIDE DEF Connects
    <3> QED
      BY <2>2
  <2> HIDE DEF Connects
  <2> QED
    BY <2>3
<1> HIDE DEF modes, half, even
<1>6. /\ modes[0] = <<>>
      /\ \A k \in 1 .. half + 1 : modes[k] = Pair(k).first \o modes[k - 1] \o <<Pair(k).second>>
  <2> DEFINE Longer(k, s) == Pair(k).first \o s \o <<Pair(k).second>>
  <2>1. modes = [k \in 0 .. half + 1 |-> IF k = 0 THEN <<>> ELSE Longer(k, modes[k - 1])]
    BY <1>5
  <2>2. SUFFICES \A k \in 1 .. half + 1 : modes[k] = Longer(k, modes[k - 1])
    BY <1>1, <2>1
  <2> HIDE DEF Longer
  <2> QED
    BY <1>1, <2>1
<1> HIDE DEF Connects, Connectable
<1> DEFINE first(k) == IF k = half + 1 THEN 0 ELSE half + 1 - k - (IF even THEN 1 ELSE 0)
           last(k) == n - (half + 1 - k)
           Wrong == {k \in 0 .. half + 1 : modes[k] # ModeInterval(first(k), last(k))}
<1>7. ASSUME NEW k \in 1 .. half + 1, modes[k - 1] = ModeInterval(first(k - 1), last(k - 1))
      PROVE  modes[k] = ModeInterval(first(k), last(k))
  <2>0. first(k - 1) \in Int /\ last(k - 1) \in Int
    BY <1>1
  <2>1. PICK f \in Int : f = first(k - 1)
    BY <2>0
  <2>2. PICK l \in Int : l = last(k - 1)
    BY <2>0
  <2>3. f = half + 2 - k - (IF even THEN 1 ELSE 0) /\ l + 1 = n - (half + 1 - k)
    BY <1>1, <2>1, <2>2
  <2>4. f <= l + 1 /\ last(k) = l + 1
    BY <1>1, <2>3
  <2>5. Pair(k).second = l + 1
    BY <1>2, <2>3
  <2>6. CASE k = half + 1 /\ even
    <3>1. first(k) = 0 /\ f = 0
      BY <1>1, <2>3, <2>6
    <3>2. Pair(k).first = <<>>
      BY <1>2, <2>6
    <3>3. <<>> \o ModeInterval(f, l) \o <<l + 1>> = ModeInterval(f, l + 1)
      BY <2>4, IntervalGrows
    <3> HIDE DEF first, last
    <3> QED
      BY <1>6, <1>7, <2>1, <2>2, <2>4, <2>5, <3>1, <3>2, <3>3
  <2>7. CASE ~ (k = half + 1 /\ even)
    <3>1. first(k) = f - 1 /\ half + 1 - k - (IF even THEN 1 ELSE 0) = f - 1
      BY <1>1, <2>3, <2>7
    <3>2. Pair(k).first = <<f - 1>>
      BY <1>2, <2>7, <3>1
    <3>3. <<f - 1>> \o ModeInterval(f, l) \o <<l + 1>> = ModeInterval(f - 1, l + 1)
      BY <2>4, IntervalGrows
    <3> HIDE DEF first, last
    <3> QED
      BY <1>6, <1>7, <2>1, <2>2, <2>4, <2>5, <3>1, <3>2, <3>3
  <2> QED
    BY <2>6, <2>7
<1>8. modes[0] = ModeInterval(first(0), last(0))
  <2>1. PICK f \in Int : f = first(0)
    BY <1>1
  <2>2. last(0) = f - 1
    BY <1>1, <2>1
  <2>3. ModeInterval(f, f - 1) = <<>>
    BY DEF ModeInterval
  <2> HIDE DEF first, last
  <2> QED
    BY <1>6, <2>1, <2>2, <2>3
<1>9. Wrong = {}
  <2>1. SUFFICES ASSUME Wrong # {} PROVE FALSE
    OBVIOUS
  <2>2. PICK k \in Wrong : \A j \in Wrong : k <= j
    <3>1. Wrong \subseteq Nat
      BY <1>1
    <3> HIDE DEF Wrong
    <3> QED
      BY <2>1, <3>1, LeastElement
  <2> HIDE DEF first, last
  <2>3. k \in 0 .. half + 1 /\ modes[k] # ModeInterval(first(k), last(k))
    OBVIOUS
  <2>4. k # 0
    BY <1>8, <2>3
  <2>5. k \in 1 .. half + 1 /\ k - 1 \in 0 .. half + 1 /\ ~ (k <= k - 1)
    BY <1>1, <2>3, <2>4
  <2>6. modes[k - 1] = ModeInterval(first(k - 1), last(k - 1))
    BY <2>2, <2>5
  <2> QED
    BY <1>7, <2>3, <2>5, <2>6
<1>10. first(half + 1) = 0 /\ last(half + 1) = n /\ half + 1 \in 0 .. half + 1
  BY <1>1
<1> HIDE DEF first, last
<1> QED
  BY <1>4, <1>9, <1>10

\* With one source each accumulator has the mode of its number.
LEMMA ListsOfModes ==
  ASSUME NEW L \in Nat
  PROVE  Loudspeakers!Hoa!_mode_accumulator_list(L)
           = [k \in 1 .. L \div 2 + 1 |-> <<k - 1>>]
<1>1. PICK n \in Nat : n = L \div 2
  OBVIOUS
<1>2. PICK modes : modes = Loudspeakers!Hoa!_modes(n)
  OBVIOUS
<1>3. modes = [k \in 1 .. n + 1 |-> k - 1]
  <2>1. modes = ModeInterval(0, n)
    BY <1>2, ModesInOrder
  <2>2. n - 0 + 1 = n + 1 /\ \A k \in 1 .. n + 1 : 0 + k - 1 = k - 1
    OBVIOUS
  <2> QED
    BY <2>1, <2>2 DEF ModeInterval
<1>4. PICK empty : empty = [k \in 1 .. n + 1 |-> <<>>]
  OBVIOUS
<1>5. Len(modes) = n + 1 /\ Len(empty) = n + 1 /\ DOMAIN empty = 1 .. n + 1
  BY <1>3, <1>4
<1>6. \A k \in 1 .. n + 1 : Append(empty[k], modes[k]) = <<k - 1>>
  BY <1>3, <1>4
<1>7. Loudspeakers!Hoa!distribute_list(modes, empty)
        = [k \in 1 .. n + 1 |-> Append(empty[k], modes[k])]
  BY <1>5 DEF Loudspeakers!Hoa!distribute_list
<1>8. Loudspeakers!Hoa!_mode_accumulator_list(L) = Loudspeakers!Hoa!distribute_list(modes, empty)
  BY <1>1, <1>2, <1>4 DEF Loudspeakers!Hoa!_mode_accumulator_list, Loudspeakers!Hoa!order
<1> QED
  BY <1>1, <1>6, <1>7, <1>8

\* A bin is written into by one accumulator only.
LEMMA OneMode ==
  ASSUME NEW L \in Nat, NEW bin \in 0 .. L - 1, NEW k,
         k = IF 2 * bin <= L THEN bin ELSE L - bin,
         NEW heard, heard[k] # <<>>
  PROVE  Loudspeakers!Hoa!Accumulated(bin, L, heard)
           = << <<IF bin = k THEN 1 ELSE 2, k, heard[k]>> >>
<1> DEFINE lists == Loudspeakers!Hoa!_mode_accumulator_list(L)
           part(i) == IF Loudspeakers!Hoa!ModeAccumulator(i, L)[1] = bin THEN 1
                      ELSE IF Loudspeakers!Hoa!ModeAccumulator(i, L)[2] = bin THEN 2 ELSE 0
           writing == {i \in 0 .. Loudspeakers!Hoa!order(L) : part(i) # 0}
           last == CHOOSE i \in writing : \A j \in writing : j <= i
           modes == lists[last + 1]
           Added(i) == <<part(last), i, heard[i]>>
<1>1. Loudspeakers!Hoa!Accumulated(bin, L, heard)
        = IF writing = {} THEN <<>>
          ELSE [n \in {j \in DOMAIN modes : heard[modes[j]] # <<>>} |-> Added(modes[n])]
  BY DEF Loudspeakers!Hoa!Accumulated
<1>2. PICK half \in Nat : half = L \div 2 /\ half = Loudspeakers!Hoa!order(L)
  BY DEF Loudspeakers!Hoa!order
<1>3. (L = 2 * half \/ L = 2 * half + 1) /\ (L % 2 = 0 <=> L = 2 * half)
  BY <1>2
<1>4. /\ k \in 0 .. half
      /\ bin # k => bin = L - k /\ k # 0 /\ k # L - k
  BY <1>3
<1>5. ASSUME NEW i \in 0 .. half
      PROVE  part(i) = IF i = bin THEN 1
                       ELSE IF ~ (i = 0 \/ (i = half /\ L = 2 * half)) /\ L - i = bin THEN 2 ELSE 0
  <2>1. CASE i = 0 \/ (i = half /\ L % 2 = 0)
    <3>1. Loudspeakers!Hoa!ModeAccumulator(i, L) = <<i, -1>>
      BY <1>2, <2>1 DEF Loudspeakers!Hoa!ModeAccumulator
    <3>2. bin # -1
      OBVIOUS
    <3> QED
      BY <1>3, <2>1, <3>1, <3>2
  <2>2. CASE ~ (i = 0 \/ (i = half /\ L % 2 = 0))
    <3>1. Loudspeakers!Hoa!ModeAccumulator(i, L) = <<i, L - i>>
      BY <1>2, <2>2 DEF Loudspeakers!Hoa!ModeAccumulator
    <3> QED
      BY <1>3, <2>2, <3>1
  <2> QED
    BY <2>1, <2>2
<1>6. part(k) = IF bin = k THEN 1 ELSE 2
  <2> HIDE DEF part
  <2> QED
    BY <1>3, <1>4, <1>5
<1>7. \A i \in 0 .. half : part(i) # 0 => i = k
  <2> HIDE DEF part
  <2> QED
    BY <1>3, <1>4, <1>5
<1> HIDE DEF part
<1>8. writing = {k}
  BY <1>2, <1>4, <1>6, <1>7
<1> HIDE DEF writing
<1>9. last = k
  BY <1>4, <1>8
<1> HIDE DEF last
<1>10. modes = <<k>>
  <2>1. lists = [n \in 1 .. half + 1 |-> <<n - 1>>]
    BY <1>2, ListsOfModes
  <2>2. k + 1 \in 1 .. half + 1 /\ k + 1 - 1 = k
    BY <1>4
  <2> HIDE DEF lists
  <2> QED
    BY <1>9, <2>1, <2>2
<1> HIDE DEF modes
<1>11. {j \in DOMAIN modes : heard[modes[j]] # <<>>} = {1}
  BY <1>10
<1>12. Loudspeakers!Hoa!Accumulated(bin, L, heard) = [n \in {1} |-> Added(modes[n])]
  BY <1>1, <1>8, <1>11
<1>13. modes[1] = k
  BY <1>10
<1>14. Added(k) = <<IF bin = k THEN 1 ELSE 2, k, heard[k]>>
  BY <1>6, <1>9
<1> HIDE DEF Added
<1>15. [n \in {1} |-> Added(modes[n])] = <<Added(k)>>
  BY <1>13
<1> QED
  BY <1>12, <1>14, <1>15
------------------------------------------------------------------------------
(* NFC-HOA: the table of coefficients                                      *)

LEMMA SquaresGrow ==
  ASSUME NEW k \in Nat, NEW m \in Nat, k <= m
  PROVE  k * k <= m * m /\ (k * k) \div 4 <= (m * m) \div 4
<1>1. PICK d \in Nat : m = k + d
  <2>1. m - k \in Nat /\ m = k + (m - k)
    OBVIOUS
  <2> QED
    BY <2>1
<1>2. k * d \in Nat /\ d * d \in Nat /\ k * k \in Nat
  OBVIOUS
<1>3. m * m = k * k + 2 * (k * d) + d * d
  BY <1>1
<1>4. PICK a \in Nat : a = k * k
  BY <1>2
<1>5. PICK b \in Nat : b = m * m /\ a <= b
  BY <1>2, <1>3, <1>4
<1>6. a \div 4 <= b \div 4
  BY <1>5
<1> QED
  BY <1>4, <1>5, <1>6

\* The rows of a mode end before those of the next one.
LEMMA RowsFollow ==
  ASSUME NEW k \in Nat \ {0}
  PROVE  (k * k) \div 4 + (k + 1) \div 2 = ((k + 1) * (k + 1)) \div 4
<1>1. PICK j \in Nat : k = 2 * j \/ k = 2 * j + 1
  <2>1. k \div 2 \in Nat /\ (k = 2 * (k \div 2) \/ k = 2 * (k \div 2) + 1)
    OBVIOUS
  <2> QED
    BY <2>1
<1>2. PICK q \in Nat : q = j * j
  OBVIOUS
<1>3. CASE k = 2 * j
  <2>1. k * k = 4 * q /\ (k + 1) * (k + 1) = 4 * (q + j) + 1
    BY <1>2, <1>3
  <2>2. (4 * q) \div 4 = q /\ (4 * (q + j) + 1) \div 4 = q + j /\ (2 * j + 1) \div 2 = j
    OBVIOUS
  <2> QED
    BY <1>3, <2>1, <2>2
<1>4. CASE k = 2 * j + 1
  <2>1. k * k = 4 * (q + j) + 1 /\ (k + 1) * (k + 1) = 4 * (q + 2 * j + 1)
    BY <1>2, <1>4
  <2>2. /\ (4 * (q + j) + 1) \div 4 = q + j /\ (4 * (q + 2 * j + 1)) \div 4 = q + 2 * j + 1
        /\ (2 * j + 1 + 1) \div 2 = j + 1
    OBVIOUS
  <2> QED
    BY <1>4, <2>1, <2>2
<1> QED
  BY <1>1, <1>3, <1>4

LEMMA RowsDisjoint ==
  ASSUME NEW k \in Nat, NEW m \in Nat, k # m
  PROVE  Loudspeakers!Hoa!Rows(k) \cap Loudspeakers!Hoa!Rows(m) = {}
<1>1. ASSUME NEW i \in Nat, NEW j \in Nat, i < j
      PROVE  \A r \in Loudspeakers!Hoa!Rows(i), s \in Loudspeakers!Hoa!Rows(j) : r < s
  <2>1. PICK a \in Nat : a = (i * i) \div 4
    <3>1. i * i \in Nat
      OBVIOUS
    <3> QED
      BY <3>1
  <2>2. PICK b \in Nat : b = (j * j) \div 4
    <3>1. j * j \in Nat
      OBVIOUS
    <3> QED
      BY <3>1
  <2>3. Loudspeakers!Hoa!_coeffs_begin(j) = 1 + b
    BY <1>1, <2>2 DEF Loudspeakers!Hoa!_coeffs_begin
  <2>4. \A s \in Loudspeakers!Hoa!Rows(j) : s \in Nat /\ 1 + b <= s
    BY <2>3 DEF Loudspeakers!Hoa!Rows
  <2>5. CASE i = 0
    <3>1. a = 0
      BY <2>1, <2>5
    <3>2. Loudspeakers!Hoa!_coeffs_begin(i) = 0
      BY <2>1, <2>5, <3>1 DEF Loudspeakers!Hoa!_coeffs_begin
    <3>3. \A r \in Loudspeakers!Hoa!Rows(i) : r \in Nat /\ r <= 0
      BY <2>5, <3>2 DEF Loudspeakers!Hoa!Rows
    <3> QED
      BY <2>4, <3>3
  <2>6. CASE i # 0
    <3>1. Loudspeakers!Hoa!_coeffs_begin(i) = 1 + a
      BY <2>1, <2>6 DEF Loudspeakers!Hoa!_coeffs_begin
    <3>2. PICK h \in Nat : h = (i + 1) \div 2
      OBVIOUS
    <3>3. a + h = ((i + 1) * (i + 1)) \div 4
      BY <2>1, <2>6, <3>2, RowsFollow
    <3>4. PICK n \in Nat : n = i + 1 /\ n <= j
      BY <1>1
    <3>5. a + h <= b
      BY <2>2, <3>3, <3>4, SquaresGrow
    <3>6. \A r \in Loudspeakers!Hoa!Rows(i) : r \in Nat /\ r <= 1 + a + h - 1
      BY <2>6, <3>1, <3>2 DEF Loudspeakers!Hoa!Rows
    <3> QED
      BY <2>4, <3>5, <3>6
  <2> QED
    BY <2>5, <2>6
<1>2. ASSUME NEW i \in Nat PROVE Loudspeakers!Hoa!Rows(i) \subseteq Int
  BY DEF Loudspeakers!Hoa!Rows
<1>3. k < m \/ m < k
  OBVIOUS
<1>4. CASE k < m
  <2>1. \A r \in Loudspeakers!Hoa!Rows(k), s \in Loudspeakers!Hoa!Rows(m) : r < s
    BY <1>1, <1>4
  <2>2. Loudspeakers!Hoa!Rows(k) \subseteq Int
    BY <1>2
  <2> QED
    BY <2>1, <2>2
<1>5. CASE m < k
  <2>1. \A r \in Loudspeakers!Hoa!Rows(m), s \in Loudspeakers!Hoa!Rows(k) : r < s
    BY <1>1, <1>5
  <2>2. Loudspeakers!Hoa!Rows(k) \subseteq Int
    BY <1>2
  <2> QED
    BY <2>1, <2>2
<1> QED
  BY <1>3, <1>4, <1>5

\* The mean of distances in samples is one itself.
LEMMA RadiusIsNumber ==
  ASSUME NEW loudspeakers, NEW size \in Nat \ {0}, Len(loudspeakers) = size,
         \A o \in 1 .. size : loudspeakers[o].position \in Int \X Int
  PROVE  Loudspeakers!Hoa!array_radius(loudspeakers) \in Int
<1> DEFINE Distance(n) == Loudspeakers!Hoa!Samples(loudspeakers[n].position)
           Totals(g, m) == g = [n \in 0 .. m |-> IF n = 0 THEN 0 ELSE g[n - 1] + Distance(n)]
           Summable == {m \in Nat : \E g : Totals(g, m)}
<1>1. ASSUME NEW n \in 1 .. size PROVE Distance(n) \in Nat
  <2>1. Distance(n) = Loudspeakers!Samples(loudspeakers[n].position)
    BY DEF Loudspeakers!Hoa!Samples, Loudspeakers!Samples, Loudspeakers!Hoa!RootOf,
           Loudspeakers!RootOf, Loudspeakers!Hoa!Dot, Loudspeakers!Dot
  <2>2. loudspeakers[n].position \in Int \X Int
    OBVIOUS
  <2> HIDE DEF Distance
  <2> QED
    BY <2>1, <2>2, SignOfDelays
<1> HIDE DEF Distance
<1>2. ASSUME NEW m \in Nat PROVE m \in Summable
  <2>1. SUFFICES ASSUME Nat \ Summable # {} PROVE FALSE
    OBVIOUS
  <2>2. PICK k \in Nat \ Summable : \A j \in Nat \ Summable : k <= j
    <3> HIDE DEF Summable
    <3> QED
      BY <2>1, LeastElement
  <2>3. k # 0
    <3>1. SUFFICES ASSUME k = 0 PROVE FALSE
      OBVIOUS
    <3> DEFINE g == [n \in 0 .. 0 |-> 0]
    <3>2. Totals(g, 0)
      OBVIOUS
    <3> QED
      BY <2>2, <3>1, <3>2
  <2>4. k - 1 \in Nat /\ k - 1 \in Summable
    <3>1. k - 1 \in Nat /\ ~ (k <= k - 1)
      BY <2>2, <2>3
    <3> HIDE DEF Summable
    <3> QED
      BY <2>2, <3>1
  <2>5. PICK g : Totals(g, k - 1)
    BY <2>4
  <2> DEFINE h == [n \in 0 .. k |-> IF n = k THEN g[k - 1] + Distance(k) ELSE g[n]]
  <2>6. ASSUME NEW n \in 0 .. k
        PROVE  h[n] = IF n = 0 THEN 0 ELSE h[n - 1] + Distance(n)
    <3>1. CASE n = k
      <4>1. k - 1 \in 0 .. k /\ k - 1 # k
        BY <2>2, <2>3
      <4>2. h[k - 1] = g[k - 1]
        BY <4>1
      <4> QED
        BY <2>3, <3>1, <4>2
    <3>2. CASE n # k
      <4>1. n \in 0 .. k - 1
        BY <2>2, <3>2
      <4>2. g[n] = IF n = 0 THEN 0 ELSE g[n - 1] + Distance(n)
        BY <2>5, <4>1
      <4>3. n # 0 => n - 1 \in 0 .. k /\ n - 1 # k
        BY <2>2, <4>1
      <4>4. n # 0 => h[n - 1] = g[n - 1]
        BY <4>3
      <4>5. h[n] = g[n]
        BY <3>2
      <4> QED
        BY <4>2, <4>4, <4>5
    <3> QED
      BY <3>1, <3>2
  <2>7. h = [n \in 0 .. k |-> h[n]]
    OBVIOUS
  <2> HIDE DEF h
  <2>8. Totals(h, k)
    BY <2>6, <2>7
  <2> QED
    BY <2>2, <2>8
<1> DEFINE total == CHOOSE g : Totals(g, size)
<1>3. Loudspeakers!Hoa!array_radius(loudspeakers) = total[size] \div size
  BY DEF Loudspeakers!Hoa!array_radius, Distance
<1>4. Totals(total, size)
  <2>1. \E g : Totals(g, size)
    BY <1>2
  <2> HIDE DEF Totals
  <2> QED
    BY <2>1
<1> HIDE DEF total
<1>5. ASSUME NEW n \in 0 .. size
      PROVE  total[n] = IF n = 0 THEN 0 ELSE total[n - 1] + Distance(n)
  BY <1>4
<1> DEFINE Wrong == {n \in 0 .. size : total[n] \notin Nat}
<1>6. Wrong = {}
  <2>1. SUFFICES ASSUME Wrong # {} PROVE FALSE
    OBVIOUS
  <2>2. PICK n \in Wrong : \A j \in Wrong : n <= j
    <3>1. Wrong \subseteq Nat
      OBVIOUS
    <3> HIDE DEF Wrong
    <3> QED
      BY <2>1, <3>1, LeastElement
  <2>3. n \in 0 .. size /\ total[n] \notin Nat
    OBVIOUS
  <2>4. n # 0
    BY <1>5, <2>3
  <2>5. n - 1 \in 0 .. size /\ n \in 1 .. size /\ ~ (n <= n - 1)
    BY <2>3, <2>4
  <2>6. total[n - 1] \in Nat
    BY <2>2, <2>5
  <2> QED
    BY <1>1, <1>5, <2>3, <2>4, <2>5, <2>6
<1>7. total[size] \in Nat
  BY <1>6
<1>8. ASSUME NEW t \in Nat PROVE t \div size \in Int
  OBVIOUS
<1> QED
  BY <1>3, <1>7, <1>8
------------------------------------------------------------------------------
(* NFC-HOA: the filters and what is heard                                  *)

\* Every mode is turned to the angle of the source and, from the first block on,
\* filtered with the coefficients of the distance and the model of the source.
FilteredWith(state, radius) ==
  /\ \A m \in DOMAIN state.modes :
       /\ state.modes[m]._coefficients = state.modes[m].filter
       /\ state.modes[m].rotation = state.angle
  /\ \/ state.distance = -1
     \/ /\ state.distance \in Nat
        /\ \A m \in DOMAIN state.modes :
             state.modes[m].filter = Loudspeakers!Hoa!Coefficients(m, state, radius)

FilteredInv ==
  renderer = "nfc-hoa" =>
    /\ PlacesInv
    /\ \A o \in DOMAIN outputs : outputs[o].position \in Int \X Int
    /\ DOMAIN source_state.modes = 0 .. Loudspeakers!Hoa!order(Len(outputs))
    /\ FilteredWith(source_state, Loudspeakers!Hoa!array_radius(outputs))
    /\ outputs_begin # <<>> =>
         /\ source_state.distance \in Nat
         /\ settings.gain # 0 => source_state.weight # <<>>

LEMMA ProcessedValues ==
  ASSUME NEW old, NEW source, NEW gain, NEW reference, IsSource(old),
         source.position \in Int \X Int, reference.position \in Int \X Int
  PROVE  LET processed == Loudspeakers!Hoa!Processed(old, source, gain, reference)
         IN  processed.distance \in Nat /\ (gain # 0 => processed.weight # <<>>)
<1>1. PICK d, a, s, w, modes :
        old = [distance |-> d, angle |-> a, source_model |-> s, weight |-> w, modes |-> modes]
  BY DEF IsSource, SourceWith
<1> DEFINE way == Loudspeakers!Hoa!Minus(source.position, reference.position)
           direction == IF source.model = "point" THEN Loudspeakers!Hoa!orientation(way)
                        ELSE Loudspeakers!Hoa!Unit(source.orientation - 180)
           seen == Loudspeakers!Hoa!rotate(direction, 90 - reference.orientation)
           distance == Loudspeakers!Hoa!Samples(way)
           attenuation == IF source.model = "point"
                          THEN <<"sqrt", Loudspeakers!Hoa!Dot(way, way)>> ELSE <<"one">>
           weight == IF gain = 0 THEN <<>> ELSE attenuation \o <<gain>>
           Updated(D, A, M, W) ==
             [old EXCEPT !.distance = D,
                         !.angle = IF /\ @ # <<0, 0>>
                                      /\ Loudspeakers!Hoa!Cross(@, A) = 0
                                      /\ Loudspeakers!Hoa!Dot(@, A) > 0 THEN @ ELSE A,
                         !.source_model = M,
                         !.weight = W]
           processed == Loudspeakers!Hoa!Processed(old, source, gain, reference)
<1>2. processed = Updated(distance, seen, source.model, weight)
  BY Zenon DEF Loudspeakers!Hoa!Processed
<1>3. distance \in Nat
  <2>1. distance = Loudspeakers!Samples(Loudspeakers!Minus(source.position, reference.position))
    BY DEF Loudspeakers!Hoa!Samples, Loudspeakers!Samples, Loudspeakers!Hoa!RootOf,
           Loudspeakers!RootOf, Loudspeakers!Hoa!Dot, Loudspeakers!Dot,
           Loudspeakers!Hoa!Minus, Loudspeakers!Minus
  <2>2. Loudspeakers!Minus(source.position, reference.position) \in Int \X Int
    BY Differences
  <2> HIDE DEF distance
  <2> QED
    BY <2>1, <2>2, SignOfDelays
<1>4. ASSUME gain # 0 PROVE weight # <<>>
  <2>1. PICK number : number = Loudspeakers!Hoa!Dot(way, way)
    OBVIOUS
  <2>2. PICK Parts : Parts = {"sqrt", "one", number, gain}
    OBVIOUS
  <2>3. PICK before : before = attenuation
    OBVIOUS
  <2>4. before \in Seq(Parts) /\ Len(before) \in Nat
    <3>1. CASE source.model = "point"
      BY <2>1, <2>2, <2>3, <3>1
    <3>2. CASE source.model # "point"
      BY <2>2, <2>3, <3>2
    <3> QED
      BY <3>1, <3>2
  <2>5. PICK last : last = <<gain>>
    OBVIOUS
  <2>6. last \in Seq(Parts) /\ Len(last) = 1
    BY <2>2, <2>5
  <2>7. PICK all : all = before \o last
    OBVIOUS
  <2>8. Len(all) = Len(before) + 1
    <3>1. Len(before \o last) = Len(before) + Len(last)
      BY <2>4, <2>6, ConcatProperties, Zenon
    <3> QED
      BY <2>6, <2>7, <3>1
  <2>9. all # <<>>
    BY <2>4, <2>8
  <2>10. weight = all
    BY <1>4, <2>3, <2>5, <2>7
  <2> QED
    BY <2>9, <2>10
<1> HIDE DEF distance, seen, weight
<1>5. Updated(distance, seen, source.model, weight).distance = distance
  BY <1>1
<1>6. Updated(distance, seen, source.model, weight).weight = weight
  BY <1>1
<1> HIDE DEF Updated, processed
<1>7. processed.distance \in Nat /\ (gain # 0 => processed.weight # <<>>)
  BY <1>2, <1>3, <1>4, <1>5, <1>6
<1> QED
  BY <1>7 DEF processed

\* The source of a block, as process() left it, once each of its modes was processed.
Followed(old, processed, radius) ==
  [processed EXCEPT !.modes = [m \in DOMAIN old.modes |->
     Loudspeakers!Hoa!_process(old.modes[m], m, old, processed, radius)]]

\* Mode::_process(): where distance and model are those of the last block, the
\* coefficients are, too; where the angle is, the rotation is.
LEMMA ModesFollow ==
  ASSUME NEW old, NEW processed, NEW radius, NEW new,
         IsSource(old), FilteredWith(old, radius),
         SourceWith(old.modes, processed), processed.distance \in Nat,
         new = Followed(old, processed, radius)
  PROVE  /\ FilteredWith(new, radius)
         /\ DOMAIN new.modes = DOMAIN old.modes
         /\ new.distance = processed.distance /\ new.weight = processed.weight
<1>0. PICK modes :
        modes = [m \in DOMAIN old.modes |->
                   Loudspeakers!Hoa!_process(old.modes[m], m, old, processed, radius)]
  OBVIOUS
<1>1. PICK d, a, s, w :
        processed = [distance |-> d, angle |-> a, source_model |-> s, weight |-> w,
                     modes |-> old.modes]
  BY DEF SourceWith
<1>2. new = [distance |-> d, angle |-> a, source_model |-> s, weight |-> w, modes |-> modes]
  BY <1>0, <1>1 DEF Followed
<1>3. /\ new.modes = modes /\ DOMAIN modes = DOMAIN old.modes
      /\ new.distance = d /\ processed.distance = d
      /\ new.weight = w /\ processed.weight = w
      /\ new.angle = a /\ processed.angle = a
      /\ new.source_model = s /\ processed.source_model = s
  BY <1>0, <1>1, <1>2
<1>4. ASSUME NEW m
      PROVE  Loudspeakers!Hoa!Coefficients(m, new, radius)
               = Loudspeakers!Hoa!Coefficients(m, processed, radius)
  BY <1>3 DEF Loudspeakers!Hoa!Coefficients
<1>5. ASSUME NEW m \in DOMAIN old.modes
      PROVE  /\ modes[m]._coefficients = modes[m].filter
             /\ modes[m].rotation = a
             /\ modes[m].filter = Loudspeakers!Hoa!Coefficients(m, processed, radius)
  <2>1. PICK f, c, r : old.modes[m] = [filter |-> f, _coefficients |-> c, rotation |-> r]
    BY DEF IsSource, IsMode
  <2>2. c = f /\ r = old.angle
    BY <2>1 DEF FilteredWith
  <2>3. modes[m] = Loudspeakers!Hoa!_process(old.modes[m], m, old, processed, radius)
    BY <1>0
  <2>4. Loudspeakers!Hoa!Rotation(old.modes[m], old, processed) = a
    BY <1>3, <2>1, <2>2 DEF Loudspeakers!Hoa!Rotation, Loudspeakers!Hoa!angle_changed
  <2>5. CASE Loudspeakers!Hoa!filter_changed(old, processed)
    <3>1. PICK target : target = Loudspeakers!Hoa!Coefficients(m, processed, radius)
      OBVIOUS
    <3>2. modes[m] = [filter |-> target, _coefficients |-> target, rotation |-> a]
      BY <2>3, <2>4, <2>5, <3>1 DEF Loudspeakers!Hoa!_process
    <3> QED
      BY <3>1, <3>2
  <2>6. CASE ~ Loudspeakers!Hoa!filter_changed(old, processed)
    <3>1. old.distance = processed.distance /\ old.source_model = processed.source_model
      BY <2>6 DEF Loudspeakers!Hoa!filter_changed
    <3>2. f = Loudspeakers!Hoa!Coefficients(m, old, radius)
      <4>1. old.distance # -1
        BY <3>1
      <4> QED
        BY <2>1, <4>1 DEF FilteredWith
    <3>3. Loudspeakers!Hoa!Coefficients(m, old, radius)
            = Loudspeakers!Hoa!Coefficients(m, processed, radius)
      BY <3>1 DEF Loudspeakers!Hoa!Coefficients
    <3>4. modes[m] = [old.modes[m] EXCEPT !.rotation = a]
      BY <2>3, <2>4, <2>6 DEF Loudspeakers!Hoa!_process
    <3>5. modes[m] = [filter |-> f, _coefficients |-> c, rotation |-> a]
      BY <2>1, <3>4
    <3> QED
      BY <2>2, <3>2, <3>3, <3>5
  <2> QED
    BY <2>5, <2>6
<1>6. FilteredWith(new, radius)
  <2>1. new.distance \in Nat
    BY <1>3
  <2>2. ASSUME NEW m \in DOMAIN new.modes
        PROVE  /\ new.modes[m]._coefficients = new.modes[m].filter
               /\ new.modes[m].rotation = new.angle
               /\ new.modes[m].filter = Loudspeakers!Hoa!Coefficients(m, new, radius)
    <3>1. m \in DOMAIN old.modes
      BY <1>3
    <3>2. new.modes[m] = modes[m] /\ new.angle = a
      BY <1>3
    <3> QED
      BY <1>4, <1>5, <3>1, <3>2
  <2> QED
    BY <2>1, <2>2, Zenon DEF FilteredWith
<1> QED
  BY <1>3, <1>6

LEMMA InitFiltered == ASSUME Loudspeakers!Init PROVE FilteredInv
<1> SUFFICES ASSUME renderer = "nfc-hoa"
             PROVE  /\ PlacesInv
                    /\ \A o \in DOMAIN outputs : outputs[o].position \in Int \X Int
                    /\ DOMAIN source_state.modes = 0 .. Loudspeakers!Hoa!order(Len(outputs))
                    /\ FilteredWith(source_state, Loudspeakers!Hoa!array_radius(outputs))
                    /\ outputs_begin = <<>>
  BY DEF FilteredInv
<1>1. PlacesInv /\ outputs_begin = <<>>
  BY DEF Loudspeakers!Init, PlacesInv
<1>2. \A o \in DOMAIN outputs : outputs[o].position \in Int \X Int
  BY SetupsAssumption DEF Loudspeakers!Init
<1>3. PICK last : last = Loudspeakers!Hoa!order(Len(outputs))
  OBVIOUS
<1>4. source_state = [distance |-> -1, angle |-> <<0, 0>>, source_model |-> "none",
                      weight |-> <<>>,
                      modes |-> [m \in 0 .. last |-> Loudspeakers!Hoa!NewMode]]
  BY <1>3 DEF Loudspeakers!Init, Loudspeakers!Hoa!NewSource
<1>5. DOMAIN source_state.modes = 0 .. last
  BY <1>4
<1>6. \A m \in 0 .. last : source_state.modes[m] = Loudspeakers!Hoa!NewMode
  BY <1>4
<1>7. /\ Loudspeakers!Hoa!NewMode._coefficients = Loudspeakers!Hoa!NewMode.filter
      /\ Loudspeakers!Hoa!NewMode.rotation = <<0, 0>>
  BY DEF Loudspeakers!Hoa!NewMode
<1>8. source_state.angle = <<0, 0>> /\ source_state.distance = -1
  BY <1>4
<1>9. FilteredWith(source_state, Loudspeakers!Hoa!array_radius(outputs))
  BY <1>5, <1>6, <1>7, <1>8 DEF FilteredWith
<1> QED
  BY <1>1, <1>2, <1>3, <1>5, <1>9

LEMMA ProcessFiltered ==
  ASSUME HoaInv, FilteredInv, Loudspeakers!Process, renderer = "nfc-hoa"
  PROVE  FilteredInv'
<1>1. Loudspeakers!ProcessNfcHoa /\ UNCHANGED <<renderer, outputs, settings>>
  BY DEF Loudspeakers!Process, Loudspeakers!ProcessWfs, Loudspeakers!ProcessVbap,
         Loudspeakers!ProcessAap, Loudspeakers!ProcessGeneric
<1>2. PICK old : old = source_state
  OBVIOUS
<1>3. PICK radius : radius = Loudspeakers!Hoa!array_radius(outputs)
  OBVIOUS
<1>4. PICK gain : gain = settings.gain
  OBVIOUS
<1>5. PICK processed :
        processed = Loudspeakers!Hoa!Processed(old, Loudspeakers!AnySource, gain,
                                               Loudspeakers!AnyReference)
  OBVIOUS
<1>6. PICK new : new = Followed(old, processed, radius)
  OBVIOUS
<1>7. source_state' = new
  <2>1. source_state'
          = Followed(source_state,
                     Loudspeakers!Hoa!Processed(source_state, Loudspeakers!AnySource,
                                                settings.gain, Loudspeakers!AnyReference),
                     Loudspeakers!Hoa!array_radius(outputs))
    BY <1>1, Zenon DEF Loudspeakers!ProcessNfcHoa, Followed
  <2> QED
    BY <1>2, <1>3, <1>4, <1>5, <1>6, <2>1
<1>8. /\ IsSource(old) /\ FilteredWith(old, radius)
      /\ DOMAIN old.modes = 0 .. Loudspeakers!Hoa!order(Len(outputs))
  BY <1>2, <1>3 DEF HoaInv, FilteredInv
<1>9. /\ Loudspeakers!AnySource.position \in Int \X Int
      /\ Loudspeakers!AnyReference.position \in Int \X Int
  BY DEF FilteredInv, PlacesInv, Loudspeakers!AnySource, Loudspeakers!AnyReference
<1>10. /\ SourceWith(old.modes, processed)
       /\ processed.distance \in Nat /\ (gain # 0 => processed.weight # <<>>)
  BY <1>5, <1>8, <1>9, ProcessedSource, ProcessedValues
<1>11. /\ FilteredWith(new, radius)
       /\ DOMAIN new.modes = DOMAIN old.modes
       /\ new.distance = processed.distance /\ new.weight = processed.weight
  BY <1>6, <1>8, <1>10, ModesFollow
<1>12. radius = Loudspeakers!Hoa!array_radius(outputs')
  BY <1>1, <1>3
<1>13. /\ PlacesInv'
       /\ \A o \in DOMAIN outputs' : outputs'[o].position \in Int \X Int
  BY <1>1 DEF FilteredInv, PlacesInv
<1>14. FilteredWith(source_state', Loudspeakers!Hoa!array_radius(outputs'))
  BY <1>7, <1>11, <1>12
<1>15. /\ DOMAIN source_state'.modes = 0 .. Loudspeakers!Hoa!order(Len(outputs'))
       /\ source_state'.distance \in Nat
       /\ settings'.gain # 0 => source_state'.weight # <<>>
  BY <1>1, <1>4, <1>7, <1>8, <1>10, <1>11
<1> QED
  BY <1>13, <1>14, <1>15 DEF FilteredInv, FilteredWith

\* For every number of loudspeakers, wherever they are and whatever is changed between
\* two blocks: each bin of what an output transforms is one part of one mode, the one
\* that belongs there, filtered, turned and weighted for the source as it is; no mode
\* is nearer than the loudspeakers, and no two use the same rows of the table
\* (Source::connect(), ModeAccumulator, Mode::_process(), HoaCoefficients).
THEOREM AlwaysHalfComplex == RenderersSpec => []HalfComplex
<1> DEFINE Inv == HoaInv /\ FilteredInv
<1>1. RenderersInit => Inv
  <2> SUFFICES ASSUME RenderersInit PROVE Inv
    OBVIOUS
  <2>1. CASE Loudspeakers!Init
    BY <2>1, InitHoa, InitFiltered
  <2>2. CASE renderer \in {"binaural", "matlab", "brs"}
    BY <2>2 DEF HoaInv, FilteredInv
  <2> QED
    BY <2>1, <2>2 DEF RenderersInit
<1>2. Inv /\ [RenderersNext]_<<renderer, loudspeaker_vars, vars, matlab>> => Inv'
  <2> SUFFICES ASSUME Inv, [RenderersNext]_<<renderer, loudspeaker_vars, vars, matlab>>
               PROVE  Inv'
    OBVIOUS
  <2>1. CASE UNCHANGED <<renderer, loudspeaker_vars>>
    <3>1. UNCHANGED <<renderer, outputs, settings, source_state, outputs_begin, outputs_end>>
      BY <2>1 DEF loudspeaker_vars
    <3>2. HoaInv'
      BY <3>1 DEF HoaInv, IsSource, SourceWith, SetHeard, Spectrum
    <3>3. FilteredInv'
      BY <3>1 DEF FilteredInv, PlacesInv, FilteredWith
    <3> QED
      BY <3>2, <3>3
  <2>2. CASE Loudspeakers!Process
    <3>1. CASE renderer = "nfc-hoa"
      BY <2>2, <3>1, ProcessHoa, ProcessFiltered
    <3>2. CASE renderer # "nfc-hoa"
      BY <2>2, <3>2 DEF Loudspeakers!Process, HoaInv, FilteredInv
    <3> QED
      BY <3>1, <3>2
  <2>3. CASE Loudspeakers!Next /\ ~ Loudspeakers!Process
    <3>1. UNCHANGED <<renderer, outputs, source_state, outputs_end>> /\ outputs_begin' = <<>>
      BY <2>3, LoudspeakerSteps
    <3>2. HoaInv'
      BY <3>1 DEF HoaInv, IsSource, SourceWith, SetHeard, Spectrum
    <3>3. FilteredInv'
      <4>1. CASE renderer = "nfc-hoa"
        <5>1. PlacesInv'
          BY <2>3, <4>1, ChangedPlaces DEF FilteredInv
        <5> QED
          BY <3>1, <4>1, <5>1 DEF FilteredInv, FilteredWith
      <4>2. CASE renderer # "nfc-hoa"
        BY <3>1, <4>2 DEF FilteredInv
      <4> QED
        BY <4>1, <4>2
    <3> QED
      BY <3>2, <3>3
  <2> HIDE DEF Inv
  <2> QED
    BY <2>1, <2>2, <2>3, OnlyLoudspeakers
<1>3. Inv => HalfComplex
  <2> SUFFICES ASSUME Inv, renderer = "nfc-hoa", outputs_begin # <<>>, settings.gain # 0
               PROVE  LET n == Len(outputs)
                      IN  /\ \A o \in 1 .. n, bin \in 0 .. n - 1 :
                               LET k == IF 2 * bin <= n THEN bin ELSE n - bin
                                   heard == outputs_end[o][2][bin]
                               IN  /\ outputs_end[o][1] = o - 1
                                   /\ heard = << <<IF bin = k THEN 1 ELSE 2, k,
                                                   << <<source_state.modes[k].filter,
                                                        source_state.modes[k].filter>>,
                                                      source_state.angle,
                                                      source_state.weight>> >> >>
                                   /\ source_state.modes[k].filter[2]
                                        >= Loudspeakers!Hoa!array_radius(outputs)
                          /\ \A k, m \in 0 .. n \div 2 :
                               k # m => Loudspeakers!Hoa!Rows(k) \cap Loudspeakers!Hoa!Rows(m) = {}
    BY DEF HalfComplex, Loudspeakers!HalfComplex
  <2>1. PICK n \in Nat : n = Len(outputs) /\ DOMAIN outputs = 1 .. n
    BY DEF HoaInv
  <2>2. PICK radius : radius = Loudspeakers!Hoa!array_radius(outputs)
    OBVIOUS
  <2>3. PICK state : state = source_state
    OBVIOUS
  <2>4. /\ DOMAIN state.modes = 0 .. n \div 2
        /\ FilteredWith(state, radius) /\ state.distance \in Nat /\ state.weight # <<>>
        /\ \A o \in 1 .. n : outputs_end[o] = Spectrum(o - 1, n, SetHeard(state))
        /\ \A o \in 1 .. n : outputs[o].position \in Int \X Int
    BY <2>1, <2>2, <2>3 DEF HoaInv, FilteredInv, Loudspeakers!Hoa!order
  <2>5. ASSUME NEW o \in 1 .. n, NEW bin \in 0 .. n - 1, NEW k,
               k = IF 2 * bin <= n THEN bin ELSE n - bin
        PROVE  /\ outputs_end[o][1] = o - 1
               /\ outputs_end[o][2][bin]
                    = << <<IF bin = k THEN 1 ELSE 2, k,
                           << <<state.modes[k].filter, state.modes[k].filter>>,
                              state.angle, state.weight>> >> >>
               /\ state.modes[k].filter[2] >= radius
    <3>1. k \in 0 .. n \div 2
      BY <2>5
    <3>2. PICK heard : heard = SetHeard(state)
      OBVIOUS
    <3>3. /\ outputs_end[o][1] = o - 1
          /\ outputs_end[o][2][bin] = Loudspeakers!Hoa!Accumulated(bin, n, heard)
      <4>1. outputs_end[o] = Spectrum(o - 1, n, heard)
        BY <2>4, <3>2
      <4>2. PICK i : i = o - 1
        OBVIOUS
      <4>3. Spectrum(i, n, heard)
              = <<i, [b \in 0 .. n - 1 |-> Loudspeakers!Hoa!Accumulated(b, n, heard)]>>
        BY DEF Spectrum
      <4> QED
        BY <4>1, <4>2, <4>3
    <3>4. PICK f : f = state.modes[k].filter
      OBVIOUS
    <3>5. /\ state.modes[k]._coefficients = f /\ state.modes[k].rotation = state.angle
          /\ f = Loudspeakers!Hoa!Coefficients(k, state, radius)
      BY <2>4, <3>1, <3>4 DEF FilteredWith
    <3>6. heard[k] = << <<f, f>>, state.angle, state.weight>>
      BY <2>4, <3>1, <3>2, <3>4, <3>5 DEF SetHeard, Loudspeakers!Hoa!Heard
    <3>7. heard[k] # <<>>
      BY <3>6
    <3>8. outputs_end[o][2][bin] = << <<IF bin = k THEN 1 ELSE 2, k, heard[k]>> >>
      BY <2>5, <3>3, <3>7, OneMode
    <3>9. f[2] >= radius
      <4>1. n \in Nat \ {0}
        BY <2>1
      <4>2. radius \in Int
        BY <2>1, <2>2, <2>4, <4>1, RadiusIsNumber
      <4>3. f[2] = IF state.distance < radius THEN radius ELSE state.distance
        BY <3>5 DEF Loudspeakers!Hoa!Coefficients
      <4> QED
        BY <2>4, <4>2, <4>3
    <3> QED
      BY <3>3, <3>4, <3>6, <3>8, <3>9
  <2>6. \A k, m \in 0 .. n \div 2 :
          k # m => Loudspeakers!Hoa!Rows(k) \cap Loudspeakers!Hoa!Rows(m) = {}
    BY RowsDisjoint
  <2> HIDE DEF Inv
  <2> QED
    BY <2>1, <2>2, <2>3, <2>5, <2>6
<1> HIDE DEF Inv
<1> QED
  BY <1>1, <1>2, <1>3, PTL DEF RenderersSpec
==============================================================================
