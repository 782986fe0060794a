---------------------------- MODULE BlockDelayLine -----------------------------
(***************************************************************************)
(* apf::BlockDelayLine and apf::NonCausalBlockDelayLine.  The state of a   *)
(* delay line is a record of its data and its two circular iterators.  The *)
(* data are known by their age: a sample is the number of samples by which *)
(* it is later than the first one of the latest block, or None where       *)
(* nothing was written yet.                                                *)
(***************************************************************************)
EXTENDS Integers, Sequences

CONSTANTS BlockSize, MaxDelay, InitialDelay, None

ASSUME DelayAssumption ==
  /\ BlockSize \in Nat \ {0}
  /\ MaxDelay \in Nat
  /\ InitialDelay \in Nat
  /\ None \notin Int

\* math::wrap() of the index of a circular_iterator.
wrap(i, full) == i % full

\* At least two blocks, so that the begin and the end of a block differ; the
\* non-causal delay line is one with a longer delay.
NumberOfBlocks ==
  LET blocks == (MaxDelay + InitialDelay + 2 * BlockSize - 1) \div BlockSize
  IN  IF blocks < 2 THEN 2 ELSE blocks

Length == NumberOfBlocks * BlockSize

NewDelayLine ==
  [data |-> [i \in 0 .. Length - 1 |-> None], samples |-> 0, block |-> 0]

Mutant_write_block(line) ==
  LET block == line.block + BlockSize
      start == IF block = Length THEN 0 ELSE block
  IN  [data |-> [i \in 0 .. Length - 1 |->
                   IF i \in start .. start + BlockSize - 1 THEN i - start
                   ELSE IF line.data[i] = None THEN None
                   ELSE line.data[i] - BlockSize],
       samples |-> line.samples,
       block |-> start]

\* advance() moves both iterators; then the block is written at one of them.
write_block(line) ==
  LET start == wrap(line.block + BlockSize, Length)
  IN  [data |-> [i \in 0 .. Length - 1 |->
                   IF i \in start .. start + BlockSize - 1 THEN i - start
                   ELSE IF line.data[i] = None THEN None
                   ELSE line.data[i] - BlockSize],
       samples |-> wrap(line.samples + BlockSize, Length),
       block |-> start]

delay_is_valid(delay) ==
  /\ delay >= - InitialDelay
  /\ delay < 0 \/ delay + InitialDelay <= MaxDelay + InitialDelay

get_read_circulator(line, delay) == wrap(line.samples - (delay + InitialDelay), Length)

\* What the output hears that reads a block from there on.
read_block(line, delay) ==
  [k \in 0 .. BlockSize - 1 |-> line.data[wrap(get_read_circulator(line, delay) + k, Length)]]
==============================================================================
