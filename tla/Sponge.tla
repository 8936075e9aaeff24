------------------------------- MODULE Sponge -------------------------------
(***************************************************************************)
(* core/shake256.cpp: the absorb, pad and squeeze loops of shake256 around *)
(* the permutation.  The permutation is ideal: a state is named by the     *)
(* blocks xored into it before each permutation, so two states are equal   *)
(* only if all of these are.  A byte is the set of its bits, and bytes of  *)
(* a message count from 1 where the code counts from 0.                    *)
(***************************************************************************)
EXTENDS Integers, Sequences

CONSTANTS Rate,        \* kShake256RateBytes
          WordBytes    \* sizeof(std::uint64_t)

ASSUME SpongeAssumption ==
  /\ WordBytes \in Nat \ {0}
  /\ Rate \in Nat \ {0} /\ Rate % WordBytes = 0

Byte == SUBSET (0 .. 7)
Suffix == 0 .. 4       \* kShakeDomainSuffix, 0x1f
LastBit == {7}         \* 0x80
Xor(a, b) == (a \ b) \union (b \ a)

Cells == 0 .. Rate - 1
Blocks == [Cells -> Byte]
Zero == [i \in Cells |-> {}]
NoByte == <<0, 0>>     \* output bytes are zero until they are squeezed

VARIABLES input, output_size,   \* the arguments
          offset,               \* into input
          absorbed,             \* what was xored into the state before each permutation
          produced, output,     \* output[k]: <<permutations, byte of the state>>
          pc                    \* "idle", "absorb", "squeeze" or "returned"

sponge_vars == <<input, output_size, offset, absorbed, produced, output, pc>>

Idle ==
  /\ input = <<>> /\ output_size = 0 /\ offset = 0 /\ absorbed = <<>>
  /\ produced = 0 /\ output = <<>> /\ pc = "idle"

Start(message, size) ==
  /\ pc \in {"idle", "returned"}
  /\ input' = message /\ output_size' = size
  /\ offset' = 0 /\ absorbed' = <<>> /\ produced' = 0 /\ output' = <<>>
  /\ pc' = "absorb"

\* keccak_f1600 after block b was xored into the state.
Permute(b) == absorbed' = Append(absorbed, b)

\* Mutant: a message of whole blocks keeps its last one for the padding.
BlockLeftStrictly == offset + Rate < Len(input)

BlockLeft == offset + Rate <= Len(input)

AbsorbBlock ==
  /\ pc = "absorb" /\ BlockLeft
  /\ Permute([i \in Cells |-> input[offset + i + 1]])
  /\ offset' = offset + Rate
  /\ UNCHANGED <<input, output_size, produced, output, pc>>

\* The last block: what remains of the input, the suffix behind it, the last bit.
LastBlock ==
  LET remaining == Len(input) - offset
      From(i) == IF i < remaining THEN input[offset + i + 1] ELSE {}
  IN  [i \in Cells |-> Xor(Xor(From(i), IF i = remaining THEN Suffix ELSE {}),
                           IF i = Rate - 1 THEN LastBit ELSE {})]

AbsorbLast ==
  /\ pc = "absorb" /\ ~BlockLeft
  /\ Permute(LastBlock)
  /\ output' = [k \in 1 .. output_size |-> NoByte]
  /\ pc' = "squeeze"
  /\ UNCHANGED <<input, output_size, offset, produced>>

\* Mutant: whole blocks only.
ChunkOfRate == Rate

Chunk == IF output_size - produced < Rate THEN output_size - produced ELSE Rate

StateByte(word, b) == <<Len(absorbed), word * WordBytes + b>>

\* Byte j of a chunk: from the whole words, or from the word stored into tail.
Squeezed(chunk, j) ==
  LET whole == chunk \div WordBytes IN
  IF j < whole * WordBytes THEN StateByte(j \div WordBytes, j % WordBytes)
  ELSE StateByte(whole, j - whole * WordBytes)

SqueezeAtLeast(n) ==
  /\ pc = "squeeze" /\ produced < output_size /\ Chunk >= n
  /\ output' = [k \in 1 .. output_size |->
                  IF produced < k /\ k <= produced + Chunk
                  THEN Squeezed(Chunk, k - 1 - produced) ELSE output[k]]
  /\ produced' = produced + Chunk
  /\ IF produced' < output_size THEN Permute(Zero) ELSE UNCHANGED absorbed
  /\ UNCHANGED <<input, output_size, offset, pc>>

\* Mutant: a chunk shorter than a word is passed over, and the loop spins.
SqueezeWords == SqueezeAtLeast(WordBytes)

Squeeze == SqueezeAtLeast(0)

Return ==
  /\ pc = "squeeze" /\ produced >= output_size
  /\ pc' = "returned"
  /\ UNCHANGED <<input, output_size, offset, absorbed, produced, output>>

----------------------------------------------------------------------------
(* The reference: FIPS 202's SHAKE256 over byte strings, bit by bit. *)

PaddedLength(m) == (Len(m) \div Rate + 1) * Rate

\* Bit p of the message, the bits 1111, and the padding 1 0..0 1 to whole blocks.
PaddedBit(m, p) ==
  IF p < 8 * Len(m) THEN p % 8 \in m[p \div 8 + 1]
  ELSE p < 8 * Len(m) + 5 \/ p = 8 * PaddedLength(m) - 1

PaddedBlock(m, n) == [i \in Cells |-> {b \in 0 .. 7 : PaddedBit(m, 8 * (n * Rate + i) + b)}]

\* What is xored in before each permutation: the padded blocks, and blocks of zeros
\* while output is wanted.
Zeros(size) == IF size = 0 THEN 0 ELSE (size - 1) \div Rate

ReferenceBlocks(m, size) ==
  LET padded == Len(m) \div Rate + 1
  IN  [n \in 1 .. padded + Zeros(size) |-> IF n <= padded THEN PaddedBlock(m, n - 1) ELSE Zero]

\* Byte k of the output, from 0.
ReferenceByte(m, k) == <<Len(m) \div Rate + 1 + k \div Rate, k % Rate>>

Reference(m, size) == <<ReferenceBlocks(m, size), [k \in 1 .. size |-> ReferenceByte(m, k - 1)]>>

----------------------------------------------------------------------------
(* Properties *)

SpongeTypeOK ==
  /\ input \in Seq(Byte) /\ output_size \in Nat
  /\ offset \in 0 .. Len(input)
  /\ absorbed \in Seq(Blocks)
  /\ produced \in 0 .. output_size
  /\ \E n \in {0, output_size} : output \in [1 .. n -> Nat \X Cells]
  /\ pc \in {"idle", "absorb", "squeeze", "returned"}

\* shake256 returns SHAKE256 of its input, whether the input or the output ends
\* inside a block, inside a word or at the end of either (shake256.cpp:88-127).
OutputIsSponge ==
  pc = "returned" => <<absorbed, output>> = Reference(input, output_size)
=============================================================================
