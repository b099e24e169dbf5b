--------------------------- MODULE PlayoutAdapter ---------------------------
(***************************************************************************)
(* The example's playout callbacks: the device asks for any number of      *)
(* samples, mix, Read and Resample come in blocks, what is left of a block *)
(* is kept for the next callback.  deliverMixedData, deliverAnyDecodedData *)
(* and deliverResampledData have the same shape; they differ in what they  *)
(* take for the size of a block.  Sizes are in samples; the samples that   *)
(* mix, Read and Resample write are numbered 1, 2, 3, ..., and whatever    *)
(* else a block holds is Stale: memory malloc returned, an earlier block,  *)
(* or input that was not read again.                                       *)
(***************************************************************************)
EXTENDS Integers, Sequences, TestMembers

CONSTANTS
  BlockSize,   \* of 10 ms, or of the mixer's frame
  Results,     \* what Read returns before the end of the file: whole blocks for the
               \* 48 kHz file of doDecodeAny, which is not converted
  Resampled,   \* new samples at the start of _buffer after read and Resample: fewer
               \* than BlockSize while libswresample holds its delay back, at the
               \* end of the input, and none when a call fails
  Requests,    \* samples the device asks for
  MaxPlayed    \* bound: samples the device asks for in a behaviour

ASSUME PlayoutConfig ==
  /\ BlockSize \in Nat \ {0} /\ MaxPlayed \in Nat
  /\ Results \subseteq 0..BlockSize /\ Resampled \subseteq 0..BlockSize
  /\ Requests \subseteq Nat

VARIABLES
  first, size,     \* the block in hand: its first sample, and how many are new
  wantedSize,      \* what the running callback still needs
  produced,        \* history: samples of all blocks of this test
  missing,         \* history: samples by which Resample fell short of its blocks
  played           \* history: the samples copied to the device, in order

blockVars == <<first, size, wantedSize, produced, missing, played>>
playoutVars == <<_testType, _remainingData, blockVars>>

PlayoutTests == {"TEST_MIX", "TEST_DECODE_ANY", "TEST_RESAMPLE"}

\* A test begins with nothing in hand.
PlayoutInit ==
  /\ _remainingData = 0
  /\ first = 1 /\ size = 0 /\ wantedSize = 0
  /\ produced = 0 /\ missing = 0 /\ played = << >>

MIN(a, b) == IF a < b THEN a ELSE b

Stale == 0

\* What position i of a block holds, whose first n positions were written.
Sample(from, n, i) == IF i <= n THEN from + i - 1 ELSE Stale

\* memcpy of n samples of the block in hand (after the step), from an offset on.
Copy(offset, n) ==
  played' = [i \in 1..(Len(played) + n) |->
               IF i <= Len(played) THEN played[i]
               ELSE Sample(first', size', offset + (i - Len(played)))]

\* The mixer's buffer knows its size, the others are taken for BlockSize.
BlockEnd == IF _testType = "TEST_MIX" THEN size ELSE BlockSize

\* A callback for n samples begins with what remains.
Deliver(n) ==
  /\ wantedSize = 0 /\ Len(played) + n <= MaxPlayed
  /\ UNCHANGED <<_testType, first, size, produced, missing>>
  /\ Copy(BlockEnd - _remainingData, MIN(_remainingData, n))
  /\ _remainingData' = _remainingData - MIN(_remainingData, n)
  /\ wantedSize' = n - MIN(_remainingData, n)

\* deliverResampledData ignores what read and Resample return.
TakenFor(result) == IF _testType = "TEST_RESAMPLE" THEN BlockSize ELSE result

\* One round of its loop.
NextBlock(result) ==
  /\ wantedSize > 0
  /\ first' = produced + 1 /\ size' = result /\ produced' = produced + result
  /\ missing' = missing + TakenFor(result) - result
  /\ LET n == MIN(TakenFor(result), wantedSize)
     IN  /\ Copy(0, n)
         /\ wantedSize' = wantedSize - n
         /\ _remainingData' = TakenFor(result) - n
  /\ UNCHANGED _testType

\* The new samples a block can hold; mix always returns a whole frame.
BlocksOf(t) == CASE t = "TEST_DECODE_ANY" -> Results
                 [] t = "TEST_RESAMPLE"   -> Resampled
                 [] OTHER                 -> {BlockSize}

\* One test.
PlayoutNext ==
  \/ \E n \in Requests : Deliver(n)
  \/ \E result \in BlocksOf(_testType) : NextBlock(result)

PlayoutSpec == _testType \in PlayoutTests /\ PlayoutInit /\ [][PlayoutNext]_playoutVars

------------------------------------------------------------------------------
\* New samples in what remains of the block in hand.
Pending == IF size > BlockEnd - _remainingData THEN size - (BlockEnd - _remainingData) ELSE 0

\* s holds 1..n, each once and in order, and besides them only Stale.
Ordered(s, n) ==
  /\ {s[i] : i \in 1..Len(s)} \ {Stale} = 1..n
  /\ \A i, j \in 1..Len(s) : i < j /\ s[i] # Stale /\ s[j] # Stale => s[i] < s[j]

\* The device got every new sample but the pending ones, and as many stale ones
\* as Resample fell short of, those that remain of the block in hand included.
InOrder ==
  /\ Ordered(played, produced - Pending)
  /\ Len(played) + _remainingData = produced + missing

\* However the device's requests and the blocks overlap, the playout callbacks
\* lose, repeat and reorder no new sample of a test; what is not new among the
\* samples played is what the ignored results of read and Resample were short of,
\* so deliverMixedData and deliverAnyDecodedData play nothing of the kind.
PlayedInOrder == _testType \in PlayoutTests => InOrder
=============================================================================
