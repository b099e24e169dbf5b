------------------------ MODULE AudioFileSourceProofs ------------------------
(***************************************************************************)
(* Theorems about AudioFileSource with its decoder, resampler and volume:  *)
(* the resampler never leaves anything behind, frames are whole, a file    *)
(* ends only at its end, and a frame's gain is near the volumes set.       *)
(***************************************************************************)
EXTENDS AudioFileSource, AudioFileDecoderProofs

------------------------------------------------------------------------------
(* Hypotheses *)

\* Both rates are cut into whole frames (10 ms at every multiple of 100, ...).
WholeFrames ==
  /\ SampleRate = input_samples_ * (1000 \div frame_duration_ms_)
  /\ OutputRate = real_output_samples_ * (1000 \div frame_duration_ms_)

\* Files whose packets are not corrupt and give at least what one Read asks for,
\* samples of the two bytes Consume counts, and frames that fit into fifo_.
LongPackets ==
  /\ InputBytes = 2 /\ input_samples_ > 0 /\ input_samples_ <= fifo_capacity_
  /\ \A f \in Files : \A i \in DOMAIN f :
       /\ f[i].kind # "corrupt"
       /\ f[i].kind = "audio" => f[i].samples >= input_samples_

\* At most one read of the file fails, and then the codec can hold a frame more
\* than it gives away at once.
RareTrouble == MaxTrouble \in {0, 1} /\ CodecRoom > MaxTrouble

------------------------------------------------------------------------------
(* Inductive invariants *)

\* ApplyVolume: what the reads of volume_ found was in the range seen.
GainInv ==
  /\ volume_ \in Nat /\ gain \in Nat /\ \A v \in seen : v \in Nat
  /\ stage \in {"idle", "low", "high", "scale"}
  /\ stage # "idle" => volume_ \in seen
  /\ stage = "high" => \E v \in seen : v >= 99
  /\ GainWithinRange

ResamplerInv == ResamplerTypeOK /\ NothingPending

\* No audio is left in the file or in hand.
AtEnd == packet_consumed_ /\ \A i \in DOMAIN file : file[i].kind # "audio"

\* Nothing is left to be handed out: this stays so.
Drained == AtEnd /\ fifo_ = << >> /\ Ready <= 0

\* One Read, or two, can be served without reading from the file.
ServesOne == Ready >= 1 \/ Len(fifo_) >= input_samples_
ServesTwo ==
  \/ Ready >= 2
  \/ Ready >= 1 /\ Len(fifo_) >= input_samples_
  \/ Len(fifo_) >= 2 * input_samples_

\* All packets are as long as LongPackets says, wherever they are.
LongInv ==
  /\ \A i \in DOMAIN file : /\ file[i].kind # "corrupt"
                            /\ file[i].kind = "audio" => file[i].samples >= input_samples_
  /\ packet_consumed_ \/ packet_.samples >= input_samples_
  /\ \A i \in DOMAIN codec : codec[i].samples >= input_samples_
  /\ pc \in {"FillDecoder", "FillFifo", "read"} => wanted = input_samples_

\* Before the end there is always enough for the Read that goes on, and, while a
\* read may still fail, for the one after it.
StockInv ==
  /\ trouble <= MaxTrouble
  /\ pc \in {"idle", "FillDecoder"} => AtEnd \/ trouble = MaxTrouble \/ ServesOne
  /\ pc \in {"FillFifo", "read"} =>
       AtEnd \/ (ServesOne /\ (trouble = MaxTrouble \/ ServesTwo))
  /\ pc = "read" /\ Len(fifo_) < input_samples_ => AtEnd /\ Ready <= 0

\* What the decoder handed over was heard, swallowed by failing resamplings, or
\* is the tail of a file that is drained.
TailInv ==
  /\ heard \in Seq(Nat) /\ errors \in Nat
  /\ answer = "eof" => Drained
  /\ \/ Len(delivered) - Len(heard) = errors * input_samples_
     \/ Drained /\ OnlyTailUnheard

EndInv == DecoderInv /\ LongInv /\ StockInv /\ TailInv

------------------------------------------------------------------------------
(* What a step of the source is to each of its parts *)

LEMMA PartsOfStep ==
  ASSUME [SourceNext]_allVars
  PROVE  /\ \/ Consume(input_samples_) \/ Decode \/ ConsumeReturn
            \/ UNCHANGED decoderVars
         /\ (ConsumeReturn /\ Resample(consumed')) \/ UNCHANGED resamplerVars
         /\ \/ Call \/ ApplyVolume \/ UNCHANGED volumeVars
            \/ \E volume \in Volumes : UpdateVolume(volume)
<1>1. ASSUME NEW rate \in AskedRates, GetAudioFrameWithInfo(rate)
      PROVE  /\ Consume(input_samples_) \/ UNCHANGED decoderVars
             /\ UNCHANGED resamplerVars /\ UNCHANGED volumeVars
  BY <1>1 DEF GetAudioFrameWithInfo, sourceVars
<1>2. CASE Decode /\ UNCHANGED <<sourceVars, volumeVars>>
  BY <1>2 DEF sourceVars
<1>3. CASE Read
  BY <1>3 DEF Read, ResampleConsumed
<1>4. CASE ApplyVolume /\ UNCHANGED <<decoderVars, sourceVars>>
  BY <1>4 DEF sourceVars
<1>5. ASSUME NEW volume \in Volumes,
             UpdateVolume(volume) /\ UNCHANGED <<decoderVars, sourceVars>>
      PROVE  /\ UNCHANGED decoderVars /\ UNCHANGED resamplerVars
             /\ \E v \in Volumes : UpdateVolume(v)
  BY <1>5 DEF sourceVars
<1>6. CASE UNCHANGED allVars
  BY <1>6 DEF allVars, sourceVars
<1> QED
  BY <1>1, <1>2, <1>3, <1>4, <1>5, <1>6 DEF SourceNext, Reading

------------------------------------------------------------------------------
(* Volume *)

\* Whatever UpdateVolume stores between the reads of ApplyVolume, a frame gets a
\* gain within one percent of the range of the volumes set meanwhile: for every
\* set of volumes, and whatever the decoder and the resampler do.
THEOREM GainInRange == SourceSpec => []GainWithinRange
<1>1. SourceInit => GainInv
  BY VolumeConfig DEF SourceInit, VolumeInit, GainInv, GainWithinRange
<1>2. GainInv /\ [SourceNext]_allVars => GainInv'
  <2> SUFFICES ASSUME GainInv, [SourceNext]_allVars PROVE GainInv'
    OBVIOUS
  <2> USE DEF GainInv, GainWithinRange
  <2>1. CASE Call
    BY <2>1 DEF Call
  <2>2. CASE TestLow
    BY <2>2 DEF TestLow
  <2>3. CASE TestHigh
    BY <2>3 DEF TestHigh
  <2>4. CASE Scale
    BY <2>4 DEF Scale
  <2>5. ASSUME NEW volume \in Volumes, UpdateVolume(volume) PROVE GainInv'
    BY <2>5, VolumeConfig DEF UpdateVolume
  <2>6. CASE UNCHANGED volumeVars
    BY <2>6 DEF volumeVars
  <2> QED
    BY <2>1, <2>2, <2>3, <2>4, <2>5, <2>6, PartsOfStep DEF ApplyVolume
<1>3. GainInv => GainWithinRange
  BY DEF GainInv
<1> QED
  BY <1>1, <1>2, <1>3, PTL DEF SourceSpec

------------------------------------------------------------------------------
(* Resampler *)

\* Integer division: q is the quotient of a by b exactly when it brackets a.
LEMMA Quotient ==
  ASSUME NEW a \in Nat, NEW b \in Nat \ {0}
  PROVE  /\ a \div b \in Nat
         /\ (a \div b) * b <= a
         /\ a < (a \div b) * b + b
  OBVIOUS

\* A quotient below a multiple.
LEMMA QuotientBelow ==
  ASSUME NEW a \in Nat, NEW b \in Nat \ {0}, NEW q \in Nat, a < (q + 1) * b
  PROVE  a \div b <= q
<1> DEFINE d == a \div b
<1>1. d \in Nat /\ d * b <= a
  BY Quotient
<1>2. SUFFICES ASSUME d >= q + 1 PROVE FALSE
  BY <1>1
<1>3. PICK k \in Nat : d = (q + 1) + k
  <2>1. d - (q + 1) \in Nat /\ d = (q + 1) + (d - (q + 1))
    BY <1>1, <1>2
  <2> QED BY <2>1
<1>4. d * b = (q + 1) * b + k * b /\ k * b \in Nat /\ (q + 1) * b \in Nat
  BY <1>3
<1> QED
  BY <1>1, <1>4

\* The quotient of at most a sum is at most the quotient of one part, rounded
\* down, plus that of the other, rounded up.
LEMMA QuotientOfSum ==
  ASSUME NEW x \in Nat, NEW y \in Nat, NEW z \in Nat, NEW b \in Nat \ {0}, z <= x + y
  PROVE  z \div b <= x \div b + (y + b - 1) \div b
<1> DEFINE p == x \div b
           u == y + b - 1
           q == u \div b
<1>0. u \in Nat
  OBVIOUS
<1>1. p \in Nat /\ x < p * b + b
  BY Quotient
<1>2. q \in Nat /\ u < q * b + b
  BY <1>0, Quotient
<1>3. (p + q + 1) * b = p * b + q * b + b /\ p * b \in Nat /\ q * b \in Nat
  BY <1>1, <1>2
<1>4. z < ((p + q) + 1) * b
  <2> HIDE DEF p, q
  <2> QED BY <1>1, <1>2, <1>3
<1>5. p + q \in Nat 
  BY <1>1, <1>2
<1> HIDE DEF p, q, u
<1>6. z \div b <= p + q
  BY <1>4, <1>5, QuotientBelow
<1> QED
  BY <1>6 DEF p, q, u

\* Quotients are monotonic.
LEMMA QuotientMonotonic ==
  ASSUME NEW x \in Nat, NEW z \in Nat, NEW b \in Nat \ {0}, x <= z
  PROVE  x \div b <= z \div b
<1> DEFINE q == z \div b
<1>1. q \in Nat /\ z < q * b + b /\ q * b + b = (q + 1) * b
  BY Quotient
<1>2. x < (q + 1) * b
  BY <1>1
<1> HIDE DEF q
<1>3. x \div b <= q
  BY <1>1, <1>2, QuotientBelow
<1> QED
  BY <1>3 DEF q

\* The samples past the delay.
Past(n) == IF n <= Delay THEN 0 ELSE n - Delay

\* What one call makes available is not negative and fits into its Room.
LEMMA RoomIsEnough ==
  ASSUME NEW f \in Nat, NEW n \in Nat
  PROVE  /\ Available(f) \in Nat /\ Available(f + n) \in Nat /\ Room(n) \in Nat
         /\ Available(f) <= Available(f + n)
         /\ Available(f + n) <= Available(f) + Room(n)
<1> DEFINE x == Past(f) * OutputRate
           y == n * OutputRate
           z == Past(f + n) * OutputRate
<1> USE ResamplerConfig
<1>1. Past(f) \in Nat /\ Past(f + n) \in Nat
  BY DEF Past
<1>2. x \in Nat /\ y \in Nat /\ z \in Nat
  BY <1>1
<1>3. Past(f) <= Past(f + n) /\ Past(f + n) <= Past(f) + n
  BY DEF Past
<1>4. x <= z
  <2>1. PICK k \in Nat : Past(f + n) = Past(f) + k
    <3>1. Past(f + n) - Past(f) \in Nat
      BY <1>1, <1>3
    <3> QED BY <1>1, <3>1
  <2>2. z = x + k * OutputRate /\ k * OutputRate \in Nat
    BY <1>1, <2>1
  <2> QED BY <1>2, <2>2
<1>5. z <= x + y
  <2>1. PICK k \in Nat : Past(f) + n = Past(f + n) + k
    <3>1. Past(f) + n - Past(f + n) \in Nat
      BY <1>1, <1>3
    <3> QED BY <1>1, <3>1
  <2>2. x + y = z + k * OutputRate /\ k * OutputRate \in Nat
    <3>1. x + y = (Past(f) + n) * OutputRate
      BY <1>1
    <3> QED BY <1>1, <2>1, <3>1
  <2> QED BY <1>2, <2>2
<1>6. Available(f) = x \div InputRate /\ Available(f + n) = z \div InputRate
  <2>1. 0 * OutputRate = 0 /\ 0 \div InputRate = 0
    OBVIOUS
  <2> QED BY <2>1 DEF Available, Worth, Past
<1>7. Room(n) = (y + InputRate - 1) \div InputRate /\ y + InputRate - 1 \in Nat
  BY <1>2 DEF Room
<1> HIDE DEF x, y, z
<1>8. x \div InputRate <= z \div InputRate
  BY <1>2, <1>4, QuotientMonotonic
<1>9. z \div InputRate <= x \div InputRate + (y + InputRate - 1) \div InputRate
  BY <1>2, <1>5, QuotientOfSum
<1>10. /\ x \div InputRate \in Nat /\ z \div InputRate \in Nat
       /\ (y + InputRate - 1) \div InputRate \in Nat
  BY <1>2, <1>7, Quotient
<1> QED
  BY <1>6, <1>7, <1>8, <1>9, <1>10

\* The size of a buffer is an integer.
LEMMA OutputSizeInt ==
  ASSUME NEW n \in Nat
  PROVE  OutputSize(n) \in Int
<1>1. n + 31 \in Nat /\ 32 \in Nat \ {0}
  OBVIOUS
<1>2. (n + 31) \div 32 \in Nat
  BY <1>1, Quotient
<1> DEFINE q == (n + 31) \div 32
<1> HIDE DEF q
<1>3. OutputSize(n) = IF n = 0 THEN -22 ELSE 32 * q * OutputChannels * 2
  BY DEF OutputSize, q
<1>4. q \in Int /\ OutputChannels \in Int
  BY <1>2, ResamplerConfig DEF q
<1>5. 32 * q * OutputChannels * 2 \in Int
  BY <1>4
<1> QED
  BY <1>3, <1>5

\* libswresample hands out all that a call makes available.
LEMMA ConvertsAll ==
  ASSUME ResamplerInv, NEW n \in Nat
  PROVE  /\ SwrConvert(n) = Available(fed + n) - Available(fed) /\ SwrConvert(n) \in Nat
         /\ Available(fed) \in Nat /\ Available(fed + n) \in Nat
<1>1. /\ Available(fed) \in Nat /\ Available(fed + n) \in Nat /\ Room(n) \in Nat
      /\ Available(fed) <= Available(fed + n)
      /\ Available(fed + n) <= Available(fed) + Room(n)
  BY RoomIsEnough DEF ResamplerInv, ResamplerTypeOK
<1> QED
  BY <1>1 DEF SwrConvert, Less, ResamplerInv, NothingPending

\* One call of Resample, whatever the size of its input.
LEMMA ResampleKeeps ==
  ASSUME ResamplerInv, NEW input_size \in Nat, Resample(input_size)
  PROVE  ResamplerInv'
<1> USE DEF ResamplerInv, ResamplerTypeOK, NothingPending
<1> DEFINE n == InputSamples(input_size)
<1>1. n \in Nat
  <2>1. input_size \div InputChannels \in Nat
    BY ResamplerConfig, Quotient
  <2> QED BY <2>1, ResamplerConfig, Quotient DEF InputSamples
<1>2. input' = n
  BY DEF Resample
<1> HIDE DEF n
<1>3. CASE /\ written' = SwrConvert(n) /\ fed' = fed + n /\ made' = made + written'
           /\ resampled' = OutputSize(written')
  <2>1. /\ SwrConvert(n) = Available(fed + n) - Available(fed) /\ SwrConvert(n) \in Nat
        /\ Available(fed) \in Nat /\ Available(fed + n) \in Nat
    BY <1>1, ConvertsAll
  <2>2. made' = Available(fed') /\ made' \in Nat /\ written' \in Nat /\ fed' \in Nat
    BY <1>1, <1>3, <2>1
  <2>3. resampled' \in Int
    BY <1>3, <2>2, OutputSizeInt
  <2> QED BY <1>1, <1>2, <2>2, <2>3
<1>4. CASE written' = 0 /\ resampled' = -1 /\ UNCHANGED <<fed, made>>
  BY <1>1, <1>2, <1>4
<1> QED
  BY <1>2, <1>3, <1>4 DEF Resample, n

LEMMA ResamplerStart == ResamplerInit => ResamplerInv
  BY ResamplerConfig DEF ResamplerInit, ResamplerInv, ResamplerTypeOK, NothingPending, Available

\* On its own, the resampler keeps its invariant for inputs of any sizes.
LEMMA ResamplerInvariant == ResamplerSpec => []ResamplerInv
<1>1. ResamplerInv /\ [ResamplerNext]_resamplerVars => ResamplerInv'
  <2> SUFFICES ASSUME ResamplerInv, [ResamplerNext]_resamplerVars PROVE ResamplerInv'
    OBVIOUS
  <2>1. ASSUME NEW input_size \in InputSizes, Resample(input_size) PROVE ResamplerInv'
    BY <2>1, ResampleKeeps, ResamplerConfig
  <2>2. CASE UNCHANGED resamplerVars
    BY <2>2 DEF resamplerVars, ResamplerInv, ResamplerTypeOK, NothingPending
  <2> QED
    BY <2>1, <2>2 DEF ResamplerNext
<1> QED
  BY ResamplerStart, <1>1, PTL DEF ResamplerSpec

\* Type correctness of the resampler's counters.
THEOREM ResamplerTypeCorrect == ResamplerSpec => []ResamplerTypeOK
<1>1. ResamplerInv => ResamplerTypeOK
  BY DEF ResamplerInv
<1> QED
  BY ResamplerInvariant, <1>1, PTL

\* Every call of Resample takes all that libswresample can deliver.
THEOREM NothingIsPending == ResamplerSpec => []NothingPending
<1>1. ResamplerInv => NothingPending
  BY DEF ResamplerInv
<1> QED
  BY ResamplerInvariant, <1>1, PTL

------------------------------------------------------------------------------
(* The decoder and the resampler inside the source *)

\* Read asks for a number of samples.
LEMMA FrameLengths == input_samples_ \in Nat /\ real_output_samples_ \in Nat
<1>1. 1000 \div frame_duration_ms_ \in Nat \ {0}
  BY SourceConfig
<1> QED
  BY <1>1, DecoderConfig, ResamplerConfig, Quotient
  DEF input_samples_, real_output_samples_, RealSamples

LEMMA PartsInvariant == SourceSpec => [](DecoderInv /\ ResamplerInv)
<1>1. SourceInit => DecoderInv /\ ResamplerInv
  BY DecoderStart, ResamplerStart DEF SourceInit
<1>2. DecoderInv /\ ResamplerInv /\ [SourceNext]_allVars => DecoderInv' /\ ResamplerInv'
  <2> SUFFICES ASSUME DecoderInv, ResamplerInv, [SourceNext]_allVars
               PROVE  DecoderInv' /\ ResamplerInv'
    OBVIOUS
  <2>1. DecoderInv'
    BY PartsOfStep, FrameLengths, ConsumeKeeps, DecodeKeeps, ConsumeReturnKeeps, DecoderStutters
  <2>2. consumed' \in Nat
    BY <2>1 DEF DecoderInv, DecoderTypeOK
  <2>3. ASSUME UNCHANGED resamplerVars PROVE ResamplerInv'
    BY <2>3 DEF resamplerVars, ResamplerInv, ResamplerTypeOK, NothingPending
  <2> QED
    BY <2>1, <2>2, <2>3, PartsOfStep, ResampleKeeps
<1> QED
  BY <1>1, <1>2, PTL DEF SourceSpec

\* Inside the source, whatever the mixer asks for and whatever fails, every sample
\* read from the file is kept in order until it is handed over, and every call of
\* Resample takes all that libswresample can deliver.
THEOREM SourceKeepsSamples ==
  SourceSpec => [](ResamplerTypeOK /\ NothingPending /\ NothingLost /\ FifoBounded)
<1>1. DecoderInv /\ ResamplerInv =>
        ResamplerTypeOK /\ NothingPending /\ NothingLost /\ FifoBounded
  BY DEF DecoderInv, ResamplerInv
<1> QED
  BY PartsInvariant, <1>1, PTL

------------------------------------------------------------------------------
(* Whole frames *)

\* What brackets a number is its quotient.
LEMMA QuotientIs ==
  ASSUME NEW a \in Nat, NEW b \in Nat \ {0}, NEW q \in Nat, q * b <= a, a < q * b + b
  PROVE  a \div b = q
<1> DEFINE d == a \div b
<1>1. d \in Nat /\ d * b <= a /\ a < d * b + b
  BY Quotient
<1>2. d <= q
  <2>1. a < (q + 1) * b
    OBVIOUS
  <2> QED BY <2>1, QuotientBelow
<1>3. SUFFICES ASSUME d < q PROVE FALSE
  BY <1>1, <1>2
<1> HIDE DEF d
<1>4. PICK k \in Nat : q = d + 1 + k
  <2>1. q - (d + 1) \in Nat /\ q = d + 1 + (q - (d + 1))
    BY <1>1, <1>3
  <2> QED BY <2>1
<1>5. q * b = d * b + b + k * b /\ k * b \in Nat /\ d * b \in Nat
  BY <1>1, <1>4
<1> QED
  BY <1>1, <1>5

\* A multiple adds its factor to a quotient.
LEMMA QuotientOfShift ==
  ASSUME NEW a \in Nat, NEW b \in Nat \ {0}, NEW k \in Nat
  PROVE  (a + k * b) \div b = a \div b + k
<1> DEFINE q == a \div b
<1>1. q \in Nat /\ q * b <= a /\ a < q * b + b
  BY Quotient
<1> HIDE DEF q
<1>2. (q + k) * b = q * b + k * b /\ q * b \in Nat /\ k * b \in Nat
  BY <1>1
<1>3. a + k * b \in Nat /\ q + k \in Nat
      /\ (q + k) * b <= a + k * b /\ a + k * b < (q + k) * b + b
  BY <1>1, <1>2
<1>4. (a + k * b) \div b = q + k
  BY <1>3, QuotientIs
<1> QED
  BY <1>4 DEF q

\* A frame of input is worth exactly a frame of output, wherever it begins.
LEMMA FrameWorth ==
  ASSUME WholeFrames, NEW n \in Nat
  PROVE  Worth(n + input_samples_) = Worth(n) + real_output_samples_
<1> DEFINE in == input_samples_
           out == real_output_samples_
           f == 1000 \div frame_duration_ms_
           a == n * OutputRate
<1>1. in \in Nat /\ out \in Nat /\ f \in Nat /\ OutputRate \in Nat /\ InputRate \in Nat \ {0}
      /\ InputRate = in * f /\ OutputRate = out * f
  BY FrameLengths, SourceConfig, ResamplerConfig DEF WholeFrames
<1> HIDE DEF in, out, f
<1>2. in * OutputRate = out * InputRate
  <2>1. in * (out * f) = out * (in * f)
    BY <1>1
  <2> QED BY <1>1, <2>1
<1>3. (n + in) * OutputRate = a + out * InputRate /\ a \in Nat
  <2>1. (n + in) * OutputRate = n * OutputRate + in * OutputRate
    BY <1>1
  <2> QED BY <1>1, <1>2, <2>1
<1> HIDE DEF a
<1>4. (a + out * InputRate) \div InputRate = a \div InputRate + out
  BY <1>1, <1>3, QuotientOfShift
<1> QED
  BY <1>3, <1>4 DEF Worth, in, out, a

\* Where a rate is cut into whole frames, every frame answered normally, but the
\* first, is exactly as long as frame_duration_ms_ says: for every pair of such
\* rates, delay of libswresample, format, file and sequence of failing calls.
THEOREM FramesAreWhole == WholeFrames => (SourceSpec => []FrameIsWhole)
<1> SUFFICES ASSUME WholeFrames PROVE SourceSpec => []FrameIsWhole
  OBVIOUS
<1>1. SourceInit => FrameIsWhole
  BY DEF SourceInit, FrameIsWhole
<1>2. DecoderInv /\ ResamplerInv /\ FrameIsWhole /\ [SourceNext]_allVars => FrameIsWhole'
  <2> SUFFICES ASSUME DecoderInv, ResamplerInv, FrameIsWhole, [SourceNext]_allVars
               PROVE  FrameIsWhole'
    OBVIOUS
  <2>1. CASE UNCHANGED <<answer, resamplerVars>> \/ answer' \in {"rate", "eof", "error"}
    BY <2>1 DEF FrameIsWhole, resamplerVars
  <2>2. ASSUME Read, consumed' = BufferSize, Resample(consumed'), resampled' >= 0
        PROVE  FrameIsWhole'
    <3>1. input' = input_samples_
      <4> DEFINE n == input_samples_
      <4>1. n \in Nat /\ ChannelNum \in Nat \ {0} /\ InputBytes \in Nat \ {0}
            /\ InputChannels = ChannelNum
        BY FrameLengths, DecoderConfig, ResamplerConfig, SourceConfig
      <4> HIDE DEF n
      <4>2. n * ChannelNum * InputBytes = (n * InputBytes) * ChannelNum
            /\ n * InputBytes \in Nat
        BY <4>1
      <4>3. ((n * InputBytes) * ChannelNum) \div ChannelNum = n * InputBytes
        <5> DEFINE m == n * InputBytes
        <5> HIDE DEF m
        <5>1. m \in Nat /\ m * ChannelNum \in Nat
          BY <4>1, <4>2 DEF m
        <5>2. (m * ChannelNum) \div ChannelNum = m
          BY <4>1, <5>1, QuotientIs
        <5> QED BY <5>2 DEF m
      <4>4. (n * InputBytes) \div InputBytes = n
        BY <4>1, <4>2, QuotientIs
      <4> QED
        BY <2>2, <4>1, <4>2, <4>3, <4>4 DEF Resample, BufferSize, InputSamples, n
    <3>2. written' = SwrConvert(input') /\ fed' = fed + input'
      BY <2>2 DEF Resample
    <3>3. /\ input_samples_ \in Nat /\ fed \in Nat /\ Delay \in Nat
          /\ written' = Available(fed + input_samples_) - Available(fed)
      BY <3>1, <3>2, ConvertsAll, FrameLengths, ResamplerConfig DEF ResamplerInv, ResamplerTypeOK
    <3>4. SUFFICES ASSUME fed >= Delay PROVE written' = real_output_samples_
      BY <3>1, <3>2, <3>3 DEF FrameIsWhole
    <3> DEFINE k == fed - Delay
    <3>5. k \in Nat /\ fed + input_samples_ - Delay = k + input_samples_
      BY <3>3, <3>4
    <3>6. Available(fed) = Worth(k)
      <4>1. Worth(0) = 0
        BY ResamplerConfig DEF Worth
      <4> QED BY <3>3, <3>4, <4>1 DEF Available
    <3>7. Available(fed + input_samples_) = Worth(k + input_samples_)
      <4>1. Worth(0) = 0
        BY ResamplerConfig DEF Worth
      <4> QED BY <3>3, <3>4, <3>5, <4>1 DEF Available
    <3>8. Worth(k) \in Nat /\ real_output_samples_ \in Nat
      BY <3>3, <3>6, ConvertsAll, FrameLengths
    <3> HIDE DEF k
    <3>9. Worth(k + input_samples_) = Worth(k) + real_output_samples_
      BY <3>5, FrameWorth
    <3> QED
      BY <3>3, <3>6, <3>7, <3>8, <3>9
  <2> QED
    BY <2>1, <2>2 DEF SourceNext, Reading, GetAudioFrameWithInfo, Read, ResampleConsumed,
                      allVars, sourceVars
<1> QED
  BY <1>1, <1>2, PartsInvariant, PTL DEF SourceSpec

------------------------------------------------------------------------------
(* The end of the file *)

\* Taking the first packet of the file.
LEMMA FirstOfFile ==
  ASSUME DecoderTypeOK, file # << >>
  PROVE  /\ 1 \in DOMAIN file /\ Head(file) = file[1] /\ Head(file) \in Packet
         /\ \A i \in DOMAIN Tail(file) : i + 1 \in DOMAIN file /\ Tail(file)[i] = file[i + 1]
<1>1. file \in Seq(Packet) /\ Len(file) \in Nat /\ Len(file) > 0
  BY DEF DecoderTypeOK
<1>2. /\ Tail(file) \in Seq(Packet) /\ Len(Tail(file)) = Len(file) - 1
      /\ \A i \in 1..Len(Tail(file)) : Tail(file)[i] = file[i + 1]
  BY <1>1, HeadTailProperties
<1>3. DOMAIN Tail(file) = 1..(Len(file) - 1) /\ DOMAIN file = 1..Len(file)
  BY <1>1, <1>2
<1> QED
  BY <1>1, <1>2, <1>3

\* Taking the first frame of the codec, and adding one.
LEMMA EndsOfCodec ==
  ASSUME DecoderTypeOK
  PROVE  /\ codec # << >> =>
              /\ 1 \in DOMAIN codec /\ Head(codec) = codec[1] /\ Head(codec) \in Chunk
              /\ Len(Tail(codec)) = Len(codec) - 1
              /\ \A i \in DOMAIN Tail(codec) :
                   i + 1 \in DOMAIN codec /\ Tail(codec)[i] = codec[i + 1]
         /\ Len(Append(codec, packet_)) = Len(codec) + 1
         /\ \A i \in DOMAIN Append(codec, packet_) :
              Append(codec, packet_)[i] = packet_
              \/ (i \in DOMAIN codec /\ Append(codec, packet_)[i] = codec[i])
<1>1. /\ codec \in Seq(Chunk) /\ Len(codec) \in Nat /\ DOMAIN codec = 1..Len(codec)
      /\ packet_ \in Chunk
  BY SequenceFacts DEF DecoderTypeOK
<1>2. ASSUME codec # << >>
      PROVE  /\ 1 \in DOMAIN codec /\ Head(codec) = codec[1] /\ Head(codec) \in Chunk
             /\ Len(Tail(codec)) = Len(codec) - 1
             /\ \A i \in DOMAIN Tail(codec) :
                  i + 1 \in DOMAIN codec /\ Tail(codec)[i] = codec[i + 1]
  <2>1. Len(codec) > 0
    BY <1>1, <1>2
  <2>2. /\ Tail(codec) \in Seq(Chunk) /\ Len(Tail(codec)) = Len(codec) - 1
        /\ \A i \in 1..Len(Tail(codec)) : Tail(codec)[i] = codec[i + 1]
    BY <1>1, <1>2, HeadTailProperties
  <2>3. DOMAIN Tail(codec) = 1..(Len(codec) - 1)
    BY <2>2
  <2> QED
    BY <1>1, <2>1, <2>2, <2>3
<1>3. /\ Append(codec, packet_) \in Seq(Chunk) /\ Len(Append(codec, packet_)) = Len(codec) + 1
      /\ \A i \in 1..Len(codec) : Append(codec, packet_)[i] = codec[i]
      /\ Append(codec, packet_)[Len(codec) + 1] = packet_
  BY <1>1, AppendProperties
<1>4. DOMAIN Append(codec, packet_) = 1..(Len(codec) + 1)
  BY <1>1, <1>3
<1> QED
  BY <1>1, <1>2, <1>3, <1>4

\* Reading: only audio packets are taken in hand; when FillDecoder ends here, the
\* file is empty, or the one failing read has happened.
LEMMA ReadFrameEnds ==
  ASSUME LongPackets, RareTrouble, DecoderInv, LongInv, StockInv, ReadFrame
  PROVE  LongInv' /\ StockInv' /\ (AtEnd => AtEnd') /\ UNCHANGED <<codec, fifo_, delivered>>
<1>0. /\ DecoderTypeOK /\ packet_consumed_ /\ FillsDecoder
      /\ UNCHANGED <<codec, fifo_, wanted, consumed, delivered>>
      /\ trouble \in Nat /\ MaxTrouble \in {0, 1}
  BY DEF DecoderInv, DecoderTypeOK, ReadFrame, RareTrouble
<1>1. CASE /\ file = << >> /\ pc' = AfterFillDecoder
           /\ UNCHANGED <<file, packet_, packet_consumed_, read, trouble>>
  <2>1. AtEnd /\ AtEnd'
    BY <1>0, <1>1 DEF AtEnd
  <2> QED
    BY <1>0, <1>1, <2>1 DEF LongInv, StockInv, FillsDecoder, AfterFillDecoder, Ready
<1>2. CASE /\ trouble < MaxTrouble /\ pc' = AfterFillDecoder /\ trouble' = trouble + 1
           /\ UNCHANGED <<file, packet_, packet_consumed_, read>>
  <2>1. trouble = 0 /\ trouble' = MaxTrouble
    BY <1>0, <1>2
  <2>2. pc = "FillDecoder" => AtEnd \/ ServesOne
    BY <1>2, <2>1 DEF StockInv
  <2>3. (AtEnd <=> AtEnd') /\ (ServesOne <=> ServesOne')
    BY <1>0, <1>2 DEF AtEnd, ServesOne, Ready
  <2>4. StockInv'
    BY <1>0, <1>2, <2>1, <2>2, <2>3 DEF StockInv, FillsDecoder, AfterFillDecoder
  <2>5. LongInv'
    BY <1>0, <1>2 DEF LongInv, FillsDecoder, AfterFillDecoder
  <2> QED
    BY <1>0, <2>3, <2>4, <2>5
<1>3. ASSUME file # << >>, file' = Tail(file), UNCHANGED <<pc, trouble>>,
             \/ Head(file).kind = "other" /\ UNCHANGED <<packet_, packet_consumed_>>
             \/ /\ Head(file).kind # "other" /\ packet_consumed_' = FALSE
                /\ packet_' = [from |-> read, samples |-> Head(file).samples]
      PROVE  LongInv' /\ StockInv' /\ (AtEnd => AtEnd')
  <2>1. /\ 1 \in DOMAIN file /\ Head(file) = file[1] /\ Head(file) \in Packet
        /\ \A i \in DOMAIN file' : i + 1 \in DOMAIN file /\ file'[i] = file[i + 1]
    BY <1>0, <1>3, FirstOfFile
  <2>2. Head(file).kind # "other" => /\ Head(file).kind = "audio"
                                     /\ Head(file).samples >= input_samples_
    BY <2>1 DEF LongInv, Packet
  <2>3. LongInv'
    <3>1. \A i \in DOMAIN file' :
            /\ file'[i].kind # "corrupt"
            /\ file'[i].kind = "audio" => file'[i].samples >= input_samples_
      BY <2>1 DEF LongInv
    <3>2. packet_consumed_' \/ packet_'.samples >= input_samples_
      <4>1. CASE Head(file).kind = "other"
        BY <1>0, <1>3, <4>1
      <4>2. CASE Head(file).kind # "other"
        <5>1. packet_'.samples = Head(file).samples
          BY <1>3, <4>2
        <5> QED BY <2>2, <4>2, <5>1
      <4> QED BY <4>1, <4>2
    <3> QED
      BY <1>0, <1>3, <3>1, <3>2 DEF LongInv
  <2>4. AtEnd => AtEnd'
    BY <1>3, <2>1, <2>2 DEF AtEnd
  <2>5. (ServesOne <=> ServesOne') /\ (ServesTwo <=> ServesTwo') /\ (Ready' = Ready)
    BY <1>0 DEF ServesOne, ServesTwo, Ready
  <2>6. StockInv'
    BY <1>0, <1>3, <2>4, <2>5 DEF StockInv, FillsDecoder
  <2> QED
    BY <2>3, <2>4, <2>6
<1> QED
  BY <1>0, <1>1, <1>2, <1>3 DEF ReadFrame, AtEnd

\* Sending: when FillDecoder ends here, the codec has CodecRoom frames to give.
LEMMA SendPacketEnds ==
  ASSUME LongPackets, RareTrouble, DecoderInv, LongInv, StockInv, SendPacket
  PROVE  LongInv' /\ StockInv' /\ ~AtEnd /\ UNCHANGED delivered
<1>0. /\ DecoderTypeOK /\ ~packet_consumed_ /\ FillsDecoder
      /\ UNCHANGED <<file, fifo_, wanted, consumed, read, delivered, trouble>>
      /\ trouble \in Nat /\ MaxTrouble \in {0, 1} /\ CodecRoom > MaxTrouble
      /\ CodecRoom \in Nat /\ Ready \in Int /\ CodecDelay \in Nat
      /\ packet_.samples >= input_samples_
  <2>1. /\ ~packet_consumed_ /\ FillsDecoder
        /\ UNCHANGED <<file, fifo_, wanted, consumed, read, delivered, trouble>>
    BY DEF SendPacket
  <2>2. DecoderTypeOK /\ trouble \in Nat
    BY DEF DecoderInv, DecoderTypeOK
  <2>3. Ready \in Int /\ CodecRoom \in Nat /\ CodecDelay \in Nat
    BY <2>2, SequenceFacts, DecoderConfig DEF Ready
  <2>4. packet_.samples >= input_samples_
    BY <2>1 DEF LongInv
  <2> QED
    BY <2>1, <2>2, <2>3, <2>4 DEF RareTrouble
<1>1. CASE /\ codec' = Append(codec, packet_) /\ packet_consumed_' = TRUE
           /\ UNCHANGED pc
  <2>1. /\ Len(codec') = Len(codec) + 1 /\ Len(codec) \in Nat
        /\ \A i \in DOMAIN codec' :
             codec'[i] = packet_ \/ (i \in DOMAIN codec /\ codec'[i] = codec[i])
    BY <1>0, <1>1, EndsOfCodec, SequenceFacts
  <2>2. LongInv'
    BY <1>0, <1>1, <2>1 DEF LongInv
  <2>3. Ready' = Ready + 1
    BY <1>0, <2>1 DEF Ready
  <2>4. ServesOne => ServesOne'
    BY <1>0, <2>3 DEF ServesOne
  <2>5. StockInv'
    BY <1>0, <1>1, <2>4 DEF StockInv, FillsDecoder, AtEnd
  <2> QED
    BY <1>0, <2>2, <2>5 DEF AtEnd
<1>2. CASE /\ pc' = "aborted" /\ UNCHANGED <<packet_, packet_consumed_, codec>>
  BY <1>0, <1>2 DEF LongInv, StockInv, AtEnd
<1>3. CASE /\ ~CodecTakes /\ pc' = AfterFillDecoder
           /\ UNCHANGED <<packet_, packet_consumed_, codec>>
  <2>1. Ready' = Ready /\ Ready >= CodecRoom
    BY <1>0, <1>3 DEF Ready, CodecTakes
  <2>2. ServesOne' /\ (trouble = MaxTrouble \/ ServesTwo')
    BY <1>0, <2>1 DEF ServesOne, ServesTwo, StockInv
  <2>3. StockInv'
    BY <1>0, <1>3, <2>2 DEF StockInv, FillsDecoder, AfterFillDecoder
  <2>4. LongInv'
    BY <1>0, <1>3 DEF LongInv, FillsDecoder, AfterFillDecoder
  <2> QED
    BY <1>0, <2>3, <2>4 DEF AtEnd
<1> QED
  BY <1>0, <1>1, <1>2, <1>3 DEF SendPacket

\* Filling: a frame that moves from the codec into fifo_ serves a Read there as
\* well as here; when FillFifo ends short of one, the codec has nothing to give.
LEMMA FillFifoEnds ==
  ASSUME LongPackets, DecoderInv, LongInv, StockInv, FillFifo
  PROVE  LongInv' /\ StockInv' /\ (AtEnd => AtEnd') /\ (Drained => Drained')
         /\ UNCHANGED delivered
<1> DEFINE in == input_samples_
<1>0. /\ DecoderTypeOK /\ pc = "FillFifo"
      /\ UNCHANGED <<file, packet_, packet_consumed_, wanted, consumed, read, delivered, trouble>>
      /\ Ready \in Int /\ CodecDelay \in Nat /\ Len(codec) \in Nat /\ Len(fifo_) \in Nat
      /\ in \in Nat /\ in > 0 /\ in <= fifo_capacity_ /\ fifo_capacity_ \in Nat
  <2>1. /\ pc = "FillFifo"
        /\ UNCHANGED <<file, packet_, packet_consumed_, wanted, consumed, read, delivered, trouble>>
    BY DEF FillFifo
  <2>2. DecoderTypeOK
    BY DEF DecoderInv
  <2>3. Ready \in Int /\ CodecDelay \in Nat /\ Len(codec) \in Nat /\ Len(fifo_) \in Nat
    BY <2>2, SequenceFacts, DecoderConfig DEF Ready
  <2>4. in \in Nat /\ in > 0 /\ in <= fifo_capacity_ /\ fifo_capacity_ \in Nat
    BY CapacityIsNat, FrameLengths DEF LongPackets
  <2> QED
    BY <2>1, <2>2, <2>3, <2>4
<1>1. AtEnd <=> AtEnd'
  BY <1>0 DEF AtEnd
<1>2. ASSUME Ready > 0, codec' = Tail(codec),
             \/ /\ Head(codec).samples > 0
                /\ fifo_' = fifo_ \o SamplesOf(Head(codec)) /\ UNCHANGED pc
             \/ /\ Head(codec).samples = 0 /\ pc' = "read" /\ UNCHANGED fifo_
      PROVE  LongInv' /\ StockInv' /\ ~Drained
  <2>0. codec # << >>
    BY <1>0, <1>2 DEF Ready
  <2>1. /\ 1 \in DOMAIN codec /\ Head(codec) = codec[1] /\ Head(codec) \in Chunk
        /\ Len(codec') = Len(codec) - 1
        /\ \A i \in DOMAIN codec' : i + 1 \in DOMAIN codec /\ codec'[i] = codec[i + 1]
    BY <1>0, <1>2, <2>0, EndsOfCodec
  <2>2. Head(codec).samples >= in /\ Head(codec).samples \in Nat
    BY <2>1 DEF LongInv, Chunk
  <2>3. fifo_' = fifo_ \o SamplesOf(Head(codec)) /\ UNCHANGED pc
    BY <1>0, <1>2, <2>2
  <2>4. Len(fifo_') = Len(fifo_) + Head(codec).samples
    <3>1. /\ SamplesOf(Head(codec)) \in Seq(Nat)
          /\ Len(SamplesOf(Head(codec))) = Head(codec).samples
      BY <2>1, SamplesOfFrame
    <3>2. fifo_ \in Seq(Nat)
      BY <1>0, SequenceFacts
    <3> QED
      BY ONLY <2>3, <3>1, <3>2, ConcatProperties
  <2>5. Ready' = Ready - 1
    BY <1>0, <2>1 DEF Ready
  <2>6. ServesOne' /\ (ServesTwo => ServesTwo')
    BY <1>0, <2>2, <2>4, <2>5 DEF ServesOne, ServesTwo
  <2>7. StockInv'
    BY <1>0, <1>1, <2>3, <2>6 DEF StockInv
  <2>8. LongInv'
    BY <1>0, <2>1, <2>3 DEF LongInv
  <2> QED
    BY <1>0, <1>2, <2>7, <2>8 DEF Drained
<1>3. ASSUME Len(fifo_) >= fifo_capacity_ \/ Ready <= 0, pc' = "read",
             UNCHANGED <<codec, fifo_>>
      PROVE  LongInv' /\ StockInv' /\ (Drained => Drained')
  <2>1. Ready' = Ready /\ (ServesOne <=> ServesOne') /\ (ServesTwo <=> ServesTwo')
    BY <1>3 DEF Ready, ServesOne, ServesTwo
  <2>2. Len(fifo_) < in => AtEnd /\ Ready <= 0
    BY <1>0, <1>3 DEF StockInv, ServesOne
  <2>3. StockInv'
    BY <1>0, <1>1, <1>3, <2>1, <2>2 DEF StockInv
  <2>4. LongInv'
    BY <1>0, <1>3 DEF LongInv
  <2> QED
    BY <1>1, <1>3, <2>1, <2>3, <2>4 DEF Drained
<1> QED
  BY <1>0, <1>1, <1>2, <1>3 DEF FillFifo

\* Handing out: a short Consume drains the decoder, a full one leaves what the
\* next one needs while a read may still fail.
LEMMA ConsumeReturnEnds ==
  ASSUME LongPackets, DecoderInv, LongInv, StockInv, ConsumeReturn
  PROVE  /\ LongInv' /\ StockInv'
         /\ Len(delivered') = Len(delivered) + target_samples
         /\ Len(SubSeq(fifo_, 1, target_samples)) = target_samples
         /\ SubSeq(fifo_, 1, target_samples) \in Seq(Nat)
         /\ \/ target_samples = input_samples_ /\ ~Drained
            \/ target_samples = Len(fifo_) /\ target_samples < input_samples_ /\ Drained'
<1> DEFINE in == input_samples_
           n == target_samples
<1>0. /\ DecoderTypeOK /\ pc = "read" /\ pc' = "idle"
      /\ UNCHANGED <<file, packet_, packet_consumed_, codec, wanted, read, trouble>>
      /\ delivered' = delivered \o SubSeq(fifo_, 1, n)
      /\ fifo_' = SubSeq(fifo_, n + 1, Len(fifo_))
      /\ fifo_ \in Seq(Nat) /\ Len(fifo_) \in Nat
      /\ delivered \in Seq(Nat) /\ Len(delivered) \in Nat
      /\ in \in Nat /\ in > 0 /\ wanted = in
  BY SequenceFacts, FrameLengths DEF DecoderInv, ConsumeReturn, LongPackets, LongInv
<1>1. n = (IF Len(fifo_) < in THEN Len(fifo_) ELSE in) /\ n \in Nat /\ n <= Len(fifo_)
  BY <1>0 DEF target_samples
<1> HIDE DEF n
<1>2. \A i \in 1..Len(fifo_) : fifo_[i] \in Nat
  BY <1>0
<1>3. SubSeq(fifo_, 1, n) \in Seq(Nat) /\ Len(SubSeq(fifo_, 1, n)) = n
  <2>1. \A i \in 1..n : fifo_[i] \in Nat
    BY <1>0, <1>1, <1>2
  <2>2. fifo_ \in Seq(Nat) /\ Len(fifo_) \in Nat /\ n \in Nat /\ n <= Len(fifo_)
    BY <1>0, <1>1
  <2> QED BY ONLY <2>1, <2>2, SubSeqProperties
<1>4. fifo_' \in Seq(Nat) /\ Len(fifo_') = Len(fifo_) - n
  <2>1. \A i \in (n + 1)..Len(fifo_) : fifo_[i] \in Nat
    BY <1>0, <1>1, <1>2
  <2>2. fifo_' = SubSeq(fifo_, n + 1, Len(fifo_)) /\ fifo_ \in Seq(Nat)
        /\ Len(fifo_) \in Nat /\ n \in Nat /\ n <= Len(fifo_)
    BY <1>0, <1>1
  <2> QED BY ONLY <2>1, <2>2, SubSeqProperties
<1>5. Len(delivered') = Len(delivered) + n
  BY <1>0, <1>3, ConcatProperties
<1>6. Ready' = Ready /\ (AtEnd <=> AtEnd') /\ Ready \in Int
  <2>1. Ready' = Ready /\ (AtEnd <=> AtEnd')
    BY <1>0 DEF Ready, AtEnd
  <2>2. Len(codec) \in Nat /\ CodecDelay \in Nat
    BY <1>0, DecoderConfig, SequenceFacts
  <2> QED BY <2>1, <2>2 DEF Ready
<1>7. LongInv'
  BY <1>0 DEF LongInv
<1>8. StockInv'
  <2>1. ServesTwo => ServesOne'
    <3>1. /\ Len(fifo_) \in Nat /\ Len(fifo_') = Len(fifo_) - n /\ in \in Nat
          /\ n = (IF Len(fifo_) < in THEN Len(fifo_) ELSE in)
      BY <1>0, <1>1, <1>4
    <3>2. Len(fifo_) >= 2 * in => Len(fifo_') >= in
      <4> HIDE DEF in
      <4> QED BY ONLY <3>1
    <3> QED
      BY <1>6, <3>2 DEF ServesOne, ServesTwo
  <2> QED
    BY <1>0, <1>6, <2>1 DEF StockInv
<1>9. CASE Len(fifo_) < in
  <2>1. AtEnd /\ Ready <= 0
    BY <1>0, <1>9 DEF StockInv
  <2>2. fifo_' = << >>
    BY <1>0, <1>1, <1>4, <1>9
  <2> QED
    BY <1>0, <1>1, <1>3, <1>5, <1>6, <1>7, <1>8, <1>9, <2>1, <2>2 DEF Drained, n
<1>10. CASE ~(Len(fifo_) < in)
  <2>1. ~Drained
    BY <1>0, <1>10 DEF Drained
  <2> QED
    BY <1>0, <1>1, <1>3, <1>5, <1>7, <1>8, <1>10, <2>1 DEF n
<1> QED
  BY <1>9, <1>10

\* Read, after a Consume that was served in full or drained the decoder.
LEMMA ReadEnds ==
  ASSUME LongPackets, EndInv, Read
  PROVE  TailInv'
<1> DEFINE in == input_samples_
           n == target_samples
           lost == Len(delivered) - Len(heard)
<1>1. /\ LongInv' /\ StockInv'
      /\ Len(delivered') = Len(delivered) + n
      /\ Len(SubSeq(fifo_, 1, n)) = n /\ SubSeq(fifo_, 1, n) \in Seq(Nat)
      /\ \/ n = in /\ ~Drained
         \/ n = Len(fifo_) /\ n < in /\ Drained'
  BY ConsumeReturnEnds DEF EndInv, Read
<1>2. /\ in \in Nat /\ in > 0 /\ n \in Nat /\ heard \in Seq(Nat) /\ Len(heard) \in Nat
      /\ Len(delivered) \in Nat /\ errors \in Nat /\ Len(fifo_) \in Nat
      /\ ChannelNum \in Nat \ {0} /\ InputBytes = 2
  <2>1. DecoderTypeOK
    BY DEF EndInv, DecoderInv
  <2>2. Len(fifo_) \in Nat /\ Len(delivered) \in Nat /\ wanted \in Nat
    BY <2>1, SequenceFacts DEF DecoderTypeOK
  <2>3. heard \in Seq(Nat) /\ Len(heard) \in Nat /\ errors \in Nat
    BY DEF EndInv, TailInv
  <2>4. in \in Nat /\ in > 0 /\ InputBytes = 2 /\ ChannelNum \in Nat \ {0}
    BY FrameLengths, DecoderConfig DEF LongPackets
  <2>5. n \in Nat
    BY <2>2 DEF target_samples
  <2> QED
    BY <2>2, <2>3, <2>4, <2>5
<1>3. (errors + 1) * in = errors * in + in /\ errors * in \in Nat
  BY <1>2
<1>4. consumed' = n * 2 * ChannelNum /\ BufferSize = in * ChannelNum * 2
  BY <1>2 DEF Read, ConsumeReturn, BufferSize
<1>5. (consumed' = BufferSize) <=> (n = in)
  <2> HIDE DEF n, in
  <2>1. n * 2 * ChannelNum = (2 * n) * ChannelNum /\ in * ChannelNum * 2 = (2 * in) * ChannelNum
    BY <1>2
  <2>2. ASSUME n < in PROVE consumed' # BufferSize
    <3>1. PICK k \in Nat : in = n + 1 + k
      <4>1. in - (n + 1) \in Nat /\ in = n + 1 + (in - (n + 1))
        BY <1>2, <2>2
      <4> QED BY <4>1
    <3>2. (2 * in) * ChannelNum = (2 * n) * ChannelNum + 2 * ChannelNum + (2 * k) * ChannelNum
          /\ (2 * k) * ChannelNum \in Nat /\ (2 * n) * ChannelNum \in Nat
      BY <1>2, <3>1
    <3> QED BY <1>2, <1>4, <2>1, <3>2
  <2>3. n = in => consumed' = BufferSize
    BY <1>4, <2>1
  <2>4. n = in \/ n < in
    BY <1>1, <1>2 DEF n, in
  <2> QED
    BY <1>2, <2>2, <2>3, <2>4
<1>6. CASE consumed' # BufferSize
  <2>1. answer' = "eof" /\ UNCHANGED <<heard, errors>>
    BY <1>6 DEF Read
  <2>2. n = Len(fifo_) /\ n < in /\ Drained'
    BY <1>1, <1>5, <1>6
  <2>3. lost = errors * in \/ (Len(fifo_) = 0 /\ lost < (errors + 1) * in)
    BY DEF EndInv, TailInv, Drained, OnlyTailUnheard
  <2>4. Len(delivered') - Len(heard) < (errors + 1) * in
    <3> HIDE DEF n, in
    <3> QED BY <1>1, <1>2, <1>3, <2>2, <2>3
  <2> QED
    BY <1>2, <2>1, <2>2, <2>4 DEF TailInv, OnlyTailUnheard
<1>7. CASE consumed' = BufferSize
  <2>1. n = in /\ ~Drained
    BY <1>1, <1>2, <1>5, <1>7
  <2>2. lost = errors * in
    BY <2>1 DEF EndInv, TailInv
  <2>3. \/ /\ answer' = "normal" /\ heard' = heard \o SubSeq(fifo_, 1, n) /\ UNCHANGED errors
        \/ /\ answer' = "error" /\ errors' = errors + 1 /\ UNCHANGED heard
    BY <1>7 DEF Read, ResampleConsumed
  <2>4. CASE answer' = "normal" /\ heard' = heard \o SubSeq(fifo_, 1, n) /\ UNCHANGED errors
    <3>1. heard' \in Seq(Nat) /\ Len(heard') = Len(heard) + n
      <4> DEFINE part == SubSeq(fifo_, 1, n)
      <4>1. part \in Seq(Nat) /\ Len(part) = n /\ heard' = heard \o part /\ heard \in Seq(Nat)
        BY <1>1, <1>2, <2>4
      <4> HIDE DEF n, part
      <4> QED BY ONLY <4>1, ConcatProperties
    <3>2. Len(delivered') - Len(heard') = errors * in
      <4>1. /\ Len(delivered') = Len(delivered) + n /\ Len(heard') = Len(heard) + n
            /\ Len(delivered) \in Nat /\ Len(heard) \in Nat /\ n \in Nat
        BY <1>1, <1>2, <3>1
      <4>2. Len(delivered') - Len(heard') = lost
        BY ONLY <4>1
      <4> QED BY <2>2, <4>2
    <3> QED
      BY <1>2, <2>4, <3>1, <3>2 DEF TailInv
  <2>5. CASE answer' = "error" /\ errors' = errors + 1 /\ UNCHANGED heard
    <3>1. Len(delivered') - Len(heard) = (errors + 1) * in
      <4> HIDE DEF n, in
      <4> QED BY <1>1, <1>2, <1>3, <2>1, <2>2
    <3> QED
      BY <1>2, <2>5, <3>1 DEF TailInv
  <2> QED
    BY <2>3, <2>4, <2>5
<1> QED
  BY <1>6, <1>7

\* The invariants hold together over files of long packets, with rare trouble.
LEMMA EndInvariant == LongPackets /\ RareTrouble => (SourceSpec => []EndInv)
<1> SUFFICES ASSUME LongPackets, RareTrouble PROVE SourceSpec => []EndInv
  OBVIOUS
<1>1. SourceInit => EndInv
  <2> SUFFICES ASSUME SourceInit PROVE EndInv
    OBVIOUS
  <2>1. DecoderInv
    BY DecoderStart DEF SourceInit
  <2>2. LongInv
    <3>1. file \in Files /\ packet_consumed_ = TRUE /\ codec = << >> /\ pc = "construct"
      BY DEF SourceInit, DecoderInit
    <3> QED
      BY <3>1 DEF LongPackets, LongInv
  <2>3. StockInv
    BY DecoderConfig DEF SourceInit, DecoderInit, StockInv
  <2>4. TailInv
    <3>1. 0 * input_samples_ = 0
      BY FrameLengths
    <3> QED
      BY <3>1 DEF SourceInit, DecoderInit, TailInv
  <2> QED
    BY <2>1, <2>2, <2>3, <2>4 DEF EndInv
<1>2. EndInv /\ [SourceNext]_allVars => EndInv'
  <2> SUFFICES ASSUME EndInv, [SourceNext]_allVars PROVE EndInv'
    OBVIOUS
  <2>1. DecoderInv'
    BY PartsOfStep, FrameLengths, ConsumeKeeps, DecodeKeeps, ConsumeReturnKeeps, DecoderStutters
       DEF EndInv
  <2>2. ASSUME UNCHANGED <<answer, heard, errors, delivered>>, Drained => Drained'
        PROVE  TailInv'
    BY <2>2 DEF EndInv, TailInv, OnlyTailUnheard
  <2>3. ASSUME UNCHANGED decoderVars
        PROVE  LongInv' /\ StockInv' /\ (Drained <=> Drained')
    BY <2>3 DEF decoderVars, EndInv, LongInv, StockInv, Drained, AtEnd, ServesOne, ServesTwo, Ready
  <2>4. ASSUME NEW rate \in AskedRates, GetAudioFrameWithInfo(rate)
        PROVE  LongInv' /\ StockInv' /\ TailInv'
    <3>1. CASE UNCHANGED <<decoderVars, heard, errors>> /\ answer' = "rate"
      BY <2>3, <3>1 DEF EndInv, TailInv, OnlyTailUnheard, decoderVars
    <3>2. CASE Consume(input_samples_) /\ UNCHANGED sourceVars
      <4>1. /\ pc = "idle" /\ pc' = "FillDecoder" /\ wanted' = input_samples_
            /\ UNCHANGED <<file, packet_, packet_consumed_, codec, fifo_, delivered, trouble>>
        BY <3>2 DEF Consume
      <4>2. UNCHANGED <<Drained, AtEnd, ServesOne>>
        BY <4>1 DEF Drained, AtEnd, ServesOne, Ready
      <4>3. LongInv' /\ StockInv'
        BY <4>1, <4>2 DEF EndInv, LongInv, StockInv
      <4> QED
        BY <2>2, <3>2, <4>1, <4>2, <4>3 DEF sourceVars
    <3> QED
      BY <2>4, <3>1, <3>2 DEF GetAudioFrameWithInfo
  <2>5. ASSUME Decode, UNCHANGED <<sourceVars, volumeVars>>
        PROVE  LongInv' /\ StockInv' /\ TailInv'
    <3>1. CASE ReadFrame
      <4>1. LongInv' /\ StockInv' /\ (AtEnd => AtEnd') /\ UNCHANGED <<codec, fifo_, delivered>>
        BY <3>1, ReadFrameEnds DEF EndInv
      <4>2. Drained => Drained'
        BY <4>1 DEF Drained, Ready
      <4> QED BY <2>2, <2>5, <4>1, <4>2 DEF sourceVars
    <3>2. CASE SendPacket
      <4>1. LongInv' /\ StockInv' /\ ~AtEnd /\ UNCHANGED delivered
        BY <3>2, SendPacketEnds DEF EndInv
      <4> QED BY <2>2, <2>5, <4>1 DEF sourceVars, Drained
    <3>3. CASE FillFifo
      <4>1. LongInv' /\ StockInv' /\ (Drained => Drained') /\ UNCHANGED delivered
        BY <3>3, FillFifoEnds DEF EndInv
      <4> QED BY <2>2, <2>5, <4>1 DEF sourceVars
    <3> QED
      BY <2>5, <3>1, <3>2, <3>3 DEF Decode
  <2>6. ASSUME Read PROVE LongInv' /\ StockInv' /\ TailInv'
    BY <2>6, ReadEnds, ConsumeReturnEnds DEF EndInv, Read
  <2>7. ASSUME UNCHANGED decoderVars, UNCHANGED sourceVars
        PROVE  LongInv' /\ StockInv' /\ TailInv'
    BY <2>2, <2>3, <2>7 DEF decoderVars, sourceVars
  <2> QED
    BY <2>1, <2>4, <2>5, <2>6, <2>7 DEF EndInv, SourceNext, Reading, allVars
<1> QED
  BY <1>1, <1>2, PTL DEF SourceSpec

\* Over every file whose packets cover a Read, with every codec, and even if a
\* read of the file fails, Read answers AVERROR_EOF only at the end of the file.
THEOREM EndsOnlyAtEnd == LongPackets /\ RareTrouble => (SourceSpec => []EOFOnlyAtEnd)
<1>1. EndInv => EOFOnlyAtEnd
  <2> SUFFICES ASSUME EndInv, answer = "eof" PROVE EOFOnlyAtEnd
    BY DEF EOFOnlyAtEnd
  <2>1. Drained /\ packet_ = Blank
    BY DEF EndInv, TailInv, DecoderInv, DecoderTypeOK, Drained, AtEnd
  <2> QED
    BY <2>1 DEF EOFOnlyAtEnd, Drained, AtEnd, Blank, Range
<1> QED
  BY <1>1, EndInvariant, PTL

\* Under the same hypotheses, all that the decoder hands over is heard but what
\* failing resamplings swallow and a tail shorter than a frame.
THEOREM TailUnheard == LongPackets /\ RareTrouble => (SourceSpec => []OnlyTailUnheard)
<1> SUFFICES ASSUME LongPackets, RareTrouble PROVE SourceSpec => []OnlyTailUnheard
  OBVIOUS
<1>1. EndInv => OnlyTailUnheard
  <2> SUFFICES ASSUME EndInv, Len(delivered) - Len(heard) = errors * input_samples_
               PROVE  OnlyTailUnheard
    BY DEF EndInv, TailInv
  <2>1. errors \in Nat /\ input_samples_ \in Nat /\ input_samples_ > 0
    BY FrameLengths DEF EndInv, TailInv, LongPackets
  <2>2. (errors + 1) * input_samples_ = errors * input_samples_ + input_samples_
        /\ errors * input_samples_ \in Nat
    BY <2>1
  <2> QED
    BY <2>1, <2>2 DEF OnlyTailUnheard
<1> QED
  BY <1>1, EndInvariant, PTL
=============================================================================
