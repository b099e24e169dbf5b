--------------------------- MODULE AudioResampler ---------------------------
(***************************************************************************)
(* AudioResampler: Resample hands libswresample all of its input and room  *)
(* for as many samples as the input is worth, rounded up.  Only the counts *)
(* of samples are modelled; libswresample is external: it holds Delay      *)
(* input samples back and turns the others into output as the rates say.   *)
(***************************************************************************)
EXTENDS Integers

CONSTANTS
  InputRate, InputChannels, InputBytes,  \* constructor arguments; bytes per sample
  OutputRate, OutputChannels,
  Delay,            \* samples libswresample holds back
  InputSizes,       \* bytes Resample is called with
  MaxFed            \* bound: samples fed in a behaviour

ASSUME ResamplerConfig ==
  /\ InputRate \in Nat \ {0} /\ InputChannels \in Nat \ {0} /\ InputBytes \in Nat \ {0}
  /\ OutputRate \in Nat \ {0} /\ OutputChannels \in Nat \ {0}
  /\ Delay \in Nat /\ InputSizes \subseteq Nat /\ MaxFed \in Nat

VARIABLES
  fed, made,  \* context_: samples that went in and that came out
  input,      \* samples of the last call
  written,    \* samples the last call wrote to the output buffer
  resampled   \* its result

resamplerVars == <<fed, made, input, written, resampled>>

ResamplerInit == fed = 0 /\ made = 0 /\ input = 0 /\ written = 0 /\ resampled = 0

\* Output samples that n input samples are worth.
Worth(n) == (n * OutputRate) \div InputRate

\* What libswresample can have delivered after n input samples.
Available(n) == IF n <= Delay THEN 0 ELSE Worth(n - Delay)

Less(a, b) == IF a < b THEN a ELSE b

\* Mutant: the rates are not accounted for.
RoomUnscaled(input_samples) == input_samples

\* output_samples: av_rescale_rnd with AV_ROUND_UP.
Room(input_samples) == (input_samples * OutputRate + InputRate - 1) \div InputRate

\* swr_convert: what does not fit stays inside.
SwrConvert(input_samples) ==
  Less(Room(input_samples), Available(fed + input_samples) - made)

\* av_samples_get_buffer_size with align 0: no samples are an error, others are
\* counted in blocks of 32.
OutputSize(samples) ==
  IF samples = 0 THEN -22 ELSE 32 * ((samples + 31) \div 32) * OutputChannels * 2

\* Mutant: the channels are not accounted for.
InputSamplesOfAll(input_size) == input_size \div InputBytes

InputSamples(input_size) == (input_size \div InputChannels) \div InputBytes

\* Mutant: an error of swr_convert is taken for a number of samples.
ResampleUnchecked(input_size) ==
  /\ fed + InputSamples(input_size) <= MaxFed
  /\ input' = InputSamples(input_size)
  /\ written' \in {SwrConvert(input'), -1}
  /\ fed' = fed + input' /\ made' = made + written'
  /\ resampled' = OutputSize(written')

\* A failing call is assumed to leave libswresample as it was.
Resample(input_size) ==
  /\ fed + InputSamples(input_size) <= MaxFed
  /\ input' = InputSamples(input_size)
  /\ \/ /\ written' = SwrConvert(input')
        /\ fed' = fed + input' /\ made' = made + written'
        /\ resampled' = OutputSize(written')
     \/ /\ written' = 0 /\ resampled' = -1
        /\ UNCHANGED <<fed, made>>

ResamplerNext == \E input_size \in InputSizes : Resample(input_size)

ResamplerSpec == ResamplerInit /\ [][ResamplerNext]_resamplerVars

------------------------------------------------------------------------------
\* Every variable has its type.
ResamplerTypeOK ==
  /\ fed \in Nat /\ made \in Nat /\ input \in Nat /\ written \in Nat /\ resampled \in Int

\* However the input is cut into calls, every call takes out all that
\* libswresample can deliver: the room rounded up is always enough, so neither
\* latency nor memory builds up inside it.
NothingPending == made = Available(fed)
=============================================================================
