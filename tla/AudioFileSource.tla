--------------------------- MODULE AudioFileSource ---------------------------
(***************************************************************************)
(* AudioFileSource with its decoder and its resampler:                     *)
(* GetAudioFrameWithInfo refuses a foreign rate, else Read takes           *)
(* input_samples_ from the decoder, insists on exactly as many bytes as    *)
(* they need and resamples them; last comes ApplyVolume.  UpdateVolume is  *)
(* called by another thread.                                               *)
(***************************************************************************)
EXTENDS AudioFileDecoder, AudioResampler, AudioSource, Functions

CONSTANTS
  frame_duration_ms_,
  AskedRates        \* rates the mixer asks for

output_sample_rate_ == OutputRate

\* The resampler is constructed for what the decoder delivers.
ASSUME SourceConfig ==
  /\ frame_duration_ms_ \in 1..1000 /\ output_sample_rate_ \in AskedRates
  /\ InputRate = SampleRate /\ InputChannels = ChannelNum

VARIABLES
  answer,   \* what the last call answered
  heard,    \* history: samples that went through the resampler
  errors    \* history: calls of Resample that failed

sourceVars == <<answer, heard, errors, resamplerVars>>

input_samples_ == RealSamples(SampleRate, frame_duration_ms_)

real_output_samples_ == RealSamples(OutputRate, frame_duration_ms_)

SourceInit ==
  /\ DecoderInit /\ ResamplerInit /\ VolumeInit
  /\ answer = "none" /\ heard = << >> /\ errors = 0

GetAudioFrameWithInfo(sample_rate_hz) ==
  /\ stage = "idle" /\ UNCHANGED volumeVars
  /\ \/ /\ pc = "idle" /\ sample_rate_hz # output_sample_rate_
        /\ answer' = "rate"
        /\ UNCHANGED <<decoderVars, heard, errors, resamplerVars>>
     \/ /\ sample_rate_hz = output_sample_rate_
        /\ Consume(input_samples_)
        /\ UNCHANGED sourceVars

\* Mutant: the size is that of a buffer aligned to 32 samples.
BufferSizeAligned == 32 * ((input_samples_ + 31) \div 32) * ChannelNum * InputBytes

\* av_samples_get_buffer_size without alignment.
BufferSize == input_samples_ * ChannelNum * InputBytes

\* Resample what was consumed, and what GetAudioFrameWithInfo makes of the result.
ResampleConsumed ==
  /\ Resample(consumed')
  /\ \/ /\ resampled' >= 0 /\ Call
        /\ answer' = "normal" /\ heard' = heard \o SubSeq(fifo_, 1, target_samples)
        /\ UNCHANGED errors
     \/ /\ resampled' < 0
        /\ answer' = "error" /\ errors' = errors + 1
        /\ UNCHANGED <<heard, volumeVars>>

\* Mutant: the size of what was consumed is not tested.
ReadUnchecked == ConsumeReturn /\ ResampleConsumed

\* The rest of Read; a result below 0 is kError.
Read ==
  /\ ConsumeReturn
  /\ \/ /\ consumed' # BufferSize
        /\ answer' = "eof"
        /\ UNCHANGED <<heard, errors, resamplerVars, volumeVars>>
     \/ consumed' = BufferSize /\ ResampleConsumed

Reading ==
  \/ Decode /\ UNCHANGED <<sourceVars, volumeVars>>
  \/ Read
  \/ ApplyVolume /\ UNCHANGED <<decoderVars, sourceVars>>

SourceNext ==
  \/ \E rate \in AskedRates : GetAudioFrameWithInfo(rate)
  \/ Reading
  \/ \E volume \in Volumes : UpdateVolume(volume) /\ UNCHANGED <<decoderVars, sourceVars>>

allVars == <<decoderVars, sourceVars, volumeVars>>

SourceSpec == SourceInit /\ [][SourceNext]_allVars

\* The mixer pulls at the source's rate again and again, and a pull goes on.
FairSourceSpec ==
  /\ SourceSpec
  /\ WF_allVars(GetAudioFrameWithInfo(output_sample_rate_))
  /\ WF_allVars(Reading)

------------------------------------------------------------------------------
\* Read answers AVERROR_EOF only when nothing that it could still deliver is
\* left in the file, the packet in hand, the codec or fifo_, as the comment on
\* Read says ("AVERROR_EOF for end of file").
EOFOnlyAtEnd ==
  answer = "eof" =>
    /\ \A p \in Range(file) : p.kind # "audio"
    /\ packet_.samples = 0 /\ fifo_ = << >> /\ Ready <= 0

\* Besides what failing resamplings swallow, less than one frame of what the
\* decoder handed over is never heard: the tail a short last Consume removed
\* from fifo_ before Read rejects it.
OnlyTailUnheard ==
  Len(delivered) - Len(heard) < (errors + 1) * input_samples_

\* Every frame but the first, which the resampler's delay shortens, is whole,
\* whatever calls failed before it and however the counts are rounded: the
\* contract of GetAudioFrameWithInfo promises "10 ms of new audio".
FrameIsWhole ==
  answer = "normal" /\ fed - input >= Delay => written = real_output_samples_

\* A source that is pulled comes to the end of its file and says so.
FileEnds == <>(answer = "eof")

\* The lengths of the frames still to come, and those the codec gives away.
FramesLeft ==
  LET IsAudio(p) == p.kind # "other"
      rest == SelectSeq(file, IsAudio)
  IN  [i \in DOMAIN codec |-> codec[i].samples]
      \o (IF packet_consumed_ THEN << >> ELSE <<packet_.samples>>)
      \o [i \in DOMAIN rest |-> rest[i].samples]
FramesDue == SubSeq(FramesLeft, 1, Len(FramesLeft) - CodecDelay)

Supply == INSTANCE FrameSupply WITH
  supply <- (Len(fifo_) + FoldFunction(+, 0, FramesDue)) \div input_samples_,
  answer <- [none |-> "none", normal |-> "kNormal", eof |-> "kError", error |-> "failed",
             rate |-> "foreign rate"][answer]

\* GetAudioFrameWithInfo, through all the steps of the decoder, implements the
\* counter of frames that a file source is in AudioMixer: no pull loses, repeats
\* or splits a frame but one whose resampling fails, and none finds the end of
\* the file before the last.
ImplementsSupply == Supply!Spec
=============================================================================
