----------------------------- MODULE FrameSizes -----------------------------
(***************************************************************************)
(* The frame-size arithmetic every part of the mixer shares.  C++ integer  *)
(* division of non-negative operands is \div.  A "sample" is one value per *)
(* channel, an "element" one int16_t.                                      *)
(***************************************************************************)
EXTENDS Integers

\* AudioMixerImpl::kFrameDurationInMs: WebRTC always asks for 10 ms.
kFrameDurationInMs == 10

\* report_output_samples_: samples of the 10 ms frame handed to WebRTC.
ReportSamples(rate) == rate \div (1000 \div kFrameDurationInMs)

\* real_output_samples_ and input_samples_: samples of frame_duration_ms.
RealSamples(rate, ms) == rate \div (1000 \div ms)

\* real_buffer_num_elements_: multiplied by the channels before dividing.
RealElements(channels, rate, ms) == (channels * rate) \div (1000 \div ms)
=============================================================================
