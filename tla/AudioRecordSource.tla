-------------------------- MODULE AudioRecordSource --------------------------
(***************************************************************************)
(* AudioRecordSource: the client pushes recorded data of any size, WebRTC  *)
(* pulls one frame per Mix.  buffer_ is an rtc::BufferT<int16_t>: data_ is *)
(* its allocation (capacity_ = Len(data_)) and size_ the elements in use.  *)
(* Recorded elements are numbered 1, 2, 3, ... in the order the client     *)
(* pushes them; Junk is memory no recorded element was written to.         *)
(*                                                                         *)
(* AddRecordedData and Mix are called by one thread, as both example       *)
(* applications do, so each handler is one action.                         *)
(***************************************************************************)
EXTENDS FrameSizes, Sequences

CONSTANTS
  SampleRate, ChannelNum, FrameDurationMs,  \* constructor arguments
  ByteSizes,     \* the sizes OnAudioRecorded is called with
  MaxRecorded    \* bound: elements recorded in a behaviour

ASSUME RecordConfig ==
  /\ SampleRate \in Nat \ {0} /\ ChannelNum \in Nat \ {0}
  /\ FrameDurationMs \in 1..kFrameDurationInMs
  /\ ByteSizes \subseteq Nat /\ MaxRecorded \in Nat

VARIABLES
  data_, size_,  \* buffer_
  info, frame,   \* what the last GetAudioFrameWithInfo answered
  recorded,      \* history: elements pushed so far
  heard          \* history: the elements Mix copied out, in order

vars == <<data_, size_, info, frame, recorded, heard>>

Junk == 0

report_output_samples_ == ReportSamples(SampleRate)
real_buffer_num_elements_ == RealElements(ChannelNum, SampleRate, FrameDurationMs)

\* Elements of the mixed frame that AudioMixer::Mix copies to the client.
MixedElements == RealSamples(SampleRate, FrameDurationMs) * ChannelNum

Init ==
  /\ data_ = << >> /\ size_ = 0
  /\ info = "none" /\ frame = << >>
  /\ recorded = 0 /\ heard = << >>

\* Mutant: data_ grows only when it is short by more than one element.
AppendDataLate(n) ==
  /\ data_' = [i \in 1..(IF size_ + n > Len(data_) + 1 THEN size_ + n ELSE Len(data_)) |->
                 IF i <= size_ THEN data_[i] ELSE recorded + (i - size_)]
  /\ size_' = size_ + n

\* The capacity_ that BufferT has after making room: half as much again.
EnsureCapacityWithHeadroom(capacity) ==
  LET headroom == Len(data_) + Len(data_) \div 2
  IN  IF capacity <= Len(data_) THEN Len(data_)
      ELSE IF capacity > headroom THEN capacity ELSE headroom

\* BufferT::AppendData of n elements: growing the allocation copies only the
\* size_ elements in use, then the new elements follow them.
AppendData(n) ==
  LET new_size == size_ + n
  IN  /\ data_' = [i \in 1..EnsureCapacityWithHeadroom(new_size) |->
                     IF i <= size_ THEN data_[i]
                     ELSE IF i <= new_size THEN recorded + (i - size_)
                     ELSE IF new_size > Len(data_) THEN Junk ELSE data_[i]]
      /\ size_' = new_size

\* The count is in bytes: the odd byte of an odd size is dropped.
OnAudioRecorded(size) ==
  /\ recorded + size \div 2 <= MaxRecorded
  /\ AppendData(size \div 2)
  /\ recorded' = recorded + size \div 2
  /\ UNCHANGED <<info, frame, heard>>

\* Mutant: the frame is copied after the rest was moved to the front.
CopiedAfterMove ==
  [i \in 1..report_output_samples_ * ChannelNum |->
     IF i + real_buffer_num_elements_ <= size_ THEN data_[i + real_buffer_num_elements_]
     ELSE IF i <= Len(data_) THEN data_[i] ELSE Junk]

\* UpdateFrame copies a whole 10 ms from data_, past size_ and past the
\* allocation if they are shorter.
CopiedFrame ==
  [i \in 1..report_output_samples_ * ChannelNum |->
     IF i <= Len(data_) THEN data_[i] ELSE Junk]

\* Mutant: SetSize without the memmove.
DropUnmoved ==
  data_' = data_ /\ size_' = size_ - real_buffer_num_elements_

\* memmove the rest to the front, then SetSize; what lies behind it is stale.
DropFrame ==
  /\ data_' = [i \in 1..Len(data_) |->
                 IF i <= size_ - real_buffer_num_elements_
                 THEN data_[i + real_buffer_num_elements_] ELSE data_[i]]
  /\ size_' = size_ - real_buffer_num_elements_

Refuse(answer) ==
  /\ info' = answer
  /\ UNCHANGED <<data_, size_, frame, recorded, heard>>

GetAudioFrameWithInfo(sample_rate_hz) ==
  \/ sample_rate_hz # SampleRate /\ Refuse("kError")
  \/ /\ sample_rate_hz = SampleRate
     /\ size_ < real_buffer_num_elements_
     /\ Refuse("kMuted")
  \/ /\ sample_rate_hz = SampleRate
     /\ size_ >= real_buffer_num_elements_
     /\ frame' = CopiedFrame /\ info' = "kNormal"
     /\ DropFrame
     /\ heard' = heard \o SubSeq(CopiedFrame, 1, MixedElements)
     /\ UNCHANGED recorded

Next ==
  \/ \E size \in ByteSizes : OnAudioRecorded(size)
  \/ \E sample_rate_hz \in {SampleRate, SampleRate + 1} :
       GetAudioFrameWithInfo(sample_rate_hz)

Spec == Init /\ [][Next]_vars

------------------------------------------------------------------------------
\* The elements waiting in buffer_.
Buffered == SubSeq(data_, 1, size_)

\* Every variable has its type and size_ never exceeds the allocation
\* (BufferT::IsConsistent).
TypeOK ==
  /\ data_ \in Seq(Nat) /\ size_ \in 0..Len(data_)
  /\ info \in {"none", "kError", "kMuted", "kNormal"}
  /\ frame \in Seq(Nat) /\ heard \in Seq(Nat)
  /\ recorded \in Nat

\* Whatever the sizes the client pushes and however pushes and pulls alternate,
\* what Mix has copied out followed by what still waits in buffer_ is exactly
\* what was recorded: nothing is lost, repeated or reordered by the growing,
\* copying and moving of buffer_ in OnAudioRecorded and GetAudioFrameWithInfo.
RecordedInOrder == heard \o Buffered = [i \in 1..recorded |-> i]

\* A frame answered with kNormal holds only recorded elements, each newer than
\* all that was heard before and in order.  The contract of
\* GetAudioFrameWithInfo says so: "The samples in audio_frame are valid and
\* should be used", "10 ms of new audio".
NormalFrameIsValid ==
  info = "kNormal" =>
    \A i \in DOMAIN frame : frame[i] = Len(heard) - MixedElements + i
=============================================================================
