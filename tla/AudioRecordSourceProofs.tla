---------------------- MODULE AudioRecordSourceProofs ----------------------
(* Theorems about AudioRecordSource for every rate, channel count, frame    *)
(* duration and sequence of pushes.                                         *)
EXTENDS AudioRecordSource, SequenceTheorems, TLAPS

------------------------------------------------------------------------------
(* Frame sizes *)

\* The quotient and remainder of the C++ division.
LEMMA DivFacts ==
  ASSUME NEW a \in Nat, NEW k \in Nat \ {0}
  PROVE  /\ a \div k \in Nat
         /\ a = k * (a \div k) + (a % k)
         /\ a % k \in 0..(k - 1)
BY SMT

\* The number of frames per second, 1000 / frame_duration_ms, is at least 100
\* for every duration the constructor of AudioMixer accepts.
LEMMA FramesPerSecond ==
  ASSUME NEW ms \in 1..10
  PROVE  1000 \div ms \in Nat /\ 1000 \div ms >= 100
<1>1. ms \in {1, 2, 3, 4, 5, 6, 7, 8, 9, 10}
  BY SMT
<1> QED
  BY <1>1, SMT

\* Dividing by more gives less.
LEMMA DivMonotonic ==
  ASSUME NEW a \in Nat, NEW j \in Nat \ {0}, NEW k \in Nat, k >= j
  PROVE  a \div k <= a \div j
<1> DEFINE p == a \div j
           q == a \div k
<1>1. /\ p \in Nat /\ q \in Nat
      /\ a < j * (p + 1) /\ k * q <= a
  BY DivFacts, SMT
<1>2. j * q <= k * q
  BY <1>1, SMT
<1>3. j * q < j * (p + 1)
  BY <1>1, <1>2, SMT
<1>4. q < p + 1
  BY <1>1, <1>3, SMT
<1> QED
  BY <1>1, <1>4, SMT

\* A multiple is divided without remainder.
LEMMA DivOfMultiple ==
  ASSUME NEW k \in Nat \ {0}, NEW x \in Nat
  PROVE  (k * x) \div k = x
<1> DEFINE q == (k * x) \div k
<1>1. k * x \in Nat
  BY SMT
<1>2. q \in Nat /\ k * q <= k * x /\ k * x < k * (q + 1)
  BY <1>1, DivFacts, SMT
<1>3. q <= x /\ x < q + 1
  BY <1>2, SMT
<1> QED
  BY <1>2, <1>3, SMT

\* The copy of Mix never reads past the frame that was filled.
LEMMA MixedWithinReport ==
  /\ MixedElements \in Nat
  /\ real_buffer_num_elements_ \in Nat
  /\ report_output_samples_ * ChannelNum \in Nat
  /\ MixedElements <= report_output_samples_ * ChannelNum
<1> DEFINE k == 1000 \div FrameDurationMs
           n == SampleRate \div k
           m == SampleRate \div 100
<1>1. k \in Nat /\ k >= 100
  BY RecordConfig, FramesPerSecond DEF kFrameDurationInMs
<1>2. n \in Nat /\ m \in Nat /\ n <= m
  <2>1. SampleRate \in Nat /\ 100 \in Nat \ {0} /\ k \in Nat \ {0}
    BY <1>1, RecordConfig, SMT
  <2>2. n <= m
    <3> HIDE DEF k
    <3> QED
      BY ONLY <1>1, <2>1, DivMonotonic, Zenon
  <2>3. n \in Nat /\ m \in Nat
    <3> HIDE DEF k
    <3> QED
      BY ONLY <2>1, DivFacts, Zenon
  <2> QED
    BY <2>2, <2>3
<1>3. n * ChannelNum <= m * ChannelNum /\ n * ChannelNum \in Nat /\ m * ChannelNum \in Nat
  <2> HIDE DEF n, m
  <2> QED
    BY <1>2, RecordConfig, SMT
<1>4. (ChannelNum * SampleRate) \div k \in Nat
  <2>1. ChannelNum * SampleRate \in Nat
    BY RecordConfig, SMT
  <2>2. k \in Nat \ {0}
    BY <1>1, SMT
  <2> HIDE DEF k
  <2> QED
    BY ONLY <2>1, <2>2, DivFacts, Zenon
<1>5. 1000 \div kFrameDurationInMs = 100
  BY SMT DEF kFrameDurationInMs
<1> QED
  BY <1>3, <1>4, <1>5 DEF MixedElements, real_buffer_num_elements_, report_output_samples_,
     RealSamples, RealElements, ReportSamples

\* frame_duration_ms splits the sample rate into whole frames.
WholeFrames == SampleRate % (1000 \div FrameDurationMs) = 0

\* The elements a pull removes from buffer_ are then those Mix copies out.
LEMMA RemovedIsMixed ==
  WholeFrames => real_buffer_num_elements_ = MixedElements
<1> SUFFICES ASSUME WholeFrames
             PROVE  real_buffer_num_elements_ = MixedElements
  OBVIOUS
<1> DEFINE k == 1000 \div FrameDurationMs
           n == SampleRate \div k
<1>1. k \in Nat \ {0}
  BY RecordConfig, FramesPerSecond, SMT DEF kFrameDurationInMs
<1>2. n \in Nat /\ SampleRate = k * n
  <2>1. SampleRate % k = 0
    BY DEF WholeFrames
  <2>2. SampleRate \in Nat
    BY RecordConfig
  <2>3. n \in Nat /\ SampleRate = k * n + (SampleRate % k)
    <3> HIDE DEF k
    <3> QED
      BY ONLY <1>1, <2>2, DivFacts, Zenon
  <2> HIDE DEF k, n
  <2> QED
    BY <1>1, <2>1, <2>3, SMT
<1>3. (ChannelNum * SampleRate) \div k = n * ChannelNum
  <2> HIDE DEF k, n
  <2>1. ChannelNum * SampleRate = k * (n * ChannelNum) /\ n * ChannelNum \in Nat
    BY <1>1, <1>2, RecordConfig, SMT
  <2> QED
    BY <1>1, <2>1, DivOfMultiple
<1> QED
  BY <1>3 DEF MixedElements, real_buffer_num_elements_, RealSamples, RealElements

------------------------------------------------------------------------------
(* Types *)

\* The frame and the part of it that Mix copies are sequences of elements.
LEMMA CopiedFacts ==
  ASSUME TypeOK
  PROVE  /\ CopiedFrame \in Seq(Nat)
         /\ Len(CopiedFrame) = report_output_samples_ * ChannelNum
         /\ SubSeq(CopiedFrame, 1, MixedElements) \in Seq(Nat)
         /\ Len(SubSeq(CopiedFrame, 1, MixedElements)) = MixedElements
         /\ \A i \in 1..MixedElements :
              SubSeq(CopiedFrame, 1, MixedElements)[i] = CopiedFrame[i]
<1> DEFINE n == report_output_samples_ * ChannelNum
<1>1. n \in Nat /\ MixedElements \in Nat /\ MixedElements <= n
  BY MixedWithinReport
<1>2. CopiedFrame \in Seq(Nat) /\ Len(CopiedFrame) = n
  <2> HIDE DEF n
  <2>1. CopiedFrame = [i \in 1..n |-> IF i <= Len(data_) THEN data_[i] ELSE Junk]
    BY DEF CopiedFrame, n
  <2> QED
    BY <1>1, <2>1 DEF TypeOK, Junk
<1> HIDE DEF n
<1> QED
  BY <1>1, <1>2, SubSeqProperties DEF n

\* Type correctness: BufferT stays consistent (size_ <= capacity_) under every
\* order of OnAudioRecorded and GetAudioFrameWithInfo, for every frame
\* duration of 1 to 10 ms, every rate and channel count, and pushes of any size.
THEOREM TypeCorrect == Spec => []TypeOK
<1>1. Init => TypeOK
  BY DEF Init, TypeOK
<1>2. TypeOK /\ [Next]_vars => TypeOK'
  <2> SUFFICES ASSUME TypeOK, [Next]_vars
               PROVE  TypeOK'
    OBVIOUS
  <2>1. ASSUME NEW size \in ByteSizes, OnAudioRecorded(size)
        PROVE  TypeOK'
    <3>1. size \in Nat /\ size \div 2 \in Nat
      BY RecordConfig
    <3> DEFINE n == size \div 2
    <3> HIDE DEF n
    <3>2. n \in Nat /\ AppendData(n) /\ recorded' = recorded + n
          /\ UNCHANGED <<info, frame, heard>>
      BY <2>1, <3>1 DEF OnAudioRecorded, n
    <3> QED
      BY <3>2 DEF AppendData, EnsureCapacityWithHeadroom, TypeOK, Junk
  <2>2. ASSUME NEW rate \in {SampleRate, SampleRate + 1}, GetAudioFrameWithInfo(rate)
        PROVE  TypeOK'
    <3>1. ASSUME NEW answer \in {"kError", "kMuted"}, Refuse(answer)
          PROVE  TypeOK'
      BY <3>1 DEF Refuse, TypeOK
    <3>2. ASSUME size_ >= real_buffer_num_elements_, DropFrame,
                 frame' = CopiedFrame, info' = "kNormal",
                 heard' = heard \o SubSeq(CopiedFrame, 1, MixedElements),
                 UNCHANGED recorded
          PROVE  TypeOK'
      <4>1. data_' \in Seq(Nat) /\ size_' \in 0..Len(data_')
        <5>1. /\ data_ \in Seq(Nat) /\ Len(data_) \in Nat /\ size_ \in 0..Len(data_)
              /\ real_buffer_num_elements_ \in Nat
              /\ \A i \in 1..Len(data_) : data_[i] \in Nat
          BY MixedWithinReport DEF TypeOK
        <5> DEFINE k == real_buffer_num_elements_
                   moved == [i \in 1..Len(data_) |-> IF i <= size_ - k THEN data_[i + k] ELSE data_[i]]
        <5>2. data_' = moved /\ size_' = size_ - k /\ size_ >= k
          BY <3>2 DEF DropFrame
        <5> HIDE DEF k
        <5>3. k \in Nat
          BY <5>1 DEF k
        <5>4. \A i \in 1..Len(data_) : moved[i] \in Nat
          BY ONLY <5>1, <5>3
        <5>5. moved \in Seq(Nat) /\ Len(moved) = Len(data_)
          BY ONLY <5>1, <5>4
        <5> HIDE DEF moved
        <5> QED
          BY ONLY <5>1, <5>2, <5>3, <5>5
      <4>2. frame' \in Seq(Nat) /\ heard' \in Seq(Nat)
        BY <3>2, CopiedFacts, ConcatProperties DEF TypeOK
      <4> QED
        BY <3>2, <4>1, <4>2 DEF TypeOK
    <3> QED
      BY <2>2, <3>1, <3>2 DEF GetAudioFrameWithInfo
  <2>3. CASE UNCHANGED vars
    BY <2>3 DEF vars, TypeOK
  <2> QED
    BY <2>1, <2>2, <2>3 DEF Next
<1> QED
  BY <1>1, <1>2, PTL DEF Spec

------------------------------------------------------------------------------
(* Order and conservation *)

\* RecordedInOrder element by element: the numbers of the elements heard and of
\* those waiting.  In this form it is inductive.
Contents ==
  /\ Len(heard) + size_ = recorded
  /\ \A i \in 1..Len(heard) : heard[i] = i
  /\ \A i \in 1..size_ : data_[i] = Len(heard) + i

\* The frame condition: an answered frame continues what was heard before it.
FrameContents ==
  info = "kNormal" =>
    /\ Len(frame) = MixedElements
    /\ \A i \in 1..Len(frame) : frame[i] = Len(heard) - MixedElements + i

\* What a pull that answers kNormal leaves: the heard elements grow by exactly
\* the elements that leave buffer_.
LEMMA PullContents ==
  ASSUME WholeFrames, TypeOK, Contents,
         size_ >= real_buffer_num_elements_, DropFrame,
         heard' = heard \o SubSeq(CopiedFrame, 1, MixedElements),
         UNCHANGED recorded
  PROVE  /\ Contents'
         /\ Len(heard') = Len(heard) + MixedElements
         /\ \A i \in 1..MixedElements : CopiedFrame[i] = Len(heard) + i
<1> DEFINE M == MixedElements
           copy == SubSeq(CopiedFrame, 1, MixedElements)
<1>1. real_buffer_num_elements_ = M /\ M \in Nat /\ M <= size_
  BY RemovedIsMixed, MixedWithinReport
<1>2. copy \in Seq(Nat) /\ Len(copy) = M /\ \A i \in 1..M : copy[i] = CopiedFrame[i]
  BY CopiedFacts
<1>3. \A i \in 1..M : CopiedFrame[i] = Len(heard) + i
  <2> TAKE i \in 1..M
  <2>1. i \in 1..report_output_samples_ * ChannelNum /\ i <= Len(data_) /\ i \in 1..size_
    BY <1>1, MixedWithinReport DEF TypeOK
  <2> QED
    BY <2>1 DEF CopiedFrame, Contents
<1>4. /\ heard \in Seq(Nat) /\ Len(heard) \in Nat
      /\ size_ \in Nat /\ recorded \in Nat
  BY LenProperties DEF TypeOK
<1> HIDE DEF M, copy
<1>5. /\ Len(heard') = Len(heard) + M
      /\ \A i \in 1..Len(heard') :
           heard'[i] = IF i <= Len(heard) THEN heard[i] ELSE copy[i - Len(heard)]
  BY <1>2, <1>4, ConcatProperties DEF copy, M
<1>6. size_' = size_ - M /\ recorded' = recorded /\ Len(heard) + size_ = recorded
  BY <1>1 DEF Contents, DropFrame
<1>7. Len(heard') + size_' = recorded'
  BY ONLY <1>1, <1>4, <1>5, <1>6
<1>8. \A i \in 1..Len(heard') : heard'[i] = i
  <2>1. \A i \in 1..Len(heard) : heard[i] = i
    BY DEF Contents
  <2>2. \A i \in 1..M : copy[i] = Len(heard) + i
    BY ONLY <1>2, <1>3
  <2> QED
    BY ONLY <1>1, <1>4, <1>5, <2>1, <2>2
<1>9. \A i \in 1..size_' : data_'[i] = Len(heard') + i
  <2> SUFFICES ASSUME NEW i \in 1..size_'
               PROVE  data_'[i] = Len(heard') + i
    OBVIOUS
  <2>1. i \in 1..(size_ - M) /\ i + M \in 1..size_ /\ i \in 1..Len(data_)
    BY <1>1, <1>6 DEF TypeOK
  <2>2. data_'[i] = data_[i + M]
    BY <1>1, <2>1 DEF DropFrame
  <2>3. data_[i + M] = Len(heard) + (i + M)
    BY <2>1 DEF Contents
  <2> QED
    BY ONLY <1>1, <1>4, <1>5, <1>6, <2>1, <2>2, <2>3
<1> QED
  BY <1>3, <1>5, <1>7, <1>8, <1>9 DEF Contents, M

\* A push adds its elements behind the ones waiting, also when data_ is
\* reallocated.
LEMMA PushContents ==
  ASSUME TypeOK, Contents, NEW n \in Nat, AppendData(n),
         recorded' = recorded + n, UNCHANGED heard
  PROVE  Contents'
<1>1. size_' = size_ + n
  BY DEF AppendData, EnsureCapacityWithHeadroom
<1>2. \A i \in 1..size_' : data_'[i] = IF i <= size_ THEN data_[i] ELSE recorded + (i - size_)
  <2> TAKE i \in 1..size_'
  <2> QED
    BY <1>1 DEF AppendData, EnsureCapacityWithHeadroom, TypeOK
<1>3. Len(heard) \in Nat /\ size_ \in Nat /\ recorded \in Nat
  BY LenProperties DEF TypeOK
<1>4. Len(heard) + size_ = recorded /\ \A i \in 1..size_ : data_[i] = Len(heard) + i
  BY DEF Contents
<1>5. \A i \in 1..size_' : data_'[i] = Len(heard) + i
  BY ONLY <1>1, <1>2, <1>3, <1>4
<1>6. Len(heard') + size_' = recorded'
  BY <1>1, <1>3, <1>4
<1> QED
  BY <1>5, <1>6 DEF Contents

\* Contents holds in every state, from which the order of the elements follows.
LEMMA ContentsInvariant == WholeFrames => (Spec => []Contents)
<1> SUFFICES ASSUME WholeFrames
             PROVE  Spec => []Contents
  OBVIOUS
<1>1. Init => Contents
  BY DEF Init, Contents
<1>2. TypeOK /\ Contents /\ [Next]_vars => Contents'
  <2> SUFFICES ASSUME TypeOK, Contents, [Next]_vars
               PROVE  Contents'
    OBVIOUS
  <2>1. ASSUME NEW size \in ByteSizes, OnAudioRecorded(size)
        PROVE  Contents'
    <3>1. size \div 2 \in Nat
      BY RecordConfig
    <3> QED
      BY <2>1, <3>1, PushContents DEF OnAudioRecorded
  <2>2. ASSUME NEW rate \in {SampleRate, SampleRate + 1}, GetAudioFrameWithInfo(rate)
        PROVE  Contents'
    <3>1. ASSUME NEW answer \in {"kError", "kMuted"}, Refuse(answer)
          PROVE  Contents'
      BY <3>1 DEF Refuse, Contents
    <3> QED
      BY <2>2, <3>1, PullContents DEF GetAudioFrameWithInfo
  <2>3. CASE UNCHANGED vars
    BY <2>3 DEF vars, Contents
  <2> QED
    BY <2>1, <2>2, <2>3 DEF Next
<1> QED
  BY <1>1, <1>2, TypeCorrect, PTL DEF Spec

\* For every rate that frame_duration_ms splits into whole frames (10 ms at
\* every rate that is a multiple of 100, 5 ms at every multiple of 200, ...),
\* every channel count and every alternation of pushes of any size with pulls:
\* no recorded element is lost, repeated or reordered by buffer_.
THEOREM RecordedOrder == WholeFrames => (Spec => []RecordedInOrder)
<1>1. TypeOK /\ Contents => RecordedInOrder
  <2> SUFFICES ASSUME TypeOK, Contents
               PROVE  RecordedInOrder
    OBVIOUS
  <2>1. /\ heard \in Seq(Nat) /\ Len(heard) \in Nat /\ recorded \in Nat
        /\ data_ \in Seq(Nat) /\ size_ \in 0..Len(data_)
    BY LenProperties DEF TypeOK
  <2>2. /\ Buffered \in Seq(Nat) /\ Len(Buffered) = size_
        /\ \A i \in 1..size_ : Buffered[i] = data_[i]
    BY <2>1, SubSeqProperties DEF Buffered
  <2> DEFINE all == heard \o Buffered
  <2>3. /\ all \in Seq(Nat) /\ Len(all) = Len(heard) + Len(Buffered)
        /\ \A i \in 1..Len(heard) + Len(Buffered) :
             all[i] = IF i <= Len(heard) THEN heard[i] ELSE Buffered[i - Len(heard)]
    BY ONLY <2>1, <2>2, ConcatProperties, Zenon
  <2>4. /\ Len(heard) + size_ = recorded
        /\ \A i \in 1..Len(heard) : heard[i] = i
        /\ \A i \in 1..size_ : data_[i] = Len(heard) + i
    BY DEF Contents
  <2> HIDE DEF all
  <2>5. ASSUME NEW i \in 1..recorded
        PROVE  all[i] = i
    <3>1. CASE i <= Len(heard)
      <4>1. i \in 1..Len(heard) /\ i \in 1..Len(heard) + Len(Buffered)
        BY <2>1, <2>2, <3>1
      <4>2. all[i] = heard[i] /\ heard[i] = i
        BY ONLY <2>3, <2>4, <3>1, <4>1
      <4> QED
        BY ONLY <4>2
    <3>2. CASE ~(i <= Len(heard))
      <4>1. i - Len(heard) \in 1..size_
        BY ONLY <2>1, <2>4, <3>2
      <4>2. Buffered[i - Len(heard)] = Len(heard) + (i - Len(heard))
        BY ONLY <2>2, <2>4, <4>1
      <4>3. i \in 1..Len(heard) + Len(Buffered)
        BY ONLY <2>2, <2>4, i \in 1..recorded
      <4>4. all[i] = Buffered[i - Len(heard)]
        BY ONLY <2>3, <3>2, <4>3
      <4> QED
        BY ONLY <2>1, <4>2, <4>4, i \in 1..recorded
    <3> QED
      BY <3>1, <3>2
  <2>6. all = [i \in 1..recorded |-> i]
    BY ONLY <2>1, <2>2, <2>3, <2>4, <2>5
  <2> QED
    BY <2>6 DEF all, RecordedInOrder
<1> QED
  BY <1>1, TypeCorrect, ContentsInvariant, PTL

\* At the documented 10 ms (README.md, "frameDurationMs must be 10ms"), for
\* every rate that is a multiple of 100, every frame answered with kNormal
\* consists of the next recorded elements: the threshold of
\* GetAudioFrameWithInfo covers all that UpdateFrame copies.
THEOREM NormalFramesValid ==
  WholeFrames /\ FrameDurationMs = kFrameDurationInMs => (Spec => []NormalFrameIsValid)
<1> SUFFICES ASSUME WholeFrames, FrameDurationMs = kFrameDurationInMs
             PROVE  Spec => []NormalFrameIsValid
  OBVIOUS
<1>1. report_output_samples_ * ChannelNum = MixedElements
  BY DEF report_output_samples_, MixedElements, ReportSamples, RealSamples
<1>2. Init => FrameContents
  BY DEF Init, FrameContents
<1>3. TypeOK /\ Contents /\ FrameContents /\ [Next]_vars => FrameContents'
  <2> SUFFICES ASSUME TypeOK, Contents, FrameContents, [Next]_vars
               PROVE  FrameContents'
    OBVIOUS
  <2>1. ASSUME NEW size \in ByteSizes, OnAudioRecorded(size)
        PROVE  FrameContents'
    BY <2>1 DEF OnAudioRecorded, FrameContents
  <2>2. ASSUME NEW rate \in {SampleRate, SampleRate + 1}, GetAudioFrameWithInfo(rate)
        PROVE  FrameContents'
    <3>1. ASSUME NEW answer \in {"kError", "kMuted"}, Refuse(answer)
          PROVE  FrameContents'
      BY <3>1 DEF Refuse, FrameContents
    <3>2. ASSUME size_ >= real_buffer_num_elements_, DropFrame, frame' = CopiedFrame,
                 heard' = heard \o SubSeq(CopiedFrame, 1, MixedElements),
                 UNCHANGED recorded
          PROVE  FrameContents'
      <4>1. Len(heard) \in Nat /\ MixedElements \in Nat
        BY LenProperties, MixedWithinReport DEF TypeOK
      <4>2. Len(frame') = MixedElements
        BY <1>1, <3>2, CopiedFacts
      <4>3. /\ Len(heard') = Len(heard) + MixedElements
            /\ \A i \in 1..MixedElements : frame'[i] = Len(heard) + i
        BY <3>2, PullContents
      <4>4. \A i \in 1..Len(frame') : frame'[i] = Len(heard') - MixedElements + i
        BY ONLY <4>1, <4>2, <4>3
      <4> QED
        BY <4>2, <4>4 DEF FrameContents, MixedElements
    <3> QED
      BY <2>2, <3>1, <3>2 DEF GetAudioFrameWithInfo
  <2>3. CASE UNCHANGED vars
    BY <2>3 DEF vars, FrameContents
  <2> QED
    BY <2>1, <2>2, <2>3 DEF Next
<1>4. TypeOK /\ FrameContents => NormalFrameIsValid
  BY DEF TypeOK, FrameContents, NormalFrameIsValid
<1> QED
  BY <1>2, <1>3, <1>4, TypeCorrect, ContentsInvariant, PTL DEF Spec
=============================================================================
