----------------------- MODULE AudioFileDecoderProofs -----------------------
(* Theorems about AudioFileDecoder for every file, codec and sequence of    *)
(* requests.                                                                *)
EXTENDS AudioFileDecoder, SequenceTheorems, TLAPS

\* No packet, wherever it is, is longer than MaxFrame.
Sized ==
  /\ \A i \in DOMAIN file : file[i].samples <= MaxFrame
  /\ packet_.samples <= MaxFrame
  /\ \A i \in DOMAIN codec : codec[i].samples <= MaxFrame

\* The inductive invariant.
DecoderInv == DecoderTypeOK /\ Sized /\ NothingLost /\ FifoBounded

------------------------------------------------------------------------------
(* Lemmas *)

\* The capacity is a number of samples.
LEMMA CapacityIsNat == fifo_capacity_ \in Nat
BY DecoderConfig, SMT DEF fifo_capacity_, kFrameDurationInMs

\* A packet taken from the file is a packet, and what is left are packets.
LEMMA HeadIsPacket ==
  ASSUME DecoderTypeOK, Sized, file # << >>
  PROVE  /\ Head(file).samples \in Nat /\ Head(file).samples <= MaxFrame
         /\ Head(file).kind = "other" => Head(file).samples = 0
         /\ Tail(file) \in Seq(Packet)
         /\ \A i \in DOMAIN Tail(file) : Tail(file)[i].samples <= MaxFrame
<1>1. file \in Seq(Packet) /\ Len(file) \in Nat /\ Len(file) > 0
  BY DEF DecoderTypeOK
<1>2. /\ Head(file) = file[1] /\ file[1] \in Packet
      /\ file[1].samples <= MaxFrame
  BY <1>1 DEF Sized
<1>3. /\ Tail(file) \in Seq(Packet) /\ Len(Tail(file)) = Len(file) - 1
      /\ \A i \in 1..Len(Tail(file)) : Tail(file)[i] = file[i + 1]
  BY <1>1, HeadTailProperties
<1>4. \A i \in DOMAIN Tail(file) : Tail(file)[i].samples <= MaxFrame
  BY <1>1, <1>3 DEF Sized
<1> QED
  BY <1>2, <1>3, <1>4 DEF Packet

\* What the type invariant says of the sequences.
LEMMA SequenceFacts ==
  ASSUME DecoderTypeOK
  PROVE  /\ codec \in Seq(Chunk) /\ Len(codec) \in Nat /\ DOMAIN codec = 1..Len(codec)
         /\ fifo_ \in Seq(Nat) /\ Len(fifo_) \in Nat /\ DOMAIN fifo_ = 1..Len(fifo_)
         /\ delivered \in Seq(Nat) /\ Len(delivered) \in Nat
         /\ DOMAIN delivered = 1..Len(delivered)
         /\ \A i \in 1..Len(codec) : codec[i] \in Chunk
BY DEF DecoderTypeOK

\* The samples of a frame follow the ones before it.
LEMMA SamplesOfFrame ==
  ASSUME NEW chunk \in Chunk
  PROVE  /\ SamplesOf(chunk) \in Seq(Nat) /\ Len(SamplesOf(chunk)) = chunk.samples
         /\ \A i \in 1..chunk.samples : SamplesOf(chunk)[i] = chunk.from + i
BY SMT DEF SamplesOf, Chunk

------------------------------------------------------------------------------
(* One lemma for each operation that moves samples *)

\* Reading: the packet in hand continues what was read before it.
LEMMA ReadFrameKeeps == DecoderInv /\ ReadFrame => DecoderInv'
<1> SUFFICES ASSUME DecoderInv, ReadFrame PROVE DecoderInv'
  OBVIOUS
<1> USE DEF DecoderInv
<1>1. CASE UNCHANGED <<file, packet_, packet_consumed_, read>>
  <2>1. UNCHANGED <<codec, fifo_, wanted, consumed, delivered>>
    BY DEF ReadFrame
  <2>2. pc' \in {pc, "idle", "FillFifo"} /\ trouble' \in Nat
    <3>1. trouble \in Nat
      BY DEF DecoderTypeOK
    <3>2. trouble' \in {trouble, trouble + 1} /\ pc' \in {pc, AfterFillDecoder}
      BY ONLY ReadFrame DEF ReadFrame
    <3> QED
      BY ONLY <3>1, <3>2 DEF AfterFillDecoder
  <2>3. DecoderTypeOK'
    BY <1>1, <2>1, <2>2 DEF DecoderTypeOK
  <2>4. Sized' /\ NothingLost' /\ FifoBounded'
    BY <1>1, <2>1 DEF Sized, NothingLost, FifoBounded, Before
  <2> QED
    BY <2>3, <2>4
<1>2. CASE /\ file # << >> /\ Head(file).kind = "other" /\ file' = Tail(file)
           /\ UNCHANGED <<packet_, packet_consumed_, pc, read, trouble>>
  BY <1>2, HeadIsPacket DEF ReadFrame, DecoderTypeOK, Sized, NothingLost, FifoBounded, Before
<1>3. CASE /\ file # << >> /\ file' = Tail(file) /\ packet_consumed_' = FALSE
           /\ packet_' = [from |-> read, samples |-> Head(file).samples]
           /\ read' = read + Head(file).samples
           /\ UNCHANGED <<pc, trouble>>
  <2>2. packet_consumed_ /\ UNCHANGED <<codec, fifo_, wanted, consumed, delivered>>
    BY DEF ReadFrame
  <2>0. /\ Head(file).samples \in Nat /\ Head(file).samples <= MaxFrame
        /\ Tail(file) \in Seq(Packet)
        /\ \A i \in DOMAIN Tail(file) : Tail(file)[i].samples <= MaxFrame
    BY <1>3, HeadIsPacket
  <2>1. DecoderTypeOK'
    <3>1. packet_' \in Chunk /\ read' \in Nat
      BY <1>3, <2>0 DEF DecoderTypeOK, Chunk
    <3> QED
      BY <1>3, <2>0, <2>2, <3>1 DEF DecoderTypeOK
  <2>4. Sized'
    BY <1>3, <2>0, <2>2 DEF Sized
  <2>3. NothingLost' /\ FifoBounded'
    BY <1>3, <2>2, HeadIsPacket DEF NothingLost, FifoBounded, Before
  <2> QED
    BY <2>1, <2>3, <2>4
<1> QED
  BY <1>1, <1>2, <1>3 DEF ReadFrame

\* Sending: the packet becomes the last frame of the codec, or stays in hand.
LEMMA SendPacketKeeps == DecoderInv /\ SendPacket => DecoderInv'
<1> SUFFICES ASSUME DecoderInv, SendPacket PROVE DecoderInv'
  OBVIOUS
<1> USE DEF DecoderInv
<1>0. UNCHANGED <<file, fifo_, wanted, consumed, read, delivered, trouble>> /\ ~packet_consumed_
  BY DEF SendPacket
<1>1. CASE UNCHANGED <<packet_, packet_consumed_, codec>>
  BY <1>0, <1>1 DEF SendPacket, DecoderTypeOK, Sized, NothingLost, FifoBounded, Before,
              AfterFillDecoder
<1>2. CASE /\ codec' = Append(codec, packet_) /\ packet_' = Blank
           /\ packet_consumed_' = TRUE /\ UNCHANGED pc
  <2> DEFINE next(i) == IF i = 1 THEN Len(delivered') + Len(fifo_')
                        ELSE codec'[i - 1].from + codec'[i - 1].samples
  <2>1. packet_ \in Chunk
    BY DEF DecoderTypeOK
  <2>2. /\ codec' \in Seq(Chunk) /\ Len(codec') = Len(codec) + 1
        /\ \A i \in 1..Len(codec) : codec'[i] = codec[i]
        /\ codec'[Len(codec) + 1] = packet_
    BY <1>2, <2>1, SequenceFacts, AppendProperties
  <2>3. DOMAIN codec' = 1..(Len(codec) + 1)
    BY <2>2
  <2>4. DecoderTypeOK'
    BY <1>0, <1>2, <2>2 DEF DecoderTypeOK, Blank, Chunk
  <2>5. Sized'
    BY <1>0, <1>2, <2>2, <2>3, SequenceFacts, DecoderConfig DEF Sized, Blank
  <2>6. \A i \in 1..(Len(codec) + 1) : next(i) = Before(i)
    <3> SUFFICES ASSUME NEW i \in 1..(Len(codec) + 1) PROVE next(i) = Before(i)
      OBVIOUS
    <3>1. CASE i = 1
      BY <1>0, <3>1 DEF Before
    <3>2. CASE i # 1
      <4>1. i - 1 \in 1..Len(codec)
        BY <3>2, SequenceFacts
      <4>2. codec'[i - 1] = codec[i - 1]
        BY <2>2, <4>1
      <4> QED
        BY <3>2, <4>2 DEF Before
    <3> QED
      BY <3>1, <3>2
  <2>7. next(Len(codec) + 2) = packet_.from + packet_.samples
    <3>1. (Len(codec) + 2) - 1 = Len(codec) + 1 /\ Len(codec) + 2 # 1
      BY SequenceFacts
    <3> QED
      BY <2>2, <3>1
  <2>8. \A i \in 1..(Len(codec) + 1) : codec'[i].from = Before(i)
    <3>1. \A i \in 1..Len(codec) : codec'[i].from = Before(i)
      BY <2>2, SequenceFacts DEF NothingLost
    <3>2. codec'[Len(codec) + 1].from = Before(Len(codec) + 1)
      BY <1>0, <2>2 DEF NothingLost
    <3> HIDE DEF next
    <3> QED
      BY <3>1, <3>2, SequenceFacts
  <2>9. next(Len(codec') + 1) = read
    BY <1>0, <2>2, <2>7, SequenceFacts DEF NothingLost
  <2>10. \A i \in DOMAIN codec' : codec'[i].from = next(i)
    BY <2>3, <2>6, <2>8
  <2>11. NothingLost' /\ FifoBounded'
    BY <1>0, <1>2, <2>9, <2>10 DEF NothingLost, FifoBounded, Before
  <2> QED
    BY <2>4, <2>5, <2>11
<1> QED
  BY <1>1, <1>2 DEF SendPacket

\* Receiving: the first frame of the codec goes to the end of fifo_, which was
\* not full.
LEMMA FillFifoKeeps == DecoderInv /\ FillFifo => DecoderInv'
<1> SUFFICES ASSUME DecoderInv, FillFifo PROVE DecoderInv'
  OBVIOUS
<1> USE DEF DecoderInv
<1>0. UNCHANGED <<file, packet_, packet_consumed_, wanted, consumed, read, delivered, trouble>>
  BY DEF FillFifo
<1>1. CASE UNCHANGED <<codec, fifo_>>
  BY <1>0, <1>1 DEF FillFifo, DecoderTypeOK, Sized, NothingLost, FifoBounded, Before
<1>2. CASE /\ Len(fifo_) < fifo_capacity_ /\ Ready > 0 /\ codec' = Tail(codec)
           /\ \/ fifo_' = fifo_ \o SamplesOf(Head(codec))
              \/ Head(codec).samples = 0 /\ UNCHANGED fifo_
           /\ pc' \in {pc, "read"}
  <2> DEFINE head == codec[1]
             next(i) == IF i = 1 THEN Len(delivered') + Len(fifo_')
                        ELSE codec'[i - 1].from + codec'[i - 1].samples
  <2>1. /\ codec \in Seq(Chunk) /\ Len(codec) \in Nat /\ Len(codec) > 0
        /\ fifo_ \in Seq(Nat) /\ delivered \in Seq(Nat)
        /\ Len(fifo_) \in Nat /\ Len(delivered) \in Nat
        /\ DOMAIN codec = 1..Len(codec)
    BY <1>2, SequenceFacts, DecoderConfig DEF Ready
  <2>2. /\ Head(codec) = head /\ head \in Chunk
        /\ head.from \in Nat /\ head.samples \in Nat /\ head.samples <= MaxFrame
        /\ head.from = Len(delivered) + Len(fifo_)
    <3>1. 1 \in DOMAIN codec /\ head \in Chunk /\ Head(codec) = head
      BY <2>1
    <3>2. head.from = Before(1) /\ head.samples <= MaxFrame
      BY <3>1 DEF NothingLost, Sized
    <3> QED
      BY <3>1, <3>2 DEF Before, Chunk
  <2>3. /\ codec' \in Seq(Chunk) /\ Len(codec') = Len(codec) - 1
        /\ \A i \in 1..Len(codec') : codec'[i] = codec[i + 1]
    BY <1>2, <2>1, HeadTailProperties
  <2>4. /\ fifo_' \in Seq(Nat) /\ Len(fifo_') = Len(fifo_) + head.samples
        /\ \A i \in DOMAIN fifo_' : fifo_'[i] = Len(delivered) + i
    <3>0. \A i \in 1..Len(fifo_) : fifo_[i] = Len(delivered) + i
      BY SequenceFacts DEF NothingLost
    <3> HIDE DEF head
    <3>1. CASE Head(codec).samples = 0 /\ UNCHANGED fifo_
      <4>1. head.samples = 0 /\ fifo_' = fifo_
        BY <3>1, <2>2
      <4>2. DOMAIN fifo_' = 1..Len(fifo_) /\ Len(fifo_') = Len(fifo_) + head.samples
        BY <4>1, <2>1
      <4> QED
        BY <3>0, <4>1, <4>2, <2>1
    <3>2. CASE fifo_' = fifo_ \o SamplesOf(Head(codec))
      <4>1. /\ SamplesOf(head) \in Seq(Nat) /\ Len(SamplesOf(head)) = head.samples
            /\ \A i \in 1..head.samples : SamplesOf(head)[i] = head.from + i
        BY <2>2, SamplesOfFrame
      <4>2. fifo_' = fifo_ \o SamplesOf(head)
        BY <3>2, <2>2
      <4>3. /\ fifo_' \in Seq(Nat) /\ Len(fifo_') = Len(fifo_) + head.samples
            /\ \A i \in 1..(Len(fifo_) + head.samples) : fifo_'[i] =
                 IF i <= Len(fifo_) THEN fifo_[i] ELSE SamplesOf(head)[i - Len(fifo_)]
        <5> DEFINE new == SamplesOf(head)
        <5>1. new \in Seq(Nat) /\ Len(new) = head.samples
          BY <4>1
        <5>2. fifo_' = fifo_ \o new
          BY <4>2
        <5>3. fifo_ \in Seq(Nat)
          BY <2>1
        <5> HIDE DEF new
        <5>4. /\ fifo_ \o new \in Seq(Nat) /\ Len(fifo_ \o new) = Len(fifo_) + Len(new)
              /\ \A i \in 1..(Len(fifo_) + Len(new)) : (fifo_ \o new)[i] =
                   IF i <= Len(fifo_) THEN fifo_[i] ELSE new[i - Len(fifo_)]
          BY <5>1, <5>3, ConcatProperties
        <5>5. /\ fifo_' \in Seq(Nat) /\ Len(fifo_') = Len(fifo_) + head.samples
              /\ \A i \in 1..(Len(fifo_) + head.samples) : fifo_'[i] =
                   IF i <= Len(fifo_) THEN fifo_[i] ELSE new[i - Len(fifo_)]
          BY <5>1, <5>2, <5>4
        <5> QED
          BY <5>5 DEF new
      <4>4. DOMAIN fifo_' = 1..(Len(fifo_) + head.samples)
        BY <4>3
      <4>5. ASSUME NEW i \in 1..(Len(fifo_) + head.samples)
            PROVE  fifo_'[i] = Len(delivered) + i
        <5>1. CASE i <= Len(fifo_)
          BY <3>0, <4>3, <5>1, <2>1, <2>2
        <5>2. CASE i > Len(fifo_)
          BY <4>1, <4>3, <5>2, <2>1, <2>2
        <5> QED
          BY <5>1, <5>2, <2>1
      <4> QED
        BY <4>3, <4>4, <4>5
    <3> QED
      BY <1>2, <3>1, <3>2
  <2>5. DecoderTypeOK'
    BY <1>0, <1>2, <2>3, <2>4 DEF DecoderTypeOK
  <2>6. DOMAIN codec' = 1..(Len(codec) - 1)
    BY <2>1, <2>3
  <2>7. Sized'
    <3>1. ASSUME NEW i \in DOMAIN codec' PROVE codec'[i].samples <= MaxFrame
      <4>1. i + 1 \in DOMAIN codec /\ codec'[i] = codec[i + 1]
        BY <2>1, <2>3, <2>6
      <4> QED
        BY <4>1 DEF Sized
    <3> QED
      BY <1>0, <3>1 DEF Sized
  <2>8. \A i \in 1..Len(codec) : next(i) = Before(i + 1)
    <3> SUFFICES ASSUME NEW i \in 1..Len(codec) PROVE next(i) = Before(i + 1)
      OBVIOUS
    <3>0. Before(i + 1) = codec[i].from + codec[i].samples
      BY <2>1 DEF Before
    <3>1. CASE i = 1
      BY <1>0, <3>0, <3>1, <2>1, <2>2, <2>4
    <3>2. CASE i # 1
      <4>1. i - 1 \in 1..Len(codec') /\ (i - 1) + 1 = i
        BY <3>2, <2>1, <2>3
      <4>2. codec'[i - 1] = codec[i]
        BY <2>3, <4>1
      <4> QED
        BY <3>0, <3>2, <4>2
    <3> QED
      BY <3>1, <3>2
  <2>9. /\ \A i \in DOMAIN codec' : codec'[i].from = next(i)
        /\ next(Len(codec') + 1) = Before(Len(codec) + 1)
    <3> HIDE DEF next
    <3>1. ASSUME NEW i \in DOMAIN codec' PROVE codec'[i].from = next(i)
      <4>1. i \in 1..Len(codec) /\ i + 1 \in DOMAIN codec /\ codec'[i] = codec[i + 1]
        BY <2>1, <2>3, <2>6
      <4> QED
        BY <4>1, <2>8 DEF NothingLost
    <3>2. Len(codec') + 1 = Len(codec) /\ Len(codec) \in 1..Len(codec)
      BY <2>1, <2>3
    <3> QED
      BY <3>1, <3>2, <2>8
  <2>10. NothingLost'
    BY <1>0, <2>4, <2>9 DEF NothingLost, Before
  <2>11. FifoBounded'
    <3>1. /\ Len(fifo_) < fifo_capacity_ /\ Len(fifo_) \in Nat /\ head.samples \in Nat
          /\ head.samples <= MaxFrame /\ Len(fifo_') = Len(fifo_) + head.samples
          /\ fifo_capacity_ \in Nat /\ MaxFrame \in Nat
      BY <1>2, <2>1, <2>2, <2>4, CapacityIsNat, DecoderConfig
    <3> HIDE DEF head
    <3>2. Len(fifo_') < fifo_capacity_ + MaxFrame
      BY ONLY <3>1
    <3> QED
      BY <3>2 DEF FifoBounded, fifo_capacity_
  <2> QED
    BY <2>5, <2>7, <2>10, <2>11
<1> QED
  BY <1>1, <1>2 DEF FillFifo

\* Handing out: the first samples of fifo_ continue what was handed out before.
LEMMA ConsumeReturnKeeps == DecoderInv /\ ConsumeReturn => DecoderInv'
<1> SUFFICES ASSUME DecoderInv, ConsumeReturn PROVE DecoderInv'
  OBVIOUS
<1> USE DEF DecoderInv
<1> DEFINE n == target_samples
           taken == SubSeq(fifo_, 1, n)
<1>0. /\ UNCHANGED <<file, packet_, packet_consumed_, codec, wanted, read, trouble>>
      /\ delivered' = delivered \o taken /\ fifo_' = SubSeq(fifo_, n + 1, Len(fifo_))
      /\ consumed' = n * 2 * ChannelNum /\ pc' = "idle"
  BY DEF ConsumeReturn
<1>1. /\ fifo_ \in Seq(Nat) /\ Len(fifo_) \in Nat /\ delivered \in Seq(Nat)
      /\ Len(delivered) \in Nat /\ n \in Nat /\ n <= Len(fifo_)
      /\ \A i \in 1..Len(fifo_) : fifo_[i] \in Nat /\ fifo_[i] = Len(delivered) + i
      /\ \A i \in 1..Len(delivered) : delivered[i] = i
  BY DEF DecoderTypeOK, NothingLost, target_samples
<1> HIDE DEF n
<1>2. /\ taken \in Seq(Nat) /\ Len(taken) = n
      /\ \A i \in 1..n : taken[i] = fifo_[i]
  <2>1. \A i \in 1..n : fifo_[i] \in Nat
    BY <1>1
  <2> QED
    BY <1>1, <2>1, SubSeqProperties
<1>3. /\ fifo_' \in Seq(Nat) /\ Len(fifo_') = Len(fifo_) - n
      /\ \A i \in 1..Len(fifo_') : fifo_'[i] = fifo_[n + i]
  <2>1. \A i \in (n + 1)..Len(fifo_) : fifo_[i] \in Nat
    BY <1>1
  <2> QED
    BY <1>0, <1>1, <2>1, SubSeqProperties
<1> HIDE DEF taken
<1>4. /\ delivered' \in Seq(Nat) /\ Len(delivered') = Len(delivered) + n
      /\ \A i \in 1..Len(delivered) + n : delivered'[i] =
           IF i <= Len(delivered) THEN delivered[i] ELSE taken[i - Len(delivered)]
  BY <1>0, <1>1, <1>2, ConcatProperties
<1>5. \A i \in DOMAIN delivered' : delivered'[i] = i
  <2>1. DOMAIN delivered' = 1..(Len(delivered) + n)
    BY <1>4
  <2>2. ASSUME NEW i \in 1..(Len(delivered) + n) PROVE delivered'[i] = i
    <3>1. CASE i <= Len(delivered)
      <4>1. i \in 1..Len(delivered)
        BY <1>1, <3>1
      <4>2. delivered'[i] = delivered[i]
        BY ONLY <1>4, <3>1, i \in 1..(Len(delivered) + n)
      <4> QED
        BY ONLY <1>1, <4>1, <4>2
    <3>2. CASE i > Len(delivered)
      <4>1. i - Len(delivered) \in 1..n /\ i - Len(delivered) \in 1..Len(fifo_)
        BY <1>1, <3>2
      <4>2. delivered'[i] = fifo_[i - Len(delivered)]
        BY <1>1, <1>2, <1>4, <3>2, <4>1
      <4> QED
        BY <1>1, <4>1, <4>2
    <3> QED
      BY <3>1, <3>2, <1>1
  <2> QED
    BY <2>1, <2>2
<1>6. \A i \in DOMAIN fifo_' : fifo_'[i] = Len(delivered') + i
  <2>1. DOMAIN fifo_' = 1..(Len(fifo_) - n)
    BY <1>3
  <2>2. ASSUME NEW i \in 1..(Len(fifo_) - n) PROVE fifo_'[i] = Len(delivered') + i
    <3>1. n + i \in 1..Len(fifo_) /\ fifo_'[i] = fifo_[n + i]
      BY <1>1, <1>3
    <3> QED
      BY <1>1, <1>4, <3>1
  <2> QED
    BY <2>1, <2>2
<1>7. Len(delivered') + Len(fifo_') = Len(delivered) + Len(fifo_)
  BY <1>1, <1>3, <1>4
<1>8. n * 2 * ChannelNum \in Nat
  BY <1>1, DecoderConfig
<1>9. DecoderTypeOK' /\ Sized'
  BY <1>0, <1>3, <1>4, <1>8 DEF DecoderTypeOK, Sized
<1>10. NothingLost'
  BY <1>0, <1>5, <1>6, <1>7 DEF NothingLost, Before
<1>11. FifoBounded'
  BY <1>1, <1>3, CapacityIsNat, DecoderConfig DEF FifoBounded
<1> QED
  BY <1>9, <1>10, <1>11

------------------------------------------------------------------------------
\* The invariant holds at the start, whatever the file.
LEMMA DecoderStart == DecoderInit => DecoderInv
<1> SUFFICES ASSUME DecoderInit PROVE DecoderInv
  OBVIOUS
<1>1. file \in Seq(Packet) /\ \A i \in DOMAIN file : file[i].samples <= MaxFrame
  BY DecoderConfig DEF DecoderInit
<1>2. DecoderTypeOK
  BY <1>1 DEF DecoderInit, DecoderTypeOK, Blank, Chunk
<1>3. Sized
  BY <1>1, DecoderConfig DEF DecoderInit, Sized, Blank
<1>4. NothingLost /\ FifoBounded
  BY DEF DecoderInit, NothingLost, FifoBounded, Before
<1> QED
  BY <1>2, <1>3, <1>4 DEF DecoderInv

\* Calling Consume, whatever is asked of it.
LEMMA ConsumeKeeps ==
  ASSUME DecoderInv, NEW samples \in Nat, Consume(samples)
  PROVE  DecoderInv'
BY DEF Consume, DecoderInv, DecoderTypeOK, Sized, NothingLost, FifoBounded, Before

LEMMA DecodeKeeps == DecoderInv /\ Decode => DecoderInv'
BY ReadFrameKeeps, SendPacketKeeps, FillFifoKeeps DEF Decode

LEMMA DecoderStutters == DecoderInv /\ UNCHANGED decoderVars => DecoderInv'
BY DEF decoderVars, DecoderInv, DecoderTypeOK, Sized, NothingLost, FifoBounded, Before

\* The invariant holds over every file, with every codec, whatever is asked of
\* Consume.
LEMMA DecoderInvariant == DecoderSpec => []DecoderInv
<1>1. DecoderInv /\ [DecoderNext]_decoderVars => DecoderInv'
  <2> SUFFICES ASSUME DecoderInv, [DecoderNext]_decoderVars PROVE DecoderInv'
    OBVIOUS
  <2>1. ASSUME NEW samples \in Requests, Consume(samples) PROVE DecoderInv'
    BY <2>1, ConsumeKeeps, DecoderConfig
  <2> QED
    BY <2>1, DecodeKeeps, ConsumeReturnKeeps, DecoderStutters DEF DecoderNext
<1> QED
  BY DecoderStart, <1>1, PTL DEF DecoderSpec

\* The variables keep their types, and a packet the codec took is unreferenced.
THEOREM DecoderTypeCorrect == DecoderSpec => []DecoderTypeOK
<1>1. DecoderInv => DecoderTypeOK
  BY DEF DecoderInv
<1> QED
  BY <1>1, DecoderInvariant, PTL

\* Every sample read from the file is exactly once, and in order, in what
\* Consume handed out, fifo_, the codec or the packet in hand.
THEOREM NothingIsLost == DecoderSpec => []NothingLost
<1>1. DecoderInv => NothingLost
  BY DEF DecoderInv
<1> QED
  BY <1>1, DecoderInvariant, PTL

\* fifo_ never holds a whole frame more than the capacity FillFifo tests.
THEOREM FifoIsBounded == DecoderSpec => []FifoBounded
<1>1. DecoderInv => FifoBounded
  BY DEF DecoderInv
<1> QED
  BY <1>1, DecoderInvariant, PTL
=============================================================================
