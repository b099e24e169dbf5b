-------------------------- MODULE AudioFileDecoder --------------------------
(***************************************************************************)
(* AudioFileDecoder: packets of the file go through the codec into fifo_,  *)
(* from which Consume serves its caller.  One thread; a step is one call   *)
(* of FFmpeg with what the code does about its answer.                     *)
(*                                                                         *)
(* FFmpeg is external.  The demuxer delivers the packets of the file in    *)
(* order, or fails for once; a codec takes packets until CodecRoom frames  *)
(* are ready to be received, keeps CodecDelay frames back, and reports a   *)
(* corrupt packet either when it is sent or when its frame is due.         *)
(* The samples of the audio stream are numbered 1, 2, 3, ...; a packet and *)
(* its frame stand for the samples from + 1 to from + samples.             *)
(***************************************************************************)
EXTENDS FrameSizes, Sequences

CONSTANTS
  Files,        \* files to decode: sequences of Packet
  SampleRate, ChannelNum,
  CodecRoom, CodecDelay,
  MaxFrame,     \* no packet holds more samples
  Requests,     \* samples asked of Consume
  MaxTrouble    \* bound: reads that fail

Packet == [kind : {"audio"}, samples : Nat \ {0}]
          \cup [kind : {"other", "corrupt"}, samples : {0}]
Chunk == [from : Nat, samples : Nat]
Blank == [from |-> 0, samples |-> 0]

ASSUME DecoderConfig ==
  /\ Files \subseteq Seq(Packet) /\ Requests \subseteq Nat \ {0}
  /\ SampleRate \in Nat /\ ChannelNum \in Nat \ {0}
  /\ CodecRoom \in Nat \ {0} /\ CodecDelay \in Nat /\ MaxTrouble \in Nat
  /\ MaxFrame \in Nat /\ \A f \in Files : \A i \in DOMAIN f : f[i].samples <= MaxFrame

VARIABLES
  file,              \* packets av_read_frame has not delivered yet
  packet_, packet_consumed_,  \* the packet in hand
  codec,             \* packets sent whose frame was not received
  fifo_,
  pc, wanted,        \* where the thread is; the argument of Consume
  consumed,          \* the last result of Consume, in bytes
  read,              \* history: samples read from the file
  delivered,         \* history: samples handed out by Consume
  trouble            \* history: reads that failed

decoderVars == <<file, packet_, packet_consumed_, codec, fifo_, pc, wanted, consumed,
                 read, delivered, trouble>>

\* Room for 100 ms.
fifo_capacity_ == (10 * SampleRate) \div (1000 \div kFrameDurationInMs)

\* The constructor opens the file (failing that, it aborts) and fills the codec.
DecoderInit ==
  /\ file \in Files
  /\ packet_ = Blank /\ packet_consumed_ = TRUE
  /\ codec = << >> /\ fifo_ = << >>
  /\ pc = "construct" /\ wanted = 0 /\ consumed = 0
  /\ read = 0 /\ delivered = << >> /\ trouble = 0

Consume(samples) ==
  /\ pc = "idle"
  /\ pc' = "FillDecoder" /\ wanted' = samples
  /\ UNCHANGED <<file, packet_, packet_consumed_, codec, fifo_, consumed, read, delivered, trouble>>

FillsDecoder == pc \in {"construct", "FillDecoder"}
AfterFillDecoder == IF pc = "construct" THEN "idle" ELSE "FillFifo"

\* Mutant: a packet of another stream ends the loop.
ReadFrameStops ==
  /\ FillsDecoder /\ packet_consumed_
  /\ \/ /\ (file # << >> => Head(file).kind = "other")
        /\ pc' = AfterFillDecoder
        /\ file' = IF file = << >> THEN file ELSE Tail(file)
        /\ UNCHANGED <<packet_, packet_consumed_, read>>
     \/ /\ file # << >> /\ Head(file).kind # "other"
        /\ file' = Tail(file) /\ packet_consumed_' = FALSE
        /\ packet_' = [from |-> read, samples |-> Head(file).samples]
        /\ read' = read + Head(file).samples
        /\ UNCHANGED pc
  /\ UNCHANGED <<codec, fifo_, wanted, consumed, delivered, trouble>>

\* av_read_frame: an end of the file and an error look the same; packets of
\* other streams are skipped.
ReadFrame ==
  /\ FillsDecoder /\ packet_consumed_
  /\ \/ /\ file = << >>
        /\ pc' = AfterFillDecoder
        /\ UNCHANGED <<file, packet_, packet_consumed_, read, trouble>>
     \/ /\ trouble < MaxTrouble
        /\ pc' = AfterFillDecoder /\ trouble' = trouble + 1
        /\ UNCHANGED <<file, packet_, packet_consumed_, read>>
     \/ /\ file # << >> /\ Head(file).kind = "other"
        /\ file' = Tail(file)
        /\ UNCHANGED <<packet_, packet_consumed_, pc, read, trouble>>
     \/ /\ file # << >> /\ Head(file).kind # "other"
        /\ file' = Tail(file) /\ packet_consumed_' = FALSE
        /\ packet_' = [from |-> read, samples |-> Head(file).samples]
        /\ read' = read + Head(file).samples
        /\ UNCHANGED <<pc, trouble>>
  /\ UNCHANGED <<codec, fifo_, wanted, consumed, delivered>>

Ready == Len(codec) - CodecDelay
CodecTakes == Ready < CodecRoom

\* Mutant: the packet is not unreferenced.
SendPacketKept ==
  /\ FillsDecoder /\ ~packet_consumed_
  /\ \/ /\ CodecTakes
        /\ codec' = Append(codec, packet_) /\ packet_consumed_' = TRUE
        /\ UNCHANGED pc
     \/ /\ ~CodecTakes
        /\ pc' = AfterFillDecoder
        /\ UNCHANGED <<packet_consumed_, codec>>
  /\ UNCHANGED <<file, packet_, fifo_, wanted, consumed, read, delivered, trouble>>

\* Mutant: EAGAIN is taken for success.
SendPacketDropped ==
  /\ FillsDecoder /\ ~packet_consumed_
  /\ packet_' = Blank /\ packet_consumed_' = TRUE
  /\ codec' = IF CodecTakes THEN Append(codec, packet_) ELSE codec
  /\ UNCHANGED <<file, fifo_, pc, wanted, consumed, read, delivered, trouble>>

\* Mutant: EAGAIN is answered by trying again.
SendPacketRetried ==
  /\ FillsDecoder /\ ~packet_consumed_
  /\ \/ /\ CodecTakes
        /\ codec' = Append(codec, packet_)
        /\ packet_' = Blank /\ packet_consumed_' = TRUE
     \/ /\ ~CodecTakes
        /\ UNCHANGED <<packet_, packet_consumed_, codec>>
  /\ UNCHANGED <<file, fifo_, pc, wanted, consumed, read, delivered, trouble>>

\* avcodec_send_packet: on EAGAIN the packet stays in hand for the next call, on
\* an error the program aborts.  AVERROR_EOF does not occur: nothing flushes
\* the codec.
SendPacket ==
  /\ FillsDecoder /\ ~packet_consumed_
  /\ \/ /\ CodecTakes
        /\ codec' = Append(codec, packet_)
        /\ packet_' = Blank /\ packet_consumed_' = TRUE
        /\ UNCHANGED pc
     \/ /\ CodecTakes /\ packet_.samples = 0
        /\ pc' = "aborted"
        /\ UNCHANGED <<packet_, packet_consumed_, codec>>
     \/ /\ ~CodecTakes
        /\ pc' = AfterFillDecoder
        /\ UNCHANGED <<packet_, packet_consumed_, codec>>
  /\ UNCHANGED <<file, fifo_, wanted, consumed, read, delivered, trouble>>

SamplesOf(chunk) == [i \in 1..chunk.samples |-> chunk.from + i]

\* Mutant: the fill level is not tested.
FillFifoUnbounded ==
  /\ pc = "FillFifo"
  /\ \/ /\ Ready > 0
        /\ fifo_' = fifo_ \o SamplesOf(Head(codec)) /\ codec' = Tail(codec)
        /\ UNCHANGED pc
     \/ /\ Ready <= 0 /\ pc' = "read"
        /\ UNCHANGED <<codec, fifo_>>
  /\ UNCHANGED <<file, packet_, packet_consumed_, wanted, consumed, read, delivered, trouble>>

\* One round of FillFifo; any answer but a frame ends it.
FillFifo ==
  /\ pc = "FillFifo"
  /\ \/ /\ Len(fifo_) < fifo_capacity_ /\ Ready > 0
        /\ codec' = Tail(codec)
        /\ \/ /\ Head(codec).samples > 0
              /\ fifo_' = fifo_ \o SamplesOf(Head(codec))
              /\ UNCHANGED pc
           \/ /\ Head(codec).samples = 0
              /\ pc' = "read"
              /\ UNCHANGED fifo_
     \/ /\ Len(fifo_) >= fifo_capacity_ \/ Ready <= 0
        /\ pc' = "read"
        /\ UNCHANGED <<codec, fifo_>>
  /\ UNCHANGED <<file, packet_, packet_consumed_, wanted, consumed, read, delivered, trouble>>

target_samples == IF Len(fifo_) < wanted THEN Len(fifo_) ELSE wanted

\* av_audio_fifo_read; the result counts two bytes for a sample of any format.
ConsumeReturn ==
  /\ pc = "read"
  /\ delivered' = delivered \o SubSeq(fifo_, 1, target_samples)
  /\ fifo_' = SubSeq(fifo_, target_samples + 1, Len(fifo_))
  /\ consumed' = target_samples * 2 * ChannelNum
  /\ pc' = "idle"
  /\ UNCHANGED <<file, packet_, packet_consumed_, codec, wanted, read, trouble>>

\* What Consume does before it returns.
Decode == ReadFrame \/ SendPacket \/ FillFifo

DecoderOver == pc = "aborted"

DecoderNext ==
  \/ \E samples \in Requests : Consume(samples)
  \/ Decode
  \/ ConsumeReturn
  \/ DecoderOver /\ UNCHANGED decoderVars

DecoderSpec == DecoderInit /\ [][DecoderNext]_decoderVars

\* A call goes on, and the caller asks again and again, as the loops of the
\* example applications do.
FairDecoderSpec == DecoderSpec /\ WF_decoderVars(DecoderNext)

------------------------------------------------------------------------------
\* Every variable has its type, and a packet that was consumed holds nothing.
DecoderTypeOK ==
  /\ file \in Seq(Packet) /\ packet_ \in Chunk /\ packet_consumed_ \in BOOLEAN
  /\ packet_consumed_ => packet_ = Blank
  /\ codec \in Seq(Chunk) /\ fifo_ \in Seq(Nat)
  /\ pc \in {"construct", "idle", "FillDecoder", "FillFifo", "read", "aborted"}
  /\ wanted \in Nat /\ consumed \in Nat
  /\ read \in Nat /\ delivered \in Seq(Nat) /\ trouble \in Nat

\* How many samples lie before the i-th frame of the codec.
Before(i) ==
  IF i = 1 THEN Len(delivered) + Len(fifo_) ELSE codec[i - 1].from + codec[i - 1].samples

\* Through packets that are refused and sent again, failing reads, corrupt
\* packets and a full fifo, every sample read from the file is exactly once, and
\* in order, in what Consume handed out, in fifo_, in the codec or in the packet
\* in hand.
NothingLost ==
  /\ \A i \in DOMAIN delivered : delivered[i] = i
  /\ \A i \in DOMAIN fifo_ : fifo_[i] = Len(delivered) + i
  /\ \A i \in DOMAIN codec : codec[i].from = Before(i)
  /\ IF packet_consumed_ THEN Before(Len(codec) + 1) = read
     ELSE packet_.from = Before(Len(codec) + 1) /\ packet_.from + packet_.samples = read

\* fifo_ exceeds the capacity it was allocated with by less than one frame,
\* however the frames and the requests fall: FillFifo tests the level before it
\* writes a whole frame.
FifoBounded == Len(fifo_) < fifo_capacity_ + MaxFrame \/ fifo_ = << >>

\* Unless the program aborts, a caller that keeps asking gets every sample but
\* those of the last CodecDelay frames: FillDecoder and FillFifo never wait for
\* each other, and the codec is never flushed.
EverythingDelivered ==
  <>(\/ pc = "aborted"
     \/ /\ file = << >> /\ packet_.samples = 0 /\ fifo_ = << >>
        /\ Len(codec) <= CodecDelay)
=============================================================================
