------------------------- MODULE MCAudioFileDecoder -------------------------
EXTENDS AudioFileDecoder, SequencesExt

MCPackets == {[kind |-> "audio", samples |-> 1], [kind |-> "audio", samples |-> 3],
              [kind |-> "other", samples |-> 0], [kind |-> "corrupt", samples |-> 0]}
MCFiles == BoundedSeq(MCPackets, 4)
=============================================================================
