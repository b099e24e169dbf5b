-------------------------- MODULE MCAudioFileSource --------------------------
EXTENDS AudioFileSource, SequencesExt

FilesOf(sizes) ==
  BoundedSeq({[kind |-> "audio", samples |-> n] : n \in sizes}
             \cup {[kind |-> "other", samples |-> 0]}, 4)
\* Frames of at least the two samples one Read asks for; and frames so short that
\* those the codec takes at once are fewer than the three samples it asks for.
LongFrames == FilesOf({2, 3})
ShortFrames == FilesOf({1})
=============================================================================
