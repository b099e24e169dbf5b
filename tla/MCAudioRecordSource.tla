------------------------ MODULE MCAudioRecordSource ------------------------
(* Push sizes for TLC, in bytes: nothing, an odd size, one element, less    *)
(* than, exactly and more than a frame.                                     *)
EXTENDS AudioRecordSource

MCByteSizes == {0, 2, 5, 8, 14}
=============================================================================
