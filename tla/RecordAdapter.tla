---------------------------- MODULE RecordAdapter ----------------------------
(***************************************************************************)
(* The example's recording callback, deliverRecordAndMixedData, on top of  *)
(* the record source: the device delivers any number of samples, the       *)
(* adapter collects them to blocks of 10 ms in _buffer, hands each block   *)
(* to addRecordedData and mixes once.  All of it runs on the device's      *)
(* thread.  Sizes are in elements; the elements the device delivers are    *)
(* numbered 1, 2, 3, ..., those handed over are numbered again by the      *)
(* record source.                                                          *)
(***************************************************************************)
EXTENDS AudioRecordSource, TestMembers

CONSTANTS
  Callbacks,     \* elements a callback delivers
  MaxCaptured    \* bound: elements captured in a behaviour

ASSUME AdapterConfig == Callbacks \subseteq Nat /\ MaxCaptured \in Nat

VARIABLES
  _buffer,         \* a block, by position; its front waits for the next callback
  recordedSize,    \* elements of the running callback not taken yet
  step,            \* where the callback is
  captured,        \* history: elements taken from the device
  handed,          \* history: elements given to addRecordedData
  broken           \* history: a callback did not complete a block in waiting

adapterVars == <<vars, _buffer, recordedSize, step, captured, handed, broken>>

mixerInputSize == (ChannelNum * SampleRate) \div 100

AdapterInit ==
  /\ Init
  /\ _buffer = [i \in 1..mixerInputSize |-> Junk] /\ _remainingData = 0
  /\ recordedSize = 0 /\ step = "idle"
  /\ captured = 0 /\ handed = << >> /\ broken = FALSE

\* The same for a test that starts: a new _buffer, mixer and record source.
AdapterReset ==
  /\ data_' = << >> /\ size_' = 0 /\ info' = "none" /\ frame' = << >>
  /\ recorded' = 0 /\ heard' = << >>
  /\ _buffer' = [i \in 1..mixerInputSize |-> Junk] /\ recordedSize' = 0 /\ step' = "idle"
  /\ captured' = 0 /\ handed' = << >> /\ broken' = FALSE

\* memcpy of the next size elements to a position of _buffer.
Fill(from, size) ==
  /\ _buffer' = [i \in 1..mixerInputSize |->
                   IF i \in (from + 1)..(from + size) THEN captured + (i - from) ELSE _buffer[i]]
  /\ captured' = captured + size

\* Mutant: _remainingData is not reset when the block is complete.
CallbackUnreset(n) ==
  /\ step = "idle" /\ captured + n <= MaxCaptured
  /\ LET free == IF _remainingData > 0 THEN mixerInputSize - _remainingData ELSE 0
         size == IF n < free THEN n ELSE free
     IN  /\ Fill(_remainingData, size)
         /\ recordedSize' = n - size
         /\ step' = IF size > 0 /\ size = mixerInputSize - _remainingData THEN "add" ELSE "loop"
  /\ UNCHANGED <<vars, _remainingData, handed, broken>>

\* The start: a block in waiting is completed, if n suffices.  If it does not,
\* _remainingData stays what it was.
Callback(n) ==
  /\ step = "idle" /\ captured + n <= MaxCaptured
  /\ \/ /\ _remainingData = 0
        /\ recordedSize' = n /\ step' = "loop"
        /\ UNCHANGED <<_buffer, _remainingData, captured, broken>>
     \/ /\ _remainingData > 0 /\ n >= mixerInputSize - _remainingData
        /\ Fill(_remainingData, mixerInputSize - _remainingData)
        /\ recordedSize' = n - (mixerInputSize - _remainingData)
        /\ _remainingData' = 0 /\ step' = "add"
        /\ UNCHANGED broken
     \/ /\ _remainingData > 0 /\ n < mixerInputSize - _remainingData
        /\ Fill(_remainingData, n)
        /\ recordedSize' = 0 /\ step' = "loop"
        /\ broken' = (broken \/ n > 0)
        /\ UNCHANGED _remainingData
  /\ UNCHANGED <<vars, handed>>

AddRecorded ==
  /\ step = "add"
  /\ OnAudioRecorded(2 * mixerInputSize)
  /\ handed' = handed \o _buffer /\ step' = "mix"
  /\ UNCHANGED <<_buffer, _remainingData, recordedSize, captured, broken>>

\* Mutant: the call of mix is missing.
MixSkipped ==
  /\ step = "mix"
  /\ step' = "loop"
  /\ UNCHANGED <<vars, _buffer, _remainingData, recordedSize, captured, handed, broken>>

MixOnce ==
  /\ step = "mix"
  /\ GetAudioFrameWithInfo(SampleRate)
  /\ step' = "loop"
  /\ UNCHANGED <<_buffer, _remainingData, recordedSize, captured, handed, broken>>

\* One round of the loop over the rest of the callback.
Loop ==
  /\ step = "loop"
  /\ \/ /\ recordedSize = 0
        /\ step' = "idle"
        /\ UNCHANGED <<_buffer, _remainingData, recordedSize, captured>>
     \/ /\ recordedSize \in 1..(mixerInputSize - 1)
        /\ Fill(0, recordedSize)
        /\ _remainingData' = recordedSize /\ recordedSize' = 0 /\ step' = "idle"
     \/ /\ recordedSize >= mixerInputSize
        /\ Fill(0, mixerInputSize)
        /\ recordedSize' = recordedSize - mixerInputSize /\ step' = "add"
        /\ UNCHANGED _remainingData
  /\ UNCHANGED <<vars, handed, broken>>

------------------------------------------------------------------------------
\* What waits in _buffer: a block that is about to be handed over, or its front.
InHand == SubSeq(_buffer, 1, IF step = "add" THEN mixerInputSize ELSE _remainingData)

\* Recorded audio is lost or reordered on its way to the mixer only after a
\* callback that was too short to complete a block in waiting: the code then
\* does not advance _remainingData.
LossNeedsShortCallback ==
  _testType = "TEST_RECORD_AND_MIX" /\ ~broken => handed \o InHand = [i \in 1..captured |-> i]

\* The adapter mixes once for each block it hands over, so buffer_ of the record
\* source, which nothing else bounds, never holds more than one block, and no
\* mix finds it short.
OneBlockBuffered ==
  /\ size_ <= mixerInputSize /\ (step \in {"idle", "loop"} => size_ = 0)
  /\ info # "kMuted"
=============================================================================
