--------------------------- MODULE TestController ---------------------------
(***************************************************************************)
(* AudioMixerTestController of the iOS and macOS example.  The buttons run *)
(* on the main thread, the callbacks on the audio device's thread; no lock *)
(* is shared.  The audio device is external: it runs callbacks one at a    *)
(* time from its start on, and stopping it waits for a running callback.   *)
(* A pointer that doStopTest released (freed and set to null) is not in    *)
(* held any more; PlayoutAdapter and RecordAdapter model what a callback   *)
(* does with what it uses.                                                 *)
(***************************************************************************)
EXTENDS Naturals, Sequences, TestMembers

VARIABLES
  held,      \* members that point to something
  _adm,      \* the device: none, playing, recording, stopping, idle (failed to start)
  at,        \* main thread: 0, or the next step of doStopTest
  callback,  \* device thread: the test its callback serves, or "none"
  fault,     \* a member used after its release, or no device to stop
  breach     \* history: doStopTest without a test

controllerVars == <<_testType, held, _adm, at, callback, fault, breach>>

\* What each test creates, and its callback uses.  The mixer is not listed: no
\* member of it is released by doStopTest.
Members ==
  [TEST_DECODE_MONO    |-> {"_decoder"},
   TEST_RESAMPLE       |-> {"_resampler", "_resamplerReader", "_buffer", "_resamplerInputBuffer"},
   TEST_DECODE_ANY     |-> {"_source", "_buffer"},
   TEST_MIX            |-> {},
   TEST_RECORD_AND_MIX |-> {"_buffer", "_recordAndMixDumper"}]
Tests == DOMAIN Members

ControllerInit ==
  /\ _testType = "TEST_NONE" /\ held = {} /\ _adm = "none" /\ at = 0
  /\ callback = "none" /\ fault = "none" /\ breach = FALSE

\* The device may fail to start.
doStartTest(test) ==
  _adm' \in {IF test = "TEST_RECORD_AND_MIX" THEN "recording" ELSE "playing", "idle"}

\* doDecodeMono and the like; they return at once when a test was started.
Start(test) ==
  /\ at = 0 /\ _testType = "TEST_NONE"
  /\ _testType' = test /\ held' = Members[test]
  /\ doStartTest(test)
  /\ UNCHANGED <<at, callback, fault, breach>>

\* The order in which doStopTest releases the members.
Order == <<"_buffer", "_resamplerInputBuffer", "_decoder", "_resampler", "_source",
           "_resamplerReader", "_recordAndMixDumper">>

\* The button works whether a test was started or not.
Stop ==
  /\ at = 0
  /\ at' = 1 /\ breach' = (breach \/ _testType = "TEST_NONE")
  /\ UNCHANGED <<_testType, held, _adm, callback, fault>>

Release ==
  /\ at \in 1..Len(Order)
  /\ held' = held \ {Order[at]} /\ at' = at + 1
  /\ UNCHANGED <<_testType, _adm, callback, fault, breach>>

\* Mutant: StopPlayout whatever the test.
StopPlayoutAlways ==
  /\ at = Len(Order) + 1
  /\ _adm' = IF _adm = "playing" THEN "stopping" ELSE _adm
  /\ fault' = IF _adm = "none" THEN "null" ELSE fault
  /\ at' = at + 1
  /\ UNCHANGED <<_testType, held, callback, breach>>

\* StopRecording or StopPlayout: no callback begins any more.
StopDevice ==
  /\ at = Len(Order) + 1
  /\ _adm' = IF _adm = "none" THEN _adm ELSE "stopping"
  /\ fault' = IF _adm = "none" THEN "null" ELSE fault
  /\ at' = at + 1
  /\ UNCHANGED <<_testType, held, callback, breach>>

\* Mutant: _testType is not reset.
StopReturnKept ==
  /\ at = Len(Order) + 2 /\ callback = "none"
  /\ _adm' = "none" /\ at' = 0
  /\ UNCHANGED <<_testType, held, callback, fault, breach>>

\* It returns when the running callback has; then Terminate and the rest.
StopReturn ==
  /\ at = Len(Order) + 2 /\ callback = "none"
  /\ _adm' = "none" /\ _testType' = "TEST_NONE" /\ at' = 0
  /\ UNCHANGED <<held, callback, fault, breach>>

\* RecordedDataIsAvailable always delivers to the recording adapter,
\* NeedMorePlayData looks at _testType.
CallbackBegin ==
  /\ callback = "none" /\ _adm \in {"playing", "recording"}
  /\ callback' = IF _adm = "recording" THEN "TEST_RECORD_AND_MIX" ELSE _testType
  /\ UNCHANGED <<_testType, held, _adm, at, fault, breach>>

\* A callback uses a member that is gone.
CallbackUse(member) ==
  /\ callback \in Tests /\ member \in Members[callback] \ held
  /\ fault' = "released"
  /\ UNCHANGED <<_testType, held, _adm, at, callback, breach>>

CallbackEnd ==
  /\ callback # "none"
  /\ callback' = "none"
  /\ UNCHANGED <<_testType, held, _adm, at, fault, breach>>

ControllerStep ==
  \/ \E test \in Tests : Start(test)
  \/ Stop \/ Release \/ StopDevice \/ StopReturn
  \/ CallbackBegin \/ CallbackEnd
  \/ \E member \in held \cup {Order[i] : i \in DOMAIN Order} : CallbackUse(member)

ControllerNext == (fault = "none" /\ ControllerStep) \/ (fault # "none" /\ UNCHANGED controllerVars)

ControllerSpec == ControllerInit /\ [][ControllerNext]_controllerVars

------------------------------------------------------------------------------
\* Through any sequence of tests and however callbacks fall, a callback meets a
\* released member only if it overlaps doStopTest, which releases before it
\* stops the device, and never when mixing; and there is no device to stop only
\* if doStopTest was called without a test.
FaultNeedsOverlap ==
  /\ fault = "released" => at > 1 /\ _adm # "none" /\ callback # "TEST_MIX"
  /\ fault = "null" => breach

\* Unless it meets such a fault, doStopTest ends, and another test can start.
StopEnds == at > 0 ~> (fault # "none" \/ (at = 0 /\ _testType = "TEST_NONE"))
=============================================================================
