--------------------------- MODULE AudioMixerTest ---------------------------
(***************************************************************************)
(* AudioMixerTestController as a whole: the buttons on the main thread     *)
(* (TestController) against the device's thread, whose callbacks re-block  *)
(* the audio (PlayoutAdapter, RecordAdapter with its AudioRecordSource)    *)
(* over any sequence of tests.  A step of a callback can fall between any  *)
(* two steps of doStopTest.                                                *)
(***************************************************************************)
EXTENDS TestController, PlayoutAdapter, RecordAdapter

dataVars == <<_remainingData, blockVars, adapterVars>>
testVars == <<controllerVars, dataVars>>

TestInit == ControllerInit /\ PlayoutInit /\ AdapterInit

\* Mutant: _remainingData keeps its value from the test before.
StartTestKept(test) ==
  /\ Start(test)
  /\ UNCHANGED _remainingData
  /\ first' = 1 /\ size' = 0 /\ wantedSize' = 0
  /\ produced' = 0 /\ missing' = 0 /\ played' = << >>
  /\ AdapterReset

\* A test starts with new buffers and sources, and _remainingData = 0.
StartTest(test) ==
  /\ Start(test)
  /\ _remainingData' = 0
  /\ first' = 1 /\ size' = 0 /\ wantedSize' = 0
  /\ produced' = 0 /\ missing' = 0 /\ played' = << >>
  /\ AdapterReset

doStopTest == Release \/ StopDevice \/ StopReturn

\* NeedMorePlayData or RecordedDataIsAvailable is called for n samples.
BeginCallback ==
  /\ CallbackBegin
  /\ \/ /\ callback' \in PlayoutTests /\ UNCHANGED adapterVars
        /\ \E n \in Requests : Deliver(n)
     \/ /\ callback' = "TEST_RECORD_AND_MIX" /\ UNCHANGED blockVars
        /\ \E n \in Callbacks : Callback(n)
     \/ /\ callback' = "TEST_DECODE_MONO" /\ UNCHANGED dataVars

ContinueCallback ==
  \/ /\ callback \in PlayoutTests /\ UNCHANGED <<controllerVars, adapterVars>>
     /\ \E result \in BlocksOf(_testType) : NextBlock(result)
  \/ /\ callback = "TEST_RECORD_AND_MIX" /\ UNCHANGED <<controllerVars, blockVars>>
     /\ AddRecorded \/ MixOnce \/ Loop

EndCallback == wantedSize = 0 /\ step = "idle" /\ CallbackEnd /\ UNCHANGED dataVars

TestStep ==
  \/ \E test \in Tests : StartTest(test)
  \/ (Stop \/ doStopTest) /\ UNCHANGED dataVars
  \/ BeginCallback \/ ContinueCallback \/ EndCallback
  \/ (\E member \in UNION {Members[t] : t \in Tests} : CallbackUse(member)) /\ UNCHANGED dataVars

TestNext == (fault = "none" /\ TestStep) \/ (fault # "none" /\ UNCHANGED testVars)

\* doStopTest and a callback that have begun go on.
TestSpec ==
  /\ TestInit /\ [][TestNext]_testVars
  /\ WF_testVars(fault = "none" /\ doStopTest /\ UNCHANGED dataVars)
  /\ WF_testVars(fault = "none" /\ (ContinueCallback \/ EndCallback))
=============================================================================
