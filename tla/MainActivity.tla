---------------------------- MODULE MainActivity ----------------------------
(***************************************************************************)
(* MainActivity of the Android example.  Each button starts a worker       *)
(* thread with a native object of its own; all workers share the volatile  *)
(* mRunning, which onPause clears and every button sets again.  Self is    *)
(* any one worker: its object is a NativeHandle (ImplementsHandle).        *)
(* AudioTrack, AudioRecord and files are external: they take time, and     *)
(* streams may throw.                                                      *)
(***************************************************************************)
EXTENDS Naturals

CONSTANTS Workers, Self, Finalizer

ASSUME WorkerConfig == Self \in Workers /\ Finalizer \notin Workers

VARIABLES
  mRunning,
  test,       \* per worker: what its button started, "none" before
  pc,         \* per worker
  destroyed,  \* workers whose CppProxy is marked
  deletes,    \* per worker: how often its native object was deleted
  finalized   \* workers whose CppProxy was finalized

vars == <<mRunning, test, pc, destroyed, deletes, finalized>>

\* The mixer has a CppProxy; the other wrappers delete without a mark.
MixerTests == {"doMix", "doRecordAndMix"}
Tests == MixerTests \cup {"doResample", "doDecodeMono", "doDecodeAny"}

\* Tests that use file streams inside try.
Streams == {"doResample", "doRecordAndMix"}

Init ==
  /\ mRunning = FALSE /\ test = [w \in Workers |-> "none"]
  /\ pc = [w \in Workers |-> "unused"]
  /\ destroyed = {} /\ deletes = [w \in Workers |-> 0]
  /\ finalized = {}

Goto(w, places) == \E place \in places : pc' = [pc EXCEPT ![w] = place]

Press(w, button) ==
  /\ pc[w] = "unused"
  /\ mRunning' = TRUE
  /\ test' = [test EXCEPT ![w] = button] /\ Goto(w, {"create"})
  /\ UNCHANGED <<destroyed, deletes, finalized>>

onPause ==
  /\ mRunning' = FALSE
  /\ UNCHANGED <<test, pc, destroyed, deletes, finalized>>

\* The object, then the streams.
Create(w) ==
  /\ pc[w] = "create"
  /\ Goto(w, IF test[w] \in Streams THEN {"loop", "stop"} ELSE {"loop"})
  /\ UNCHANGED <<mRunning, test, destroyed, deletes, finalized>>

\* Mutant: the loop ends with the data only.
LoopOn(w) ==
  /\ pc[w] = "loop" /\ Goto(w, {"call"})
  /\ UNCHANGED <<mRunning, test, destroyed, deletes, finalized>>

\* The loop's condition; doResample reads its file first.
Loop(w) ==
  /\ pc[w] = "loop"
  /\ Goto(w, IF ~mRunning THEN {"stop"}
             ELSE IF test[w] = "doResample" THEN {"call", "stop"} ELSE {"call"})
  /\ UNCHANGED <<mRunning, test, destroyed, deletes, finalized>>

\* addRecordedData of doRecordAndMix before its mix, else the one call; then the
\* data is played or written, or the loop breaks.
Call(w) ==
  /\ pc[w] \in {"call", "mix"}
  /\ Goto(w, IF pc[w] = "call" /\ test[w] = "doRecordAndMix" THEN {"mix"} ELSE {"loop", "stop"})
  /\ UNCHANGED <<mRunning, test, destroyed, deletes, finalized>>

\* Mutant: destroy without a mark.
DestroyUnmarked(w) ==
  /\ pc[w] = "stop" /\ Goto(w, {"destroy"})
  /\ UNCHANGED <<mRunning, test, destroyed, deletes, finalized>>

\* The device is stopped and destroy is called.
Destroy(w) ==
  /\ pc[w] = "stop" /\ Goto(w, {"destroy"})
  /\ destroyed' = IF test[w] \in MixerTests THEN destroyed \cup {w} ELSE destroyed
  /\ UNCHANGED <<mRunning, test, deletes, finalized>>

nativeDestroy(w) ==
  /\ pc[w] = "destroy" /\ Goto(w, {"return"})
  /\ deletes' = [deletes EXCEPT ![w] = @ + 1]
  /\ UNCHANGED <<mRunning, test, destroyed, finalized>>

Return(w) ==
  /\ pc[w] = "return" /\ Goto(w, {"done"})
  /\ UNCHANGED <<mRunning, test, destroyed, deletes, finalized>>

\* finalize of a mixer nobody has any more; a marked one is left alone.
Finalize(w) ==
  /\ pc[w] = "done" /\ w \notin finalized /\ test[w] \in MixerTests
  /\ finalized' = finalized \cup {w} /\ destroyed' = destroyed \cup {w}
  /\ deletes' = [deletes EXCEPT ![w] = IF w \in destroyed THEN @ ELSE @ + 1]
  /\ UNCHANGED <<mRunning, test, pc>>

Work(w) == Create(w) \/ Loop(w) \/ Call(w) \/ Destroy(w) \/ nativeDestroy(w) \/ Return(w)

Next ==
  \/ onPause
  \/ \E w \in Workers :
       \/ \E button \in Tests : Press(w, button)
       \/ Work(w) \/ Finalize(w)

\* Worker threads are scheduled and their calls return.
Spec == Init /\ [][Next]_vars /\ \A w \in Workers : WF_vars(Work(w))

------------------------------------------------------------------------------
\* Self's object seen as a NativeHandle.  addRecordedData and mix count as one
\* call; the wrappers without a mark are destroyed when destroy is called.
Marked ==
  IF test[Self] \in MixerTests THEN Self \in destroyed
  ELSE pc[Self] \in {"destroy", "return", "done"}

HandlePc ==
  [t \in {Self, Finalizer} |->
     IF t = Finalizer THEN "idle"
     ELSE CASE pc[Self] \in {"call", "mix"} -> "static"
            [] pc[Self] = "destroy" -> "destroying"
            [] OTHER -> "idle"]

HandleRefs ==
  {t \in {Self, Finalizer} : IF t = Self THEN pc[Self] # "done" ELSE Self \notin finalized}

Handle == INSTANCE NativeHandle WITH
  Threads <- {Self}, asserts <- "off",
  destroyed <- IF Marked THEN "true" ELSE "false",
  deletes <- deletes[Self], pc <- HandlePc, refs <- HandleRefs,
  fault <- "none", breach <- {}

\* Whatever the buttons and pauses, on every path out of its loop (no more data,
\* an error, an exception, a pause) a worker calls its native object only before
\* destroying it and destroys it once, also when finalize follows: it makes only
\* steps of NativeHandle, and none that breaches it.
ImplementsHandle == Handle!Spec

\* Places of a worker that has not left its loop.
InLoop == {"create", "loop", "call", "mix"}

\* A paused worker stops and deletes its object, unless a button sets mRunning
\* again before the worker has left its loop; one that has left it is not revived
\* by a button.
PausedWorkersStop ==
  \A w \in Workers :
    (~mRunning /\ pc[w] # "unused") ~>
      \/ mRunning /\ pc[w] \in InLoop
      \/ pc[w] = "done" /\ deletes[w] = 1
=============================================================================
