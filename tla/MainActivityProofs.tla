------------------------- MODULE MainActivityProofs -------------------------
(***************************************************************************)
(* The workers of the Android example use their native objects as          *)
(* NativeHandle allows, for any number of workers.                         *)
(***************************************************************************)
EXTENDS MainActivity, TLAPS

Places == {"unused", "create", "loop", "call", "mix", "stop", "destroy", "return", "done"}

\* Self's object is marked from the call of destroy on and deleted by it, and only
\* then finalized.
SelfInv ==
  /\ pc \in [Workers -> Places] /\ test \in [Workers -> Tests \cup {"none"}]
  /\ deletes \in [Workers -> Nat]
  /\ pc[Self] = "unused" <=> test[Self] = "none"
  /\ test[Self] \in MixerTests =>
       (Self \in destroyed <=> pc[Self] \in {"destroy", "return", "done"})
  /\ Self \in destroyed => test[Self] \in MixerTests
  /\ pc[Self] \notin {"return", "done"} => deletes[Self] = 0
  /\ Self \in finalized => pc[Self] = "done" /\ test[Self] \in MixerTests

\* A step of w is a move of its pc, and changes nothing of other workers.
LEMMA WorkerStep ==
  ASSUME SelfInv, NEW w \in Workers,
         (\E button \in Tests : Press(w, button)) \/ Work(w) \/ Finalize(w)
  PROVE  /\ pc' \in [Workers -> Places] /\ test' \in [Workers -> Tests \cup {"none"}]
         /\ deletes' \in [Workers -> Nat]
         /\ \A u \in Workers \ {w} : pc'[u] = pc[u] /\ test'[u] = test[u] /\ deletes'[u] = deletes[u]
         /\ \A u \in Workers \ {w} : /\ u \in destroyed' <=> u \in destroyed
                                     /\ u \in finalized' <=> u \in finalized
<1> USE DEF SelfInv, Goto, Places
<1>1. CASE \E button \in Tests : Press(w, button)
  BY <1>1 DEF Press
<1>2. CASE Create(w)
  BY <1>2 DEF Create
<1>3. CASE Loop(w)
  BY <1>3 DEF Loop
<1>4. CASE Call(w)
  BY <1>4 DEF Call
<1>5. CASE Destroy(w)
  BY <1>5 DEF Destroy
<1>6. CASE nativeDestroy(w)
  BY <1>6 DEF nativeDestroy
<1>7. CASE Return(w)
  BY <1>7 DEF Return
<1>8. CASE Finalize(w)
  BY <1>8 DEF Finalize
<1> QED
  BY <1>1, <1>2, <1>3, <1>4, <1>5, <1>6, <1>7, <1>8 DEF Work

\* The invariant, for any number of workers.
LEMMA SelfInvariant == Spec => []SelfInv
<1>1. Init => SelfInv
  BY WorkerConfig DEF Init, SelfInv, Places, Tests, MixerTests
<1>2. SelfInv /\ [Next]_vars => SelfInv'
  <2> SUFFICES ASSUME SelfInv, [Next]_vars PROVE SelfInv'
    OBVIOUS
  <2>0. Self \in Workers /\ "none" \notin Tests /\ MixerTests \subseteq Tests
    BY WorkerConfig DEF Tests, MixerTests
  <2>1. CASE onPause
    BY <2>1 DEF onPause, SelfInv
  <2>2. CASE UNCHANGED vars
    BY <2>2 DEF vars, SelfInv
  <2>3. ASSUME NEW w \in Workers, w # Self,
               (\E button \in Tests : Press(w, button)) \/ Work(w) \/ Finalize(w)
        PROVE  SelfInv'
    BY <2>0, <2>3, WorkerStep DEF SelfInv
  <2>4. ASSUME NEW button \in Tests, Press(Self, button) PROVE SelfInv'
    <3>1. /\ pc' \in [Workers -> Places] /\ test' \in [Workers -> Tests \cup {"none"}]
          /\ deletes' \in [Workers -> Nat]
      BY <2>0, <2>4, WorkerStep
    <3> QED
      BY <2>0, <2>4, <3>1 DEF Press, Goto, SelfInv
  <2>5. ASSUME Work(Self) \/ Finalize(Self) PROVE SelfInv'
    <3>1. /\ pc' \in [Workers -> Places] /\ test' \in [Workers -> Tests \cup {"none"}]
          /\ deletes' \in [Workers -> Nat]
      BY <2>0, <2>5, WorkerStep
    <3>2. CASE Create(Self)
      BY <2>0, <3>1, <3>2 DEF Create, Goto, SelfInv
    <3>3. CASE Loop(Self)
      BY <2>0, <3>1, <3>3 DEF Loop, Goto, SelfInv
    <3>4. CASE Call(Self)
      BY <2>0, <3>1, <3>4 DEF Call, Goto, SelfInv
    <3>5. CASE Destroy(Self)
      BY <2>0, <3>1, <3>5 DEF Destroy, Goto, SelfInv
    <3>6. CASE nativeDestroy(Self)
      BY <2>0, <3>1, <3>6 DEF nativeDestroy, Goto, SelfInv
    <3>7. CASE Return(Self)
      BY <2>0, <3>1, <3>7 DEF Return, Goto, SelfInv
    <3>8. CASE Finalize(Self)
      BY <2>0, <3>1, <3>8 DEF Finalize, SelfInv
    <3> QED
      BY <2>5, <3>2, <3>3, <3>4, <3>5, <3>6, <3>7, <3>8 DEF Work
  <2> QED
    BY <2>1, <2>2, <2>3, <2>4, <2>5 DEF Next
<1> QED
  BY <1>1, <1>2, PTL DEF Spec

------------------------------------------------------------------------------
(* Refinement *)

\* What a place of Self is to the handle.
CallAt(p) == IF p \in {"call", "mix"} THEN "static" ELSE IF p = "destroy" THEN "destroying" ELSE "idle"

LEMMA HandleAt ==
  /\ HandlePc = [t \in {Self, Finalizer} |-> IF t = Self THEN CallAt(pc[Self]) ELSE "idle"]
  /\ HandlePc' = [t \in {Self, Finalizer} |-> IF t = Self THEN CallAt(pc'[Self]) ELSE "idle"]
<1>1. Self # Finalizer
  BY WorkerConfig
<1> QED
  BY <1>1 DEF HandlePc, CallAt

LEMMA MarkedAt ==
  /\ SelfInv => (Marked <=> pc[Self] \in {"destroy", "return", "done"})
  /\ SelfInv' => (Marked' <=> pc'[Self] \in {"destroy", "return", "done"})
BY DEF SelfInv, Marked

\* Every step of the activity is one of the handle of Self, or none to it.
LEMMA StepRefines ==
  ASSUME SelfInv, SelfInv', [Next]_vars
  PROVE  [Handle!Next]_(Handle!vars)
<1> DEFINE p == pc[Self]
           q == pc'[Self]
           D == {"destroy", "return", "done"}
<1>0. /\ Self \in Workers /\ Self # Finalizer
      /\ (Marked <=> p \in D) /\ (Marked' <=> q \in D)
      /\ p \notin {"return", "done"} => deletes[Self] = 0
      /\ p \in Places /\ deletes[Self] \in Nat
  BY WorkerConfig, MarkedAt DEF SelfInv
<1>1. ASSUME CallAt(p) = CallAt(q), p \in D <=> q \in D, (p = "done") <=> (q = "done"),
             deletes'[Self] = deletes[Self], Self \in finalized' <=> Self \in finalized
      PROVE  UNCHANGED Handle!vars
  <2>1. UNCHANGED HandlePc /\ UNCHANGED HandleRefs
    BY <1>1, HandleAt DEF HandleRefs
  <2>2. UNCHANGED (IF Marked THEN "true" ELSE "false")
    BY <1>0, <1>1
  <2> QED
    BY <1>1, <2>1, <2>2 DEF Handle!vars
<1>2. CASE UNCHANGED vars \/ onPause
  BY <1>1, <1>2 DEF vars, onPause
<1>3. ASSUME NEW w \in Workers, w # Self,
             (\E button \in Tests : Press(w, button)) \/ Work(w) \/ Finalize(w)
      PROVE  UNCHANGED Handle!vars
  BY <1>0, <1>1, <1>3, WorkerStep
<1>4. ASSUME (\E button \in Tests : Press(Self, button)) \/ Create(Self)
      PROVE  UNCHANGED Handle!vars
  <2>1. p \in {"unused", "create"} /\ q \in {"create", "loop", "stop"}
        /\ UNCHANGED <<deletes, finalized>>
    BY <1>0, <1>4 DEF Press, Create, Goto, SelfInv
  <2> QED
    BY <1>1, <2>1 DEF CallAt
<1>5. CASE Loop(Self)
  <2>1. p = "loop" /\ q \in {"stop", "call"} /\ UNCHANGED <<deletes, finalized>>
    BY <1>0, <1>5 DEF Loop, Goto, SelfInv
  <2>2. CASE q = "stop"
    BY <1>1, <2>1, <2>2 DEF CallAt
  <2>3. CASE q = "call"
    <3>1. HandlePc' = [HandlePc EXCEPT ![Self] = "static"] /\ HandlePc[Self] = "idle"
      BY <1>0, <2>1, <2>3, HandleAt DEF CallAt
    <3>2. Self \in HandleRefs /\ UNCHANGED HandleRefs
      BY <2>1, <2>3 DEF HandleRefs
    <3>3. Handle!Late = {}
      <4>1. \A t \in {Self, Finalizer} : HandlePc[t] = "idle"
        BY <1>0, <2>1, HandleAt DEF CallAt
      <4>2. deletes[Self] = 0
        BY <1>0, <2>1
      <4>3. ~(\E u \in Handle!Callers : HandlePc[u] = "destroying")
        BY <4>1 DEF Handle!Callers
      <4>4. ~(deletes[Self] > 0)
        BY <4>2
      <4> QED
        BY <4>3, <4>4 DEF Handle!Late
    <3>4. Handle!StaticCall(Self, FALSE)
      BY <1>0, <2>1, <2>3, <3>1, <3>2, <3>3 DEF Handle!StaticCall, Handle!Begin
    <3> QED
      BY <3>4 DEF Handle!Next
  <2> QED
    BY <2>1, <2>2, <2>3
<1>6. CASE Call(Self)
  <2>1. /\ p \in {"call", "mix"} /\ q \in {"mix", "loop", "stop"}
        /\ UNCHANGED <<deletes, finalized>>
    BY <1>0, <1>6 DEF Call, Goto, SelfInv
  <2>2. CASE q = "mix"
    BY <1>1, <2>1, <2>2 DEF CallAt
  <2>3. CASE q \in {"loop", "stop"}
    <3>1. HandlePc' = [HandlePc EXCEPT ![Self] = "idle"] /\ HandlePc[Self] = "static"
      BY <1>0, <2>1, <2>3, HandleAt DEF CallAt
    <3>2. UNCHANGED HandleRefs
      BY <2>1, <2>3 DEF HandleRefs
    <3>3. Handle!Return(Self)
      BY <1>0, <2>1, <2>3, <3>1, <3>2 DEF Handle!Return, Handle!Calls
    <3> QED
      BY <3>3 DEF Handle!Next
  <2> QED
    BY <2>1, <2>2, <2>3
<1>7. CASE Destroy(Self)
  <2>1. p = "stop" /\ q = "destroy" /\ UNCHANGED <<deletes, finalized>>
    BY <1>0, <1>7 DEF Destroy, Goto, SelfInv
  <2>2. HandlePc' = [HandlePc EXCEPT ![Self] = "destroying"] /\ HandlePc[Self] = "idle"
    BY <1>0, <2>1, HandleAt DEF CallAt
  <2>3. Self \in HandleRefs \ {Finalizer} /\ UNCHANGED HandleRefs
    BY <1>0, <2>1 DEF HandleRefs
  <2>4. Handle!Destroy(Self)
    BY <1>0, <2>1, <2>2, <2>3 DEF Handle!Destroy, Handle!GetAndSet, Handle!Calls
  <2> QED
    BY <2>4 DEF Handle!Next
<1>8. CASE nativeDestroy(Self)
  <2>1. /\ p = "destroy" /\ q = "return" /\ UNCHANGED finalized
        /\ deletes'[Self] = deletes[Self] + 1
    BY <1>0, <1>8 DEF nativeDestroy, Goto, SelfInv
  <2>2. HandlePc' = [HandlePc EXCEPT ![Self] = "idle"] /\ HandlePc[Self] = "destroying"
    BY <1>0, <2>1, HandleAt DEF CallAt
  <2>3. UNCHANGED HandleRefs
    BY <2>1 DEF HandleRefs
  <2>4. Handle!nativeDestroy(Self)
    BY <1>0, <2>1, <2>2, <2>3 DEF Handle!nativeDestroy
  <2> QED
    BY <2>4 DEF Handle!Next, Handle!Callers
<1>9. CASE Return(Self)
  <2>1. p = "return" /\ q = "done" /\ UNCHANGED <<deletes, finalized>>
    BY <1>0, <1>9 DEF Return, Goto, SelfInv
  <2>2. UNCHANGED HandlePc /\ HandlePc[Self] = "idle"
    BY <1>0, <2>1, HandleAt DEF CallAt
  <2>3. Self \in HandleRefs /\ HandleRefs' = HandleRefs \ {Self}
    BY <1>0, <2>1 DEF HandleRefs
  <2>4. Handle!Drop(Self)
    BY <1>0, <2>1, <2>2, <2>3 DEF Handle!Drop
  <2> QED
    BY <2>4 DEF Handle!Next
<1>10. CASE Finalize(Self)
  <2>1. /\ p = "done" /\ q = "done" /\ Self \notin finalized /\ Self \in finalized'
        /\ Self \in destroyed
    BY <1>0, <1>10 DEF Finalize, SelfInv
  <2>2. deletes'[Self] = deletes[Self]
    BY <1>0, <1>10, <2>1 DEF Finalize, SelfInv
  <2>3. UNCHANGED HandlePc /\ HandlePc[Self] = "idle" /\ HandlePc[Finalizer] = "idle"
        /\ HandlePc = [HandlePc EXCEPT ![Finalizer] = "idle"]
    BY <1>0, <2>1, HandleAt DEF CallAt
  <2>4. HandleRefs = {Finalizer} /\ HandleRefs' = {}
    BY <1>0, <2>1 DEF HandleRefs
  <2>5. Handle!Finalize
    BY <1>0, <2>1, <2>2, <2>3, <2>4 DEF Handle!Finalize, Handle!GetAndSet
  <2> QED
    BY <2>5 DEF Handle!Next
<1> QED
  BY <1>2, <1>3, <1>4, <1>5, <1>6, <1>7, <1>8, <1>9, <1>10 DEF Next, Work

\* For any number of workers, and whatever the buttons and pauses, each worker uses
\* its native object as NativeHandle allows and without a breach of it: calls only
\* before destroy, one destroy, and finalize only after it.
THEOREM WorkersImplementHandle == Spec => ImplementsHandle
<1>1. Init => Handle!Init
  <2> SUFFICES ASSUME Init PROVE Handle!Init
    OBVIOUS
  <2>0. Self # Finalizer /\ Self \in Workers
    BY WorkerConfig
  <2>1. pc[Self] = "unused" /\ test[Self] = "none" /\ deletes[Self] = 0 /\ Self \notin finalized
    BY <2>0 DEF Init
  <2>2. HandlePc = [t \in {Self, Finalizer} |-> "idle"]
    BY <2>1, HandleAt DEF CallAt
  <2>3. HandleRefs = {Self, Finalizer} /\ ~Marked
    BY <2>1 DEF HandleRefs, Marked, MixerTests
  <2> QED
    BY <2>1, <2>2, <2>3 DEF Handle!Init, Handle!Callers
<1> QED
  BY <1>1, SelfInvariant, StepRefines, PTL DEF Spec, ImplementsHandle, Handle!Spec
=============================================================================
