---------------------------- MODULE NativeHandle ----------------------------
(***************************************************************************)
(* The native mixer as Java sees it: AudioMixer holds a CppProxy, which    *)
(* holds the address of a handle that owns the C++ object.  Any thread     *)
(* with a reference may call, destroy or drop it; when none has one the    *)
(* garbage collector (external) runs finalize.  A native method uses the   *)
(* handle until it returns: it takes a reference to it, not a copy.        *)
(***************************************************************************)
EXTENDS Naturals, TLAPS

CONSTANTS Threads, Finalizer

ASSUME HandleConfig == Finalizer \notin Threads

Callers == Threads \cup {Finalizer}

VARIABLES
  asserts,    \* whether the VM runs assert statements
  destroyed,  \* the AtomicBoolean of CppProxy
  deletes,    \* how often the handle was deleted
  pc,         \* per caller: idle, or in a proxy, static or destroy call
  refs,       \* threads with a reference; the finalizer's is used once
  fault,      \* a native method used the deleted handle
  breach      \* history: how the threads called for that

vars == <<asserts, destroyed, deletes, pc, refs, fault, breach>>

Calls(t) == pc[t] \in {"proxy", "static"}

Init ==
  /\ asserts \in {"on", "off"} /\ destroyed = "false" /\ deletes = 0
  /\ pc = [t \in Callers |-> "idle"] /\ refs = Callers
  /\ fault = "none" /\ breach = {}

\* A call by t, after which it may need its reference no more.
Begin(t, call, lastUse) ==
  /\ t \in refs /\ pc[t] = "idle"
  /\ pc' = [pc EXCEPT ![t] = call]
  /\ refs' = IF lastUse THEN refs \ {t} ELSE refs
  /\ UNCHANGED <<asserts, destroyed, deletes, fault>>

Late ==
  IF deletes > 0 \/ (\E u \in Callers : pc[u] = "destroying")
  THEN {"used after destroy"} ELSE {}

\* Mutant: the native methods of the proxy are static.
ProxyCallStatic(t, lastUse) ==
  /\ ~(asserts = "on" /\ destroyed = "true")
  /\ Begin(t, "static", lastUse)
  /\ breach' = breach \cup Late

\* updateVolume, addSource, removeSource: the assertion, then an instance method,
\* during which the proxy is reachable.
ProxyCall(t, lastUse) ==
  /\ ~(asserts = "on" /\ destroyed = "true")
  /\ Begin(t, "proxy", lastUse)
  /\ breach' = breach \cup Late

\* mix, addRecordedData: a static method with the address, and no assertion.
StaticCall(t, lastUse) ==
  /\ Begin(t, "static", lastUse)
  /\ breach' = breach \cup Late \cup (IF lastUse THEN {"dropped in static call"} ELSE {})

\* The native method returns; it has used the handle up to here.
Return(t) ==
  /\ Calls(t)
  /\ pc' = [pc EXCEPT ![t] = "idle"]
  /\ fault' = IF deletes > 0 THEN "deleted" ELSE fault
  /\ UNCHANGED <<asserts, destroyed, deletes, refs, breach>>

\* Mutant: get and a later set, when the handle was deleted.
GetThenSet(t) ==
  /\ pc' = [pc EXCEPT ![t] = IF destroyed = "true" THEN "idle" ELSE "destroying"]
  /\ destroyed' = IF deletes > 0 THEN "true" ELSE destroyed

\* destroyed.getAndSet(true), which decides who deletes.
GetAndSet(t) ==
  /\ pc' = [pc EXCEPT ![t] = IF destroyed = "true" THEN "idle" ELSE "destroying"]
  /\ destroyed' = "true"

Destroy(t) ==
  /\ t \in refs \ {Finalizer} /\ pc[t] = "idle"
  /\ GetAndSet(t)
  /\ breach' = breach \cup (IF \E u \in Threads : Calls(u) THEN {"destroyed in use"} ELSE {})
  /\ UNCHANGED <<asserts, deletes, refs, fault>>

\* finalize, when no thread and no instance method has the proxy.
Finalize ==
  /\ refs = {Finalizer}
  /\ \A t \in Threads : pc[t] \in {"idle", "static"}
  /\ GetAndSet(Finalizer)
  /\ refs' = {}
  /\ UNCHANGED <<asserts, deletes, fault, breach>>

nativeDestroy(t) ==
  /\ pc[t] = "destroying"
  /\ pc' = [pc EXCEPT ![t] = "idle"] /\ deletes' = deletes + 1
  /\ UNCHANGED <<asserts, destroyed, refs, fault, breach>>

Drop(t) ==
  /\ t \in refs /\ pc[t] = "idle"
  /\ refs' = refs \ {t}
  /\ UNCHANGED <<asserts, destroyed, deletes, pc, fault, breach>>

Next ==
  \/ \E t \in Threads, lastUse \in BOOLEAN : ProxyCall(t, lastUse) \/ StaticCall(t, lastUse)
  \/ \E t \in Threads : Return(t) \/ Destroy(t) \/ Drop(t)
  \/ \E t \in Callers : nativeDestroy(t)
  \/ Finalize

Spec == Init /\ [][Next]_vars

------------------------------------------------------------------------------
\* However destroy() and finalize interleave, the handle is deleted at most once,
\* and it is deleted when every call of them has returned.
DestroyedOnce ==
  /\ deletes <= 1
  /\ destroyed = "true" /\ (\A t \in Callers : pc[t] # "destroying") => deletes = 1

\* A native method uses a deleted handle only if the threads called it after or
\* during destroy(), or dropped the last reference in a static method, which does
\* not keep the proxy: destroying twice, finalize after destroy() and dropping
\* the reference in an instance method are harmless.
FaultNeedsMisuse == fault = "deleted" => breach # {}

------------------------------------------------------------------------------
\* The flag names one deleter, and a call that a deletion can meet is recorded.
IInv ==
  /\ deletes \in {0, 1} /\ pc \in [Callers -> {"idle", "proxy", "static", "destroying"}]
  /\ destroyed \in {"true", "false"}
  /\ destroyed = "false" => deletes = 0 /\ (\A t \in Callers : pc[t] # "destroying")
  /\ deletes = 1 => \A t \in Callers : pc[t] # "destroying"
  /\ destroyed = "true" /\ deletes = 0 => \E t \in Callers : pc[t] = "destroying"
  /\ \A t, u \in Callers : pc[t] = "destroying" /\ pc[u] = "destroying" => t = u
  /\ ~Calls(Finalizer) /\ (Finalizer \in refs => pc[Finalizer] = "idle")
  /\ \A t \in Threads : pc[t] = "static" /\ t \notin refs => breach # {}
  /\ destroyed = "true" => \A t \in Threads : Calls(t) => breach # {}
  /\ FaultNeedsMisuse

\* A call after destroy() is recorded.
LEMMA LateIsRecorded == IInv /\ destroyed = "true" => "used after destroy" \in Late
<1> SUFFICES ASSUME IInv, destroyed = "true" PROVE "used after destroy" \in Late
  OBVIOUS
<1>1. deletes > 0 \/ (\E u \in Callers : pc[u] = "destroying")
  BY DEF IInv
<1> QED
  BY <1>1 DEF Late

\* Whoever wins getAndSet is the only one to delete.
LEMMA OneDeleter ==
  ASSUME IInv, NEW t \in Callers, pc[t] = "idle", GetAndSet(t), UNCHANGED deletes
  PROVE  /\ destroyed' = "true"
         /\ pc' \in [Callers -> {"idle", "proxy", "static", "destroying"}]
         /\ \A u \in Callers : u # t => pc'[u] = pc[u]
         /\ pc'[t] \in {"idle", "destroying"}
         /\ deletes = 1 => \A u \in Callers : pc'[u] # "destroying"
         /\ deletes = 0 => \E u \in Callers : pc'[u] = "destroying"
         /\ \A u, v \in Callers : pc'[u] = "destroying" /\ pc'[v] = "destroying" => u = v
<1> USE DEF IInv, GetAndSet
<1>1. CASE destroyed = "true"
  <2>1. pc' = pc
    BY <1>1
  <2> QED BY <1>1, <2>1
<1>2. CASE destroyed = "false"
  <2>1. pc' = [pc EXCEPT ![t] = "destroying"]
    BY <1>2
  <2>2. pc'[t] = "destroying"
    BY <2>1
  <2> QED BY <1>2, <2>1, <2>2
<1> QED
  BY <1>1, <1>2

\* The invariant holds for any number of threads.
LEMMA HandleInvariant == Spec => []IInv
<1> USE HandleConfig DEF Callers, Calls
<1>1. Init => IInv
  BY DEF Init, IInv, FaultNeedsMisuse
<1>2. IInv /\ [Next]_vars => IInv'
  <2> SUFFICES ASSUME IInv, [Next]_vars PROVE IInv'
    OBVIOUS
  <2> USE DEF IInv, FaultNeedsMisuse
  <2>1. ASSUME NEW t \in Threads, NEW lastUse \in BOOLEAN, ProxyCall(t, lastUse) PROVE IInv'
    <3>1. /\ pc' = [pc EXCEPT ![t] = "proxy"] /\ t \in refs /\ pc[t] = "idle"
          /\ UNCHANGED <<destroyed, deletes, fault>>
      BY <2>1 DEF ProxyCall, Begin
    <3>2. refs' = refs \/ refs' = refs \ {t}
      BY <2>1 DEF ProxyCall, Begin
    <3>3. breach # {} => breach' # {}
      BY <2>1 DEF ProxyCall
    <3>4. destroyed = "true" => breach' # {}
      BY <2>1, LateIsRecorded DEF ProxyCall
    <3> QED BY <3>1, <3>2, <3>3, <3>4
  <2>2. ASSUME NEW t \in Threads, NEW lastUse \in BOOLEAN, StaticCall(t, lastUse) PROVE IInv'
    <3>1. /\ pc' = [pc EXCEPT ![t] = "static"] /\ t \in refs /\ pc[t] = "idle"
          /\ UNCHANGED <<destroyed, deletes, fault>>
      BY <2>2 DEF StaticCall, Begin
    <3>2. refs' = refs \/ refs' = refs \ {t}
      BY <2>2 DEF StaticCall, Begin
    <3>3. breach # {} => breach' # {}
      BY <2>2 DEF StaticCall
    <3>4. destroyed = "true" => breach' # {}
      BY <2>2, LateIsRecorded DEF StaticCall
    <3>5. t \notin refs' => breach' # {}
      <4>1. lastUse = TRUE \/ lastUse = FALSE
        OBVIOUS
      <4>2. ASSUME lastUse = FALSE PROVE t \in refs'
        BY <2>2, <4>2 DEF StaticCall, Begin
      <4>3. ASSUME lastUse = TRUE PROVE breach' # {}
        BY <2>2, <4>3 DEF StaticCall
      <4> QED BY <4>1, <4>2, <4>3
    <3> QED BY <3>1, <3>2, <3>3, <3>4, <3>5
  <2>3. ASSUME NEW t \in Threads, Return(t) PROVE IInv'
    BY <2>3 DEF Return
  <2>4. ASSUME NEW t \in Threads, Destroy(t) PROVE IInv'
    <3>1. /\ t # Finalizer /\ pc[t] = "idle" /\ GetAndSet(t)
          /\ UNCHANGED <<deletes, refs, fault>>
      BY <2>4 DEF Destroy
    <3>2. breach # {} => breach' # {}
      BY <2>4 DEF Destroy
    <3>3. ASSUME NEW u \in Threads, Calls(u) PROVE breach' # {}
      BY <2>4, <3>3 DEF Destroy
    <3> QED BY <3>1, <3>2, <3>3, OneDeleter
  <2>5. ASSUME NEW t \in Threads, Drop(t) PROVE IInv'
    BY <2>5 DEF Drop
  <2>6. ASSUME NEW t \in Callers, nativeDestroy(t) PROVE IInv'
    BY <2>6 DEF nativeDestroy
  <2>7. CASE Finalize
    <3>1. /\ pc[Finalizer] = "idle" /\ GetAndSet(Finalizer) /\ refs = {Finalizer} /\ refs' = {}
          /\ UNCHANGED <<deletes, fault, breach>>
      BY <2>7 DEF Finalize
    <3>2. ASSUME NEW u \in Threads, Calls(u) PROVE breach # {}
      BY <2>7, <3>1, <3>2 DEF Finalize
    <3> QED BY <3>1, <3>2, OneDeleter
  <2>8. CASE UNCHANGED vars
    BY <2>8 DEF vars
  <2> QED
    BY <2>1, <2>2, <2>3, <2>4, <2>5, <2>6, <2>7, <2>8 DEF Next
<1> QED
  BY <1>1, <1>2, PTL DEF Spec

\* However destroy and the finalizer race, the native object is deleted at most
\* once.
THEOREM IsDestroyedOnce == Spec => []DestroyedOnce
<1>1. IInv => DestroyedOnce
  BY DEF IInv, DestroyedOnce
<1> QED
  BY <1>1, HandleInvariant, PTL

\* A native call meets a deleted object only after the client misused the handle.
THEOREM FaultsNeedMisuse == Spec => []FaultNeedsMisuse
<1>1. IInv => FaultNeedsMisuse
  BY DEF IInv
<1> QED
  BY <1>1, HandleInvariant, PTL
=============================================================================
