-------------------------- MODULE AudioMixerProofs --------------------------
(* Theorems about AudioMixer for every set of ssrcs and addresses, every    *)
(* bound and every interleaving of the client's thread with the audio       *)
(* thread.                                                                  *)
EXTENDS AudioMixer, SequenceTheorems, TLAPS

------------------------------------------------------------------------------
(* WebRTC's list of pointers *)

\* mixer_->AddSource of a pointer that is not registered.
LEMMA AppendPointer ==
  ASSUME NEW S, NEW list \in Seq(S), NEW a \in S
  PROVE  /\ Append(list, a) \in Seq(S)
         /\ Range(Append(list, a)) = Range(list) \cup {a}
         /\ IsInjective(list) /\ a \notin Range(list) => IsInjective(Append(list, a))
<1>1. /\ Append(list, a) \in Seq(S)
      /\ DOMAIN list = 1..Len(list) /\ Len(list) \in Nat
      /\ DOMAIN Append(list, a) = 1..(Len(list) + 1)
      /\ \A i \in 1..Len(list) : Append(list, a)[i] = list[i]
      /\ Append(list, a)[Len(list) + 1] = a
  BY AppendProperties, LenProperties
<1> DEFINE new == Append(list, a)
<1> HIDE DEF new
<1>2. Range(new) = Range(list) \cup {a}
  BY <1>1 DEF Range, new
<1>3. ASSUME IsInjective(list), a \notin Range(list)
      PROVE  IsInjective(new)
  BY <1>1, <1>3 DEF IsInjective, Range, new
<1> QED
  BY <1>1, <1>2, <1>3 DEF new

\* mixer_->RemoveSource of the pointer at position i.
LEMMA RemovePointer ==
  ASSUME NEW S, NEW list \in Seq(S), NEW i \in DOMAIN list
  PROVE  /\ RemoveAt(list, i) \in Seq(S)
         /\ Range(list) \ {list[i]} \subseteq Range(RemoveAt(list, i))
         /\ IsInjective(list) => /\ Range(RemoveAt(list, i)) = Range(list) \ {list[i]}
                                 /\ IsInjective(RemoveAt(list, i))
<1>1. Len(list) \in Nat /\ DOMAIN list = 1..Len(list) /\ i \in 1..Len(list)
  BY LenProperties
<1> DEFINE front == SubSeq(list, 1, i - 1)
           back == SubSeq(list, i + 1, Len(list))
           new == RemoveAt(list, i)
<1>2. /\ front \in Seq(S) /\ Len(front) = i - 1
      /\ \A j \in 1..(i - 1) : front[j] = list[j]
  BY <1>1, SubSeqProperties
<1>3. /\ back \in Seq(S) /\ Len(back) = Len(list) - i
      /\ \A j \in 1..(Len(list) - i) : back[j] = list[i + j]
  BY <1>1, SubSeqProperties
<1>4. /\ new \in Seq(S) /\ Len(new) = Len(list) - 1
      /\ \A j \in 1..(Len(list) - 1) : new[j] = IF j < i THEN list[j] ELSE list[j + 1]
  <2> HIDE DEF front, back
  <2>1. /\ new = front \o back /\ new \in Seq(S) /\ Len(new) = Len(front) + Len(back)
        /\ \A j \in 1..Len(front) + Len(back) :
             new[j] = IF j <= Len(front) THEN front[j] ELSE back[j - Len(front)]
    BY <1>2, <1>3, ConcatProperties DEF RemoveAt, front, back
  <2> HIDE DEF new
  <2>2. Len(new) = Len(list) - 1 /\ Len(front) + Len(back) = Len(list) - 1
    BY ONLY <1>1, <1>2, <1>3, <2>1
  <2>3. ASSUME NEW j \in 1..(Len(list) - 1)
        PROVE  new[j] = IF j < i THEN list[j] ELSE list[j + 1]
    <3>1. new[j] = IF j <= i - 1 THEN front[j] ELSE back[j - (i - 1)]
      BY ONLY <1>2, <2>1, <2>2, j \in 1..(Len(list) - 1), Zenon
    <3>2. CASE j < i
      BY ONLY <1>1, <1>2, <3>1, <3>2, j \in 1..(Len(list) - 1)
    <3>3. CASE ~(j < i)
      <4>1. j - (i - 1) \in 1..(Len(list) - i) /\ i + (j - (i - 1)) = j + 1
        BY ONLY <1>1, <3>3, j \in 1..(Len(list) - 1)
      <4>2. back[j - (i - 1)] = list[j + 1]
        BY ONLY <1>3, <4>1
      <4> QED
        BY ONLY <1>1, <3>1, <3>3, <4>2, j \in 1..(Len(list) - 1)
    <3> QED
      BY <3>2, <3>3
  <2> QED
    BY <2>1, <2>2, <2>3
<1>5. DOMAIN new = 1..(Len(list) - 1)
  BY <1>1, <1>4, LenProperties
<1> HIDE DEF new
<1>6. ASSUME NEW x \in Range(list) \ {list[i]}
      PROVE  x \in Range(new)
  <2>1. PICK m \in 1..Len(list) : x = list[m] /\ m # i
    BY <1>1 DEF Range
  <2>2. CASE m < i
    BY <1>1, <1>4, <1>5, <2>1, <2>2 DEF Range
  <2>3. CASE m > i
    <3>1. m - 1 \in 1..(Len(list) - 1) /\ ~(m - 1 < i) /\ (m - 1) + 1 = m
      BY <1>1, <2>3
    <3>2. new[m - 1] = x
      BY <1>4, <2>1, <3>1
    <3> QED
      BY <1>5, <3>1, <3>2 DEF Range
  <2> QED
    BY <1>1, <2>1, <2>2, <2>3
<1>7. ASSUME IsInjective(list), NEW x \in Range(new)
      PROVE  x \in Range(list) \ {list[i]}
  <2>1. PICK j \in 1..(Len(list) - 1) : x = new[j]
    BY <1>5, <1>7 DEF Range
  <2>2. PICK m \in 1..Len(list) : m # i /\ x = list[m]
    BY <1>1, <1>4, <2>1
  <2> QED
    BY <1>1, <1>7, <2>2 DEF Range, IsInjective
<1>8. ASSUME IsInjective(list)
      PROVE  IsInjective(new)
  <2> SUFFICES ASSUME NEW j \in 1..(Len(list) - 1), NEW k \in 1..(Len(list) - 1),
                      new[j] = new[k]
               PROVE  j = k
    BY <1>5 DEF IsInjective
  <2> DEFINE from(m) == IF m < i THEN m ELSE m + 1
  <2>1. from(j) \in 1..Len(list) /\ from(k) \in 1..Len(list) /\ list[from(j)] = list[from(k)]
    BY <1>1, <1>4
  <2>2. from(j) = from(k)
    BY <1>1, <1>8, <2>1 DEF IsInjective
  <2> QED
    BY <1>1, <2>2
<1> QED
  <2>1. IsInjective(list) => Range(new) = Range(list) \ {list[i]}
    BY <1>6, <1>7
  <2> QED
    BY <1>4, <1>6, <1>8, <2>1 DEF new

------------------------------------------------------------------------------
(* The inductive invariant *)

\* What the map points to is alive and carries the key's ssrc.
OwnedAreLive ==
  \A s \in Ssrcs : sources_[s] # Null =>
    heap[sources_[s]] # Null /\ heap[sources_[s]].ssrc = s

\* Inside AddSource the shared_ptr keeps the new object alive.
PointerIsLive ==
  ctl \in {"add", "added"} => ptr \in Live /\ (breach = {} => ptr \in Owned)

\* Only the map and that shared_ptr keep objects alive.
LiveIsOwned == \A a \in Live : a \in Owned \/ (ctl \in {"add", "added"} /\ a = ptr)

\* A loop over the map visits entries it has; the destructor leaves none.
LoopIsPresent ==
  /\ ctl \in {"register", "remove", "destroy"} => iter \subseteq Present
  /\ ctl = "dead" => Present = {}

\* The entries of the map that WebRTC knows, at every point of every call.
Listed ==
  CASE ctl \in {"unborn", "construct", "dead"} -> {}
    [] ctl \in {"register", "remove"} -> Present \ iter
    [] ctl \in {"idle", "added"} -> Present
    [] ctl = "add" -> {s \in Present : sources_[s] # ptr}
    [] ctl = "destroy" -> iter
    [] OTHER -> {}

PointersAreListed ==
  breach = {} /\ ctl # "aborted" =>
    /\ IsInjective(audio_source_list_)
    /\ Registered = {sources_[s] : s \in Listed}

IInv ==
  /\ TypeOK
  /\ OwnedAreLive /\ PointerIsLive /\ LiveIsOwned /\ LoopIsPresent
  /\ PointersAreListed
  /\ FaultNeedsBreach

\* A step that leaves the map, WebRTC's list and the client's thread alone, and
\* changes objects only in place, keeps the ownership part of the invariant.
LEMMA InPlace ==
  ASSUME IInv, TypeOK', FaultNeedsBreach', breach' = {} => breach = {},
         UNCHANGED <<sources_, audio_source_list_, ctlVars>>,
         \A a \in Addresses : /\ heap'[a] = Null <=> heap[a] = Null
                              /\ heap[a] # Null => heap'[a].ssrc = heap[a].ssrc
  PROVE  IInv'
<1>1. /\ Owned' = Owned /\ Present' = Present /\ Live' = Live
      /\ Registered' = Registered /\ Listed' = Listed
      /\ UNCHANGED <<sources_, audio_source_list_, ctl, iter, ptr>>
  BY DEF Owned, Present, Live, Registered, Listed, ctlVars
<1>2. OwnedAreLive'
  BY <1>1 DEF OwnedAreLive, IInv, TypeOK, MapTypeOK
<1>3. PointerIsLive' /\ LiveIsOwned' /\ LoopIsPresent'
  BY <1>1 DEF PointerIsLive, LiveIsOwned, LoopIsPresent, IInv
<1>4. PointersAreListed'
  BY <1>1 DEF PointersAreListed, IInv
<1> QED
  BY <1>2, <1>3, <1>4 DEF IInv

\* Two entries of the map never share an object.
LEMMA OwnersDiffer ==
  ASSUME TypeOK, OwnedAreLive, NEW s \in Present, NEW t \in Present, s # t
  PROVE  sources_[s] # sources_[t] /\ sources_[s] \in Addresses
BY DEF OwnedAreLive, Present, TypeOK, MapTypeOK

\* While the client keeps its obligations, every pointer WebRTC holds is to a
\* living source, at every point of every call.
LEMMA RegisteredAreLive ==
  ASSUME IInv, breach = {}, ctl # "aborted"
  PROVE  Registered \subseteq Owned /\ Owned \subseteq Live
<1>1. Listed \subseteq Present
  BY DEF IInv, LoopIsPresent, Listed
<1>2. Registered \subseteq Owned
  BY <1>1 DEF IInv, PointersAreListed, Owned, Present
<1>3. Owned \subseteq Live
  BY DEF IInv, OwnedAreLive, Owned, Live, TypeOK, MapTypeOK
<1> QED
  BY <1>2, <1>3

\* The mixing rate is a number.
LEMMA RateIsNat == OutputFrequency(OutputSampleRate) \in Nat
<1> DEFINE all == {8000, 16000, 32000, 48000}
           enough == {r \in all : r >= OutputSampleRate}
<1>1. ASSUME enough # {}
      PROVE  Least(enough) \in Nat
  <2>1. \E x \in enough : \A y \in enough : x =< y
    <3>1. CASE OutputSampleRate <= 8000
      BY <3>1, MixerConstants
    <3>2. CASE OutputSampleRate > 8000 /\ OutputSampleRate <= 16000
      BY <3>2, MixerConstants
    <3>3. CASE OutputSampleRate > 16000 /\ OutputSampleRate <= 32000
      BY <3>3, MixerConstants
    <3>4. CASE OutputSampleRate > 32000
      BY <1>1, <3>4, MixerConstants
    <3> QED
      BY <3>1, <3>2, <3>3, <3>4, MixerConstants
  <2>2. Least(enough) \in enough
    BY <2>1 DEF Least, IsLeast
  <2> QED
    BY <2>2
<1> QED
  BY <1>1 DEF OutputFrequency, NativeRateFor

------------------------------------------------------------------------------
(* One lemma per action: the audio thread *)

\* CalculateOutputFrequency keeps the invariant: it meets only living sources.
LEMMA MixFrequencyStep == ASSUME IInv, MixFrequency PROVE IInv'
<1>1. TypeOK'
  BY RateIsNat DEF IInv, TypeOK, MapTypeOK, ClientTypeOK, MixTypeOK, MixFrequency, ctlVars
<1>2. FaultNeedsBreach'
  <2>1. CASE Registered \subseteq Live
    BY <2>1 DEF IInv, MixFrequency, FaultNeedsBreach
  <2>2. CASE ~(Registered \subseteq Live)
    BY <2>2, RegisteredAreLive DEF MixFrequency, Alive, FaultNeedsBreach
  <2> QED
    BY <2>1, <2>2
<1> QED
  BY <1>1, <1>2, InPlace DEF MixFrequency

\* Taking crit_ for the loop over the sources keeps the invariant.
LEMMA MixLockStep == ASSUME IInv, MixLock PROVE IInv'
<1>1. /\ mix' = "pull" /\ at' = 1 /\ frames' = {}
      /\ UNCHANGED <<sources_, heap, audio_source_list_, ctlVars, output_frequency_, answer,
                     mixed_frame_, fault, breach>>
  BY DEF MixLock
<1>2. MapTypeOK' /\ ClientTypeOK' /\ FaultNeedsBreach'
  BY <1>1 DEF IInv, TypeOK, MapTypeOK, ClientTypeOK, ctlVars, FaultNeedsBreach
<1>3. MixTypeOK'
  <2>1. at' \in Nat /\ at' # 0 /\ frames' \in SUBSET Frame
    BY <1>1
  <2> QED
    BY <1>1, <2>1 DEF IInv, TypeOK, MixTypeOK
<1> QED
  BY <1>1, <1>2, <1>3, InPlace DEF TypeOK

\* Combining the frames and AudioMixer::Mix's copy keep the invariant.
LEMMA MixCombineStep == ASSUME IInv, MixCombine PROVE IInv'
<1>1. mixed_frame_' \subseteq frames
  BY DEF MixCombine
<1>2. /\ mix' = "idle" /\ at' = 0 /\ frames' = {} /\ answer' = "none"
      /\ UNCHANGED <<sources_, heap, audio_source_list_, ctlVars, output_frequency_, fault, breach>>
  BY DEF MixCombine
<1>3. TypeOK' /\ FaultNeedsBreach'
  BY <1>1, <1>2 DEF IInv, TypeOK, MapTypeOK, ClientTypeOK, MixTypeOK, ctlVars, FaultNeedsBreach
<1> QED
  BY <1>2, <1>3, InPlace

\* GetAudioFrameWithInfo of one source keeps the invariant: the source is alive.
LEMMA MixPullStep == ASSUME IInv, ~Over, MixPull PROVE IInv'
<1> DEFINE a == audio_source_list_[at]
           o == heap[a]
<1>1. /\ a \in Addresses /\ a \in Registered /\ at \in Nat
      /\ UNCHANGED <<sources_, audio_source_list_, ctlVars, mix, output_frequency_,
                     mixed_frame_, breach>>
  <2>1. at \in 1..Len(audio_source_list_)
    <3>1. at \in Nat /\ at # 0 /\ at <= Len(audio_source_list_) /\ Len(audio_source_list_) \in Nat
      BY LenProperties DEF MixPull, IInv, TypeOK, MixTypeOK, MapTypeOK
    <3> QED
      BY <3>1
  <2> QED
    <3>1. a \in Addresses /\ a \in Registered /\ at \in Nat
      BY <2>1, LenProperties DEF IInv, TypeOK, MapTypeOK, Registered, Range
    <3> QED
      BY <3>1 DEF MixPull
<1>2. CASE o = Null
  <2>1. breach # {} /\ UNCHANGED <<heap, at, frames, answer>> /\ fault' = "freed source"
    BY <1>1, <1>2, RegisteredAreLive DEF MixPull, Over, Live
  <2>2. TypeOK' /\ FaultNeedsBreach'
    BY <1>1, <2>1 DEF IInv, TypeOK, MapTypeOK, ClientTypeOK, MixTypeOK, FaultNeedsBreach, ctlVars
  <2> QED
    BY <1>1, <2>1, <2>2, InPlace
<1>3. CASE o # Null
  <2>1. o \in Object /\ AudioFrameInfo(o) \in {"kNormal", "kMuted", "kError"}
    BY <1>1, <1>3 DEF IInv, TypeOK, MapTypeOK, AudioFrameInfo
  <2>2. UNCHANGED fault /\ at' = at + 1 /\ answer' = AudioFrameInfo(o)
    BY <1>3 DEF MixPull
  <2>3. CASE answer' = "kNormal"
    <3>1. /\ heap' = [heap EXCEPT ![a].supply = @ - 1]
          /\ frames' = frames \cup {[at |-> at, ssrc |-> o.ssrc, volume |-> o.volume]}
      BY <1>3, <2>3 DEF MixPull
    <3>2. o.supply - 1 \in 0..MaxSupply
      BY <2>1, <2>2, <2>3, MixerConstants DEF AudioFrameInfo, Object
    <3>3. heap' = [heap EXCEPT ![a] = [o EXCEPT !.supply = o.supply - 1]]
      BY <3>1
    <3>4. [o EXCEPT !.supply = o.supply - 1] \in Object
          /\ [o EXCEPT !.supply = o.supply - 1].ssrc = o.ssrc
      BY <2>1, <3>2 DEF Object
    <3>5. heap' \in [Addresses -> Object \cup {Null}]
      BY <1>1, <3>3, <3>4 DEF IInv, TypeOK, MapTypeOK
    <3>6. frames' \in SUBSET Frame
      <4>1. [at |-> at, ssrc |-> o.ssrc, volume |-> o.volume] \in Frame
        BY <1>1, <2>1 DEF Frame, Object
      <4> HIDE DEF a, o
      <4> QED
        BY <3>1, <4>1 DEF IInv, TypeOK, MixTypeOK
    <3>7. TypeOK' /\ FaultNeedsBreach'
      <4>1. MapTypeOK' /\ ClientTypeOK' /\ FaultNeedsBreach'
        BY <1>1, <2>2, <3>5, <3>6 DEF IInv, TypeOK, MapTypeOK, ClientTypeOK, FaultNeedsBreach, ctlVars
      <4>2. MixTypeOK'
        <5>1. at' \in Nat /\ at' # 0
          BY <1>1, <2>2
        <5> HIDE DEF a, o
        <5> QED
          BY <1>1, <2>1, <2>2, <3>5, <3>6, <5>1 DEF IInv, TypeOK, MixTypeOK
      <4> QED
        BY <4>1, <4>2 DEF TypeOK
    <3>8. \A b \in Addresses : /\ heap'[b] = Null <=> heap[b] = Null
                               /\ heap[b] # Null => heap'[b].ssrc = heap[b].ssrc
      BY <1>1, <1>3, <3>3, <3>4, NullIsNoObject DEF IInv, TypeOK, MapTypeOK
    <3> QED
      BY <1>1, <3>7, <3>8, InPlace
  <2>4. CASE answer' # "kNormal"
    <3>1. UNCHANGED <<heap, frames>>
      BY <1>3, <2>4 DEF MixPull
    <3>2. TypeOK' /\ FaultNeedsBreach'
      <4>1. MapTypeOK' /\ ClientTypeOK' /\ FaultNeedsBreach'
        BY <1>1, <2>2, <3>1 DEF IInv, TypeOK, MapTypeOK, ClientTypeOK, FaultNeedsBreach, ctlVars
      <4>2. MixTypeOK'
        <5>1. at' \in Nat /\ at' # 0
          BY <1>1, <2>2
        <5> HIDE DEF a, o
        <5> QED
          BY <1>1, <2>1, <2>2, <3>1, <5>1 DEF IInv, TypeOK, MixTypeOK
      <4> QED
        BY <4>1, <4>2 DEF TypeOK
    <3> QED
      BY <1>1, <3>1, <3>2, InPlace
  <2> QED
    BY <2>3, <2>4
<1> QED
  BY <1>2, <1>3

\* Storing into a field of an object the map owns.
LEMMA FieldStored ==
  ASSUME IInv, NEW s \in Ssrcs, sources_[s] # Null, NEW new \in Object,
         new.ssrc = s, heap' = [heap EXCEPT ![sources_[s]] = new]
  PROVE  /\ heap' \in [Addresses -> Object \cup {Null}]
         /\ \A a \in Addresses : /\ heap'[a] = Null <=> heap[a] = Null
                                 /\ heap[a] # Null => heap'[a].ssrc = heap[a].ssrc
<1>1. /\ sources_[s] \in Addresses /\ heap[sources_[s]] # Null /\ heap[sources_[s]].ssrc = s
      /\ heap \in [Addresses -> Object \cup {Null}]
  BY DEF IInv, OwnedAreLive, TypeOK, MapTypeOK
<1> QED
  BY <1>1, NullIsNoObject

\* AddRecordedData keeps the invariant: a wrong cast is a breach.
LEMMA AddRecordedDataStep ==
  ASSUME IInv, NEW ssrc \in Ssrcs, NEW n \in 0..MaxSupply, AddRecordedData(ssrc, n)
  PROVE  IInv'
<1> DEFINE a == sources_[ssrc]
           o == heap[a]
<1>1. /\ a # Null /\ o \in Object /\ o.ssrc = ssrc
      /\ UNCHANGED <<sources_, audio_source_list_, ctlVars, mixVars>>
  BY DEF AddRecordedData, IInv, OwnedAreLive, TypeOK, MapTypeOK
<1>2. CASE o.type = "record"
  <2>1. /\ o.supply + n <= MaxSupply /\ heap' = [heap EXCEPT ![a].supply = @ + n]
        /\ UNCHANGED <<fault, breach>>
    BY <1>2 DEF AddRecordedData
  <2> DEFINE new == [o EXCEPT !.supply = o.supply + n]
  <2>2. new \in Object /\ new.ssrc = ssrc
    BY <1>1, <2>1, MixerConstants DEF Object
  <2>3. heap' = [heap EXCEPT ![a] = new]
    BY <2>1
  <2> HIDE DEF new, o
  <2>4. /\ heap' \in [Addresses -> Object \cup {Null}]
        /\ \A b \in Addresses : /\ heap'[b] = Null <=> heap[b] = Null
                                /\ heap[b] # Null => heap'[b].ssrc = heap[b].ssrc
    BY <1>1, <2>2, <2>3, FieldStored
  <2>5. TypeOK' /\ FaultNeedsBreach'
    BY <1>1, <2>1, <2>4 DEF IInv, TypeOK, MapTypeOK, ClientTypeOK, MixTypeOK, FaultNeedsBreach,
       ctlVars, mixVars
  <2> QED
    BY <1>1, <2>1, <2>4, <2>5, InPlace
<1>3. CASE o.type # "record"
  <2>1. fault' = "wrong cast" /\ breach' = breach \cup {"recorded to a file"} /\ UNCHANGED heap
    BY <1>3 DEF AddRecordedData
  <2>2. TypeOK' /\ FaultNeedsBreach'
    BY <1>1, <2>1 DEF IInv, TypeOK, MapTypeOK, ClientTypeOK, MixTypeOK, FaultNeedsBreach,
       ctlVars, mixVars
  <2> QED
    BY <1>1, <2>1, <2>2, InPlace
<1> QED
  BY <1>2, <1>3

------------------------------------------------------------------------------
(* One lemma per action: the client's thread *)

\* UpdateVolume keeps the invariant: it stores into an object in place.
LEMMA UpdateVolumeStep ==
  ASSUME IInv, NEW ssrc \in Ssrcs, NEW volume \in Volumes, UpdateVolume(ssrc, volume)
  PROVE  IInv'
<1> DEFINE o == heap[sources_[ssrc]]
           new == [o EXCEPT !.volume = volume]
<1>1. /\ sources_[ssrc] # Null /\ o \in Object /\ o.ssrc = ssrc
      /\ heap' = [heap EXCEPT ![sources_[ssrc]] = new]
      /\ UNCHANGED <<sources_, audio_source_list_, ctlVars, mixVars, fault, breach>>
  BY DEF UpdateVolume, IInv, OwnedAreLive, TypeOK, MapTypeOK
<1>2. new \in Object /\ new.ssrc = ssrc
  BY <1>1 DEF Object
<1> HIDE DEF new
<1>3. /\ heap' \in [Addresses -> Object \cup {Null}]
      /\ \A b \in Addresses : /\ heap'[b] = Null <=> heap[b] = Null
                              /\ heap[b] # Null => heap'[b].ssrc = heap[b].ssrc
  BY <1>1, <1>2, FieldStored
<1>4. TypeOK' /\ FaultNeedsBreach'
  BY <1>1, <1>3 DEF IInv, TypeOK, MapTypeOK, ClientTypeOK, MixTypeOK, FaultNeedsBreach,
     ctlVars, mixVars
<1> QED
  BY <1>1, <1>3, <1>4, InPlace

\* The start of the constructor keeps the invariant.
LEMMA CreateStep ==
  ASSUME IInv, NEW config \in Configs, NEW ms \in Durations, Create(config, ms)
  PROVE  IInv'
<1>1. /\ ctl = "unborn" /\ ctl' \in {"construct", "aborted"} /\ todo' \in Seq(MixerSource)
      /\ UNCHANGED <<sources_, heap, audio_source_list_, iter, ptr, mixVars, fault, breach>>
  BY DEF Create, Configs
<1>2. TypeOK' /\ FaultNeedsBreach'
  BY <1>1 DEF IInv, TypeOK, MapTypeOK, ClientTypeOK, MixTypeOK, CtlStates, FaultNeedsBreach, mixVars
<1>3. Owned' = Owned /\ Live' = Live /\ Registered' = Registered
  BY <1>1 DEF Owned, Live, Registered
<1>4. OwnedAreLive' /\ PointerIsLive' /\ LiveIsOwned' /\ LoopIsPresent'
  BY <1>1, <1>3 DEF IInv, OwnedAreLive, PointerIsLive, LiveIsOwned, LoopIsPresent
<1>5. PointersAreListed'
  BY <1>1, <1>3 DEF IInv, PointersAreListed, Listed
<1> QED
  BY <1>2, <1>4, <1>5 DEF IInv

\* What DoAddSource leaves: one more living object, owned by the map unless the
\* ssrc was taken.
LEMMA SourceAdded ==
  ASSUME IInv, NEW source \in MixerSource, NEW a \in Addresses, DoAddSource(source, a)
  PROVE  /\ heap' \in [Addresses -> Object \cup {Null}]
         /\ sources_' \in [Ssrcs -> Addresses \cup {Null}]
         /\ OwnedAreLive'
         /\ a \notin Owned /\ a \notin Live /\ Live' = Live \cup {a}
         /\ \A s \in Present : sources_'[s] = sources_[s]
         /\ sources_[source.ssrc] # Null => Present' = Present /\ Owned' = Owned
         /\ sources_[source.ssrc] = Null =>
              /\ source.ssrc \notin Present /\ Present' = Present \cup {source.ssrc}
              /\ sources_'[source.ssrc] = a /\ Owned' = Owned \cup {a}
<1> DEFINE k == source.ssrc
           new == NewObject(source)
<1>1. k \in Ssrcs /\ new \in Object /\ new.ssrc = k /\ new # Null
  BY MixerConstants, NullIsNoObject DEF MixerSource, NewObject, Object
<1> HIDE DEF new, k
<1>2. /\ heap[a] = Null /\ heap' = [heap EXCEPT ![a] = new]
      /\ sources_' = IF sources_[k] = Null THEN [sources_ EXCEPT ![k] = a] ELSE sources_
  BY DEF DoAddSource, new, k
<1>3. /\ heap \in [Addresses -> Object \cup {Null}] /\ sources_ \in [Ssrcs -> Addresses \cup {Null}]
      /\ a # Null
      /\ \A s \in Ssrcs : sources_[s] # Null =>
           heap[sources_[s]] # Null /\ heap[sources_[s]].ssrc = s
  BY MixerConstants DEF IInv, OwnedAreLive, TypeOK, MapTypeOK
<1>4. heap' \in [Addresses -> Object \cup {Null}] /\ sources_' \in [Ssrcs -> Addresses \cup {Null}]
  BY <1>1, <1>2, <1>3
<1>5. \A s \in Ssrcs : sources_[s] # a
  BY <1>2, <1>3
<1>6. OwnedAreLive'
  BY <1>1, <1>2, <1>3, <1>5 DEF OwnedAreLive
<1>7. a \notin Owned /\ a \notin Live /\ Live' = Live \cup {a}
  BY <1>1, <1>2, <1>3, <1>5 DEF Owned, Live
<1>8. \A s \in Present : sources_'[s] = sources_[s]
  BY <1>1, <1>2, <1>3 DEF Present
<1>9. sources_[k] # Null => Present' = Present /\ Owned' = Owned
  BY <1>2 DEF Present, Owned
<1>10. ASSUME sources_[k] = Null
       PROVE  /\ k \notin Present /\ Present' = Present \cup {k}
              /\ sources_'[k] = a /\ Owned' = Owned \cup {a}
  <2>1. sources_' = [sources_ EXCEPT ![k] = a]
    BY <1>2, <1>10
  <2>2. k \notin Present /\ Present' = Present \cup {k} /\ sources_'[k] = a
    BY <1>1, <1>3, <1>10, <2>1 DEF Present
  <2>3. Owned' = Owned \cup {a}
    <3>1. ASSUME NEW x \in Owned' PROVE x \in Owned \cup {a}
      BY <1>1, <1>3, <2>1, <3>1 DEF Owned
    <3>2. ASSUME NEW x \in Owned \cup {a} PROVE x \in Owned'
      BY <1>1, <1>3, <1>10, <2>1, <3>2 DEF Owned
    <3> QED
      BY <3>1, <3>2
  <2> QED
    BY <2>2, <2>3
<1> QED
  BY <1>4, <1>6, <1>7, <1>8, <1>9, <1>10 DEF k

\* The constructor's DoAddSource loop keeps the invariant.
LEMMA ConstructSourceStep == ASSUME IInv, ConstructSource PROVE IInv'
<1> DEFINE source == Head(todo)
<1>1. /\ ctl = "construct" /\ todo # << >>
      /\ UNCHANGED <<audio_source_list_, iter, ptr, mixVars, fault, breach>>
  BY DEF ConstructSource
<1>2. source \in MixerSource /\ Tail(todo) \in Seq(MixerSource)
  BY <1>1, HeadTailProperties DEF IInv, TypeOK, ClientTypeOK
<1>3. MixTypeOK' /\ FaultNeedsBreach' /\ Registered' = Registered
  BY <1>1 DEF IInv, TypeOK, MixTypeOK, FaultNeedsBreach, mixVars, Registered
<1>4. CASE ctl' = "aborted" /\ UNCHANGED <<sources_, heap, todo>>
  <2>1. Owned' = Owned /\ Live' = Live
    BY <1>4 DEF Owned, Live
  <2>2. MapTypeOK' /\ ClientTypeOK'
    BY <1>1, <1>4 DEF IInv, TypeOK, MapTypeOK, ClientTypeOK, CtlStates
  <2>3. OwnedAreLive' /\ PointerIsLive' /\ LiveIsOwned' /\ LoopIsPresent' /\ PointersAreListed'
    BY <1>1, <1>4, <2>1 DEF IInv, OwnedAreLive, PointerIsLive, LiveIsOwned, LoopIsPresent,
       PointersAreListed
  <2> QED
    BY <1>3, <2>2, <2>3 DEF IInv, TypeOK
<1>5. CASE /\ todo' = Tail(todo) /\ UNCHANGED ctl
           /\ sources_[source.ssrc] # Null /\ UNCHANGED <<sources_, heap>>
  <2>1. Owned' = Owned /\ Live' = Live /\ Listed' = Listed
    BY <1>1, <1>5 DEF Owned, Live, Listed
  <2>2. MapTypeOK' /\ ClientTypeOK'
    BY <1>1, <1>2, <1>5 DEF IInv, TypeOK, MapTypeOK, ClientTypeOK
  <2>3. OwnedAreLive' /\ PointerIsLive' /\ LiveIsOwned' /\ LoopIsPresent'
    BY <1>1, <1>5, <2>1 DEF IInv, OwnedAreLive, PointerIsLive, LiveIsOwned, LoopIsPresent
  <2>4. PointersAreListed'
    BY <1>1, <1>3, <1>5, <2>1 DEF IInv, PointersAreListed, Listed
  <2> QED
    BY <1>3, <2>2, <2>3, <2>4 DEF IInv, TypeOK
<1>6. ASSUME NEW a \in Addresses, sources_[source.ssrc] = Null, DoAddSource(source, a),
             todo' = Tail(todo), UNCHANGED ctl
      PROVE  IInv'
  <2>1. /\ heap' \in [Addresses -> Object \cup {Null}]
        /\ sources_' \in [Ssrcs -> Addresses \cup {Null}]
        /\ OwnedAreLive' /\ Live' = Live \cup {a} /\ Owned' = Owned \cup {a}
    BY <1>2, <1>6, SourceAdded
  <2>2. MapTypeOK' /\ ClientTypeOK'
    BY <1>1, <1>2, <1>6, <2>1 DEF IInv, TypeOK, MapTypeOK, ClientTypeOK
  <2>3. PointerIsLive' /\ LiveIsOwned' /\ LoopIsPresent'
    BY <1>1, <1>6, <2>1 DEF IInv, PointerIsLive, LiveIsOwned, LoopIsPresent
  <2>4. PointersAreListed'
    BY <1>1, <1>3, <1>6 DEF IInv, PointersAreListed, Listed
  <2> QED
    BY <1>3, <2>1, <2>2, <2>3, <2>4 DEF IInv, TypeOK
<1> QED
  BY <1>4, <1>5, <1>6 DEF ConstructSource

\* One more pointer is registered: the source of an entry WebRTC does not know.
LEMMA EntryRegistered ==
  ASSUME IInv, NEW a \in Addresses,
         audio_source_list_' = Append(audio_source_list_, a)
  PROVE  /\ audio_source_list_' \in Seq(Addresses)
         /\ Registered' = Registered \cup {a}
         /\ IsInjective(audio_source_list_) /\ a \notin Registered =>
              IsInjective(audio_source_list_')
BY AppendPointer DEF IInv, TypeOK, MapTypeOK, Registered

\* The constructor's mixer_->AddSource loop keeps the invariant.
LEMMA ConstructRegisterStep == ASSUME IInv, ConstructRegister PROVE IInv'
<1>1. UNCHANGED <<sources_, heap, todo, ptr, mixVars, fault, breach>>
  BY DEF ConstructRegister
<1>2. Owned' = Owned /\ Live' = Live /\ Present' = Present
  BY <1>1 DEF Owned, Live, Present
<1>3. MixTypeOK' /\ FaultNeedsBreach' /\ OwnedAreLive'
  BY <1>1 DEF IInv, TypeOK, MixTypeOK, FaultNeedsBreach, mixVars, OwnedAreLive
<1>4. CASE /\ ctl = "construct" /\ ctl' = "register" /\ iter' = Present
           /\ UNCHANGED audio_source_list_
  <2>1. MapTypeOK' /\ ClientTypeOK'
    BY <1>1, <1>4 DEF IInv, TypeOK, MapTypeOK, ClientTypeOK, CtlStates, Present
  <2>2. PointerIsLive' /\ LiveIsOwned' /\ LoopIsPresent'
    BY <1>1, <1>2, <1>4 DEF IInv, PointerIsLive, LiveIsOwned, LoopIsPresent
  <2>3. Listed' = {} /\ Listed = {}
    BY <1>2, <1>4 DEF Listed
  <2>4. PointersAreListed'
    BY <1>1, <1>4, <2>3 DEF IInv, PointersAreListed, Registered
  <2> QED
    BY <1>3, <2>1, <2>2, <2>4 DEF IInv, TypeOK
<1>5. ASSUME NEW s \in iter, ctl = "register", UNCHANGED ctl, iter' = iter \ {s},
             audio_source_list_' = Append(audio_source_list_, sources_[s])
      PROVE  IInv'
  <2>1. s \in Present /\ sources_[s] \in Addresses /\ iter \subseteq Present
    BY <1>5 DEF IInv, LoopIsPresent, TypeOK, MapTypeOK, Present
  <2>2. /\ audio_source_list_' \in Seq(Addresses) /\ Registered' = Registered \cup {sources_[s]}
        /\ IsInjective(audio_source_list_) /\ sources_[s] \notin Registered =>
             IsInjective(audio_source_list_')
    BY <1>5, <2>1, EntryRegistered
  <2>3. MapTypeOK' /\ ClientTypeOK'
    BY <1>1, <1>5, <2>2 DEF IInv, TypeOK, MapTypeOK, ClientTypeOK
  <2>4. PointerIsLive' /\ LiveIsOwned' /\ LoopIsPresent'
    BY <1>1, <1>2, <1>5, <2>1 DEF IInv, PointerIsLive, LiveIsOwned, LoopIsPresent
  <2>5. Listed = Present \ iter /\ Listed' = (Present \ iter) \cup {s}
    BY <1>2, <1>5, <2>1 DEF Listed
  <2>6. PointersAreListed'
    <3> SUFFICES ASSUME breach' = {}
                 PROVE  /\ IsInjective(audio_source_list_')
                        /\ Registered' = {sources_[t] : t \in Listed'}
      BY <1>1 DEF PointersAreListed
    <3>1. IsInjective(audio_source_list_) /\ Registered = {sources_[t] : t \in Present \ iter}
      BY <1>1, <1>5, <2>5 DEF IInv, PointersAreListed
    <3>2. \A t \in Present \ iter : sources_[t] # sources_[s]
      BY <2>1, OwnersDiffer DEF IInv
    <3>3. sources_[s] \notin Registered
      BY <3>1, <3>2
    <3>4. Registered' = {sources_[t] : t \in Listed'}
      BY <2>2, <2>5, <3>1
    <3> QED
      BY <2>2, <3>1, <3>3, <3>4
  <2> QED
    BY <1>3, <2>3, <2>4, <2>6 DEF IInv, TypeOK
<1>6. CASE /\ ctl = "register" /\ iter = {} /\ ctl' = "idle"
           /\ UNCHANGED <<audio_source_list_, iter>>
  <2>1. MapTypeOK' /\ ClientTypeOK'
    BY <1>1, <1>6 DEF IInv, TypeOK, MapTypeOK, ClientTypeOK, CtlStates
  <2>2. PointerIsLive' /\ LiveIsOwned' /\ LoopIsPresent'
    BY <1>1, <1>2, <1>6 DEF IInv, PointerIsLive, LiveIsOwned, LoopIsPresent
  <2>3. Listed' = Present /\ Listed = Present
    BY <1>2, <1>6 DEF Listed
  <2>4. PointersAreListed'
    BY <1>1, <1>6, <2>3 DEF IInv, PointersAreListed, Registered
  <2> QED
    BY <1>3, <2>1, <2>2, <2>4 DEF IInv, TypeOK
<1> QED
  BY <1>4, <1>5, <1>6 DEF ConstructRegister

\* AddSource's DoAddSource keeps the invariant: the new entry is not listed yet.
LEMMA AddSourceStep ==
  ASSUME IInv, NEW source \in MixerSource, AddSource(source)
  PROVE  IInv'
<1>1. ctl = "idle" /\ UNCHANGED <<audio_source_list_, todo, iter, mixVars, fault>>
  BY DEF AddSource
<1>2. MixTypeOK' /\ Registered' = Registered /\ audio_source_list_' \in Seq(Addresses)
  BY <1>1 DEF IInv, TypeOK, MapTypeOK, MixTypeOK, mixVars, Registered
<1>3. CASE ctl' = "aborted" /\ UNCHANGED <<sources_, heap, ptr, breach>>
  <2>1. Owned' = Owned /\ Live' = Live
    BY <1>3 DEF Owned, Live
  <2>2. MapTypeOK' /\ ClientTypeOK' /\ FaultNeedsBreach'
    BY <1>1, <1>3 DEF IInv, TypeOK, MapTypeOK, ClientTypeOK, CtlStates, FaultNeedsBreach
  <2>3. OwnedAreLive' /\ PointerIsLive' /\ LiveIsOwned' /\ LoopIsPresent' /\ PointersAreListed'
    BY <1>1, <1>3, <2>1 DEF IInv, OwnedAreLive, PointerIsLive, LiveIsOwned, LoopIsPresent,
       PointersAreListed
  <2> QED
    BY <1>2, <2>2, <2>3 DEF IInv, TypeOK
<1>4. ASSUME NEW a \in Addresses, DoAddSource(source, a), ptr' = a, ctl' = "add",
             breach' = IF sources_[source.ssrc] = Null THEN breach
                       ELSE breach \cup {"ssrc added twice"}
      PROVE  IInv'
  <2>1. /\ heap' \in [Addresses -> Object \cup {Null}]
        /\ sources_' \in [Ssrcs -> Addresses \cup {Null}]
        /\ OwnedAreLive' /\ a \notin Owned /\ a \notin Live /\ Live' = Live \cup {a}
        /\ \A s \in Present : sources_'[s] = sources_[s]
        /\ sources_[source.ssrc] # Null => Present' = Present /\ Owned' = Owned
        /\ sources_[source.ssrc] = Null =>
             /\ source.ssrc \notin Present /\ Present' = Present \cup {source.ssrc}
             /\ sources_'[source.ssrc] = a /\ Owned' = Owned \cup {a}
    BY <1>4, SourceAdded
  <2>2. MapTypeOK' /\ ClientTypeOK' /\ FaultNeedsBreach'
    BY <1>1, <1>2, <1>4, <2>1 DEF IInv, TypeOK, MapTypeOK, ClientTypeOK, CtlStates, FaultNeedsBreach
  <2>3. breach' = {} => breach = {} /\ sources_[source.ssrc] = Null
    BY <1>4
  <2>4. PointerIsLive' /\ LiveIsOwned' /\ LoopIsPresent'
    <3>1. Owned \subseteq Owned'
      BY <2>1
    <3> QED
      BY <1>1, <1>4, <2>1, <2>3, <3>1 DEF IInv, PointerIsLive, LiveIsOwned, LoopIsPresent
  <2>5. PointersAreListed'
    <3> SUFFICES ASSUME breach' = {}
                 PROVE  /\ IsInjective(audio_source_list_')
                        /\ Registered' = {sources_'[t] : t \in Listed'}
      BY DEF PointersAreListed
    <3>1. IsInjective(audio_source_list_) /\ Registered = {sources_[t] : t \in Present}
      BY <1>1, <2>3 DEF IInv, PointersAreListed, Listed
    <3>2. Listed' = {s \in Present' : sources_'[s] # a}
      BY <1>4 DEF Listed
    <3>3. \A s \in Present : sources_[s] # a
      BY <2>1 DEF Owned, Present
    <3>4. Listed' = Present
      BY <2>1, <2>3, <3>2, <3>3
    <3>5. {sources_'[t] : t \in Present} = {sources_[t] : t \in Present}
      BY <2>1
    <3> QED
      BY <1>1, <1>2, <3>1, <3>4, <3>5
  <2> QED
    BY <1>2, <2>1, <2>2, <2>4, <2>5 DEF IInv, TypeOK
<1> QED
  BY <1>3, <1>4 DEF AddSource

\* AddSource's mixer_->AddSource keeps the invariant: now it is listed.
LEMMA AddSourceRegisterStep == ASSUME IInv, AddSourceRegister PROVE IInv'
<1>1. /\ ctl = "add" /\ ctl' = "added" /\ audio_source_list_' = Append(audio_source_list_, ptr)
      /\ UNCHANGED <<sources_, heap, todo, iter, ptr, mixVars, fault, breach>>
  BY DEF AddSourceRegister
<1>2. Owned' = Owned /\ Live' = Live /\ Present' = Present
  BY <1>1 DEF Owned, Live, Present
<1>3. ptr \in Addresses /\ (breach = {} => ptr \in Owned)
  BY <1>1 DEF IInv, PointerIsLive, Live
<1>4. /\ audio_source_list_' \in Seq(Addresses) /\ Registered' = Registered \cup {ptr}
      /\ IsInjective(audio_source_list_) /\ ptr \notin Registered => IsInjective(audio_source_list_')
  BY <1>1, <1>3, EntryRegistered
<1>5. TypeOK' /\ FaultNeedsBreach' /\ OwnedAreLive'
  BY <1>1, <1>4 DEF IInv, TypeOK, MapTypeOK, ClientTypeOK, CtlStates, MixTypeOK, FaultNeedsBreach,
     OwnedAreLive, mixVars
<1>6. PointerIsLive' /\ LiveIsOwned' /\ LoopIsPresent'
  BY <1>1, <1>2 DEF IInv, PointerIsLive, LiveIsOwned, LoopIsPresent
<1>7. PointersAreListed'
  <2> SUFFICES ASSUME breach' = {}
               PROVE  /\ IsInjective(audio_source_list_')
                      /\ Registered' = {sources_[t] : t \in Listed'}
    BY <1>1 DEF PointersAreListed
  <2>1. /\ IsInjective(audio_source_list_)
        /\ Registered = {sources_[t] : t \in {s \in Present : sources_[s] # ptr}}
    BY <1>1 DEF IInv, PointersAreListed, Listed
  <2>2. Listed' = Present
    BY <1>1, <1>2 DEF Listed
  <2>3. \E s \in Present : sources_[s] = ptr
    BY <1>1, <1>3 DEF Owned, Present
  <2> QED
    BY <1>4, <2>1, <2>2, <2>3
<1> QED
  BY <1>5, <1>6, <1>7 DEF IInv

\* The return of AddSource keeps the invariant: it frees only an unowned object.
LEMMA AddSourceReturnStep == ASSUME IInv, AddSourceReturn PROVE IInv'
<1>1. /\ ctl = "added" /\ ctl' = "idle" /\ ptr' = Null
      /\ heap' = IF ptr \in Owned THEN heap ELSE [heap EXCEPT ![ptr] = Null]
      /\ UNCHANGED <<sources_, audio_source_list_, todo, iter, mixVars, fault, breach>>
  BY DEF AddSourceReturn
<1>2. /\ Owned' = Owned /\ Present' = Present /\ Registered' = Registered
      /\ Listed' = Present /\ Listed = Present
  BY <1>1 DEF Owned, Present, Registered, Listed
<1>3. ptr \in Addresses /\ heap \in [Addresses -> Object \cup {Null}]
  BY <1>1 DEF IInv, PointerIsLive, Live, TypeOK, MapTypeOK
<1>4. heap' \in [Addresses -> Object \cup {Null}] /\ Live' \subseteq Live
      /\ (ptr \notin Owned => ptr \notin Live')
      /\ \A a \in Owned : heap'[a] = heap[a]
  BY <1>1, <1>3 DEF Live, Owned
<1>5. TypeOK' /\ FaultNeedsBreach'
  BY <1>1, <1>4 DEF IInv, TypeOK, MapTypeOK, ClientTypeOK, CtlStates, MixTypeOK, FaultNeedsBreach,
     mixVars
<1>6. OwnedAreLive'
  <2> SUFFICES ASSUME NEW s \in Ssrcs, sources_[s] # Null
               PROVE  heap'[sources_[s]] # Null /\ heap'[sources_[s]].ssrc = s
    BY <1>1 DEF OwnedAreLive
  <2>1. sources_[s] \in Owned
    BY DEF Owned
  <2>2. heap'[sources_[s]] = heap[sources_[s]]
    BY <1>4, <2>1
  <2> QED
    BY <2>2 DEF IInv, OwnedAreLive
<1>7. PointerIsLive' /\ LiveIsOwned' /\ LoopIsPresent'
  BY <1>1, <1>2, <1>4 DEF IInv, PointerIsLive, LiveIsOwned, LoopIsPresent
<1>8. PointersAreListed'
  BY <1>1, <1>2 DEF IInv, PointersAreListed
<1> QED
  BY <1>5, <1>6, <1>7, <1>8 DEF IInv

\* One entry of the map is unregistered.
LEMMA EntryUnregistered ==
  ASSUME IInv, NEW a, Unregister(a)
  PROVE  /\ audio_source_list_' \in Seq(Addresses)
         /\ Registered \ {a} \subseteq Registered'
         /\ IsInjective(audio_source_list_) =>
              IsInjective(audio_source_list_') /\ Registered' = Registered \ {a}
BY RemovePointer DEF Unregister, IInv, TypeOK, MapTypeOK, Registered

\* sources_.erase and sources_.clear, once the entries S are out of the way.
LEMMA EntriesErased ==
  ASSUME IInv, NEW S \in SUBSET Ssrcs, Erase(S)
  PROVE  /\ heap' \in [Addresses -> Object \cup {Null}]
         /\ sources_' \in [Ssrcs -> Addresses \cup {Null}]
         /\ OwnedAreLive'
         /\ Present' = Present \ S
         /\ \A s \in Present \ S : sources_'[s] = sources_[s]
         /\ \A a \in Live' : a \in Live /\ (a \in Owned => a \in Owned')
<1>1. /\ heap' = [a \in Addresses |-> IF \E s \in S : sources_[s] = a THEN Null ELSE heap[a]]
      /\ sources_' = [s \in Ssrcs |-> IF s \in S THEN Null ELSE sources_[s]]
  BY DEF Erase
<1>2. /\ heap \in [Addresses -> Object \cup {Null}] /\ sources_ \in [Ssrcs -> Addresses \cup {Null}]
      /\ \A s \in Ssrcs : sources_[s] # Null =>
           heap[sources_[s]] # Null /\ heap[sources_[s]].ssrc = s
  BY DEF IInv, OwnedAreLive, TypeOK, MapTypeOK
<1>3. heap' \in [Addresses -> Object \cup {Null}] /\ sources_' \in [Ssrcs -> Addresses \cup {Null}]
  BY <1>1, <1>2
<1>4. Present' = Present \ S /\ \A s \in Present \ S : sources_'[s] = sources_[s]
  BY <1>1 DEF Present
<1>5. OwnedAreLive'
  <2> SUFFICES ASSUME NEW s \in Ssrcs, sources_'[s] # Null
               PROVE  heap'[sources_'[s]] # Null /\ heap'[sources_'[s]].ssrc = s
    BY DEF OwnedAreLive
  <2>1. s \notin S /\ sources_'[s] = sources_[s] /\ sources_[s] \in Addresses
    BY <1>1, <1>2
  <2>2. \A t \in S : sources_[t] # sources_[s]
    BY <1>2, <2>1
  <2> QED
    BY <1>1, <1>2, <2>1, <2>2
<1>6. ASSUME NEW a \in Live'
      PROVE  a \in Live /\ (a \in Owned => a \in Owned')
  <2>1. a \in Addresses /\ heap'[a] # Null
    BY <1>6 DEF Live
  <2>2. a \in Live /\ \A s \in S : sources_[s] # a
    BY <1>1, <2>1 DEF Live
  <2> QED
    BY <1>1, <2>2 DEF Owned
<1> QED
  BY <1>3, <1>4, <1>5, <1>6

\* Unregistering one listed entry of the map takes exactly it off the list.
LEMMA PointersUnlisted ==
  ASSUME IInv, ctl # "aborted", NEW s \in Listed, Listed \subseteq Present,
         Unregister(sources_[s]), UNCHANGED <<sources_, breach>>, Listed' = Listed \ {s}
  PROVE  audio_source_list_' \in Seq(Addresses) /\ PointersAreListed'
<1>1. /\ audio_source_list_' \in Seq(Addresses)
      /\ IsInjective(audio_source_list_) =>
           IsInjective(audio_source_list_') /\ Registered' = Registered \ {sources_[s]}
  BY EntryUnregistered
<1>2. \A t \in Listed \ {s} : sources_[t] # sources_[s]
  BY OwnersDiffer DEF IInv
<1>3. ASSUME breach = {}
      PROVE  /\ IsInjective(audio_source_list_')
             /\ Registered' = {sources_[t] : t \in Listed \ {s}}
  <2>1. IsInjective(audio_source_list_) /\ Registered = {sources_[t] : t \in Listed}
    BY <1>3 DEF IInv, PointersAreListed
  <2> QED
    BY <1>1, <1>2, <2>1
<1> QED
  BY <1>1, <1>3 DEF PointersAreListed

\* RemoveSource keeps the invariant: an entry is unlisted before it is freed.
LEMMA RemoveSourceStep ==
  ASSUME IInv, NEW ssrc \in Ssrcs, RemoveSource(ssrc)
  PROVE  IInv'
<1>1. UNCHANGED <<todo, ptr, mixVars, fault, breach>>
  BY DEF RemoveSource
<1>2. MixTypeOK' /\ FaultNeedsBreach'
  BY <1>1 DEF IInv, TypeOK, MixTypeOK, FaultNeedsBreach, mixVars
<1>3. CASE /\ ctl = "idle" /\ sources_[ssrc] # Null /\ Unregister(sources_[ssrc])
           /\ ctl' = "remove" /\ iter' = {ssrc} /\ UNCHANGED <<sources_, heap>>
  <2>1. Owned' = Owned /\ Live' = Live /\ Present' = Present /\ ssrc \in Present
    BY <1>3 DEF Owned, Live, Present
  <2>2. Listed = Present /\ Listed' = Present \ {ssrc}
    BY <1>3, <2>1 DEF Listed
  <2>3. audio_source_list_' \in Seq(Addresses) /\ PointersAreListed'
    BY <1>1, <1>3, <2>1, <2>2, PointersUnlisted
  <2>4. MapTypeOK' /\ ClientTypeOK' /\ OwnedAreLive'
    BY <1>1, <1>3, <2>3 DEF IInv, TypeOK, MapTypeOK, ClientTypeOK, CtlStates, OwnedAreLive
  <2>5. PointerIsLive' /\ LiveIsOwned' /\ LoopIsPresent'
    BY <1>1, <1>3, <2>1 DEF IInv, PointerIsLive, LiveIsOwned, LoopIsPresent
  <2> QED
    BY <1>2, <2>3, <2>4, <2>5 DEF IInv, TypeOK
<1>4. CASE /\ ctl = "remove" /\ Erase(iter) /\ ctl' = "idle" /\ iter' = {}
           /\ UNCHANGED audio_source_list_
  <2>1. /\ heap' \in [Addresses -> Object \cup {Null}]
        /\ sources_' \in [Ssrcs -> Addresses \cup {Null}] /\ OwnedAreLive'
        /\ Present' = Present \ iter /\ \A s \in Present \ iter : sources_'[s] = sources_[s]
        /\ \A a \in Live' : a \in Live /\ (a \in Owned => a \in Owned')
    BY <1>4, EntriesErased DEF IInv, TypeOK, ClientTypeOK
  <2>2. MapTypeOK' /\ ClientTypeOK'
    BY <1>1, <1>4, <2>1 DEF IInv, TypeOK, MapTypeOK, ClientTypeOK, CtlStates
  <2>3. PointerIsLive' /\ LiveIsOwned' /\ LoopIsPresent'
    BY <1>4, <2>1 DEF IInv, PointerIsLive, LiveIsOwned, LoopIsPresent
  <2>4. Listed = Present \ iter /\ Listed' = Present \ iter /\ Registered' = Registered
    BY <1>4, <2>1 DEF Listed, Registered
  <2>5. PointersAreListed'
    BY <1>1, <1>4, <2>1, <2>4 DEF IInv, PointersAreListed
  <2> QED
    BY <1>2, <2>1, <2>2, <2>3, <2>5 DEF IInv, TypeOK
<1> QED
  BY <1>3, <1>4 DEF RemoveSource

\* The destructor keeps the invariant: every entry is unlisted before all are freed.
LEMMA DestroyStep == ASSUME IInv, Destroy PROVE IInv'
<1>1. UNCHANGED <<todo, ptr, mixVars, fault, breach>>
  BY DEF Destroy
<1>2. MixTypeOK' /\ FaultNeedsBreach'
  BY <1>1 DEF IInv, TypeOK, MixTypeOK, FaultNeedsBreach, mixVars
<1>3. CASE /\ ctl = "idle" /\ ctl' = "destroy" /\ iter' = Present
           /\ UNCHANGED <<sources_, heap, audio_source_list_>>
  <2>1. /\ Owned' = Owned /\ Live' = Live /\ Present' = Present /\ Registered' = Registered
        /\ Listed = Present /\ Listed' = Present
    BY <1>3 DEF Owned, Live, Present, Registered, Listed
  <2>2. MapTypeOK' /\ ClientTypeOK' /\ OwnedAreLive'
    BY <1>1, <1>3 DEF IInv, TypeOK, MapTypeOK, ClientTypeOK, CtlStates, OwnedAreLive, Present
  <2>3. PointerIsLive' /\ LiveIsOwned' /\ LoopIsPresent'
    BY <1>3, <2>1 DEF IInv, PointerIsLive, LiveIsOwned, LoopIsPresent
  <2>4. PointersAreListed'
    BY <1>1, <1>3, <2>1 DEF IInv, PointersAreListed
  <2> QED
    BY <1>2, <2>2, <2>3, <2>4 DEF IInv, TypeOK
<1>4. ASSUME NEW s \in iter, ctl = "destroy", Unregister(sources_[s]), iter' = iter \ {s},
             UNCHANGED <<sources_, heap, ctl>>
      PROVE  IInv'
  <2>1. /\ Owned' = Owned /\ Live' = Live /\ Present' = Present
        /\ Listed = iter /\ Listed' = iter \ {s} /\ iter \subseteq Present
    BY <1>4 DEF Owned, Live, Present, Listed, IInv, LoopIsPresent
  <2>2. audio_source_list_' \in Seq(Addresses) /\ PointersAreListed'
    BY <1>1, <1>4, <2>1, PointersUnlisted
  <2>3. MapTypeOK' /\ ClientTypeOK' /\ OwnedAreLive'
    BY <1>1, <1>4, <2>2 DEF IInv, TypeOK, MapTypeOK, ClientTypeOK, OwnedAreLive
  <2>4. PointerIsLive' /\ LiveIsOwned' /\ LoopIsPresent'
    BY <1>4, <2>1 DEF IInv, PointerIsLive, LiveIsOwned, LoopIsPresent
  <2> QED
    BY <1>2, <2>2, <2>3, <2>4 DEF IInv, TypeOK
<1>5. CASE /\ ctl = "destroy" /\ iter = {} /\ Erase(Ssrcs) /\ ctl' = "dead"
           /\ UNCHANGED <<audio_source_list_, iter>>
  <2>1. /\ heap' \in [Addresses -> Object \cup {Null}]
        /\ sources_' \in [Ssrcs -> Addresses \cup {Null}] /\ OwnedAreLive'
        /\ Present' = Present \ Ssrcs
        /\ \A a \in Live' : a \in Live /\ (a \in Owned => a \in Owned')
    BY <1>5, EntriesErased
  <2>2. MapTypeOK' /\ ClientTypeOK'
    BY <1>1, <1>5, <2>1 DEF IInv, TypeOK, MapTypeOK, ClientTypeOK, CtlStates
  <2>3. PointerIsLive' /\ LiveIsOwned' /\ LoopIsPresent'
    BY <1>5, <2>1 DEF IInv, PointerIsLive, LiveIsOwned, LoopIsPresent, Present
  <2>4. Listed = {} /\ Listed' = {} /\ Registered' = Registered
    BY <1>5 DEF Listed, Registered
  <2>5. PointersAreListed'
    BY <1>1, <1>5, <2>4 DEF IInv, PointersAreListed
  <2> QED
    BY <1>2, <2>1, <2>2, <2>3, <2>5 DEF IInv, TypeOK
<1> QED
  BY <1>3, <1>4, <1>5 DEF Destroy

------------------------------------------------------------------------------
(* The theorems *)

\* Before the constructor there is nothing to own.
LEMMA InitIInv == ASSUME Init PROVE IInv
<1>1. /\ Present = {} /\ Owned = {} /\ Live = {} /\ Listed = {}
      /\ Registered = {} /\ IsInjective(audio_source_list_)
  BY DEF Init, Present, Owned, Live, Listed, Registered, Range, IsInjective
<1>2. MapTypeOK /\ ClientTypeOK /\ MixTypeOK
  BY DEF Init, MapTypeOK, ClientTypeOK, CtlStates, MixTypeOK
<1>3. OwnedAreLive /\ PointerIsLive /\ LiveIsOwned /\ LoopIsPresent /\ FaultNeedsBreach
  BY <1>1 DEF Init, OwnedAreLive, PointerIsLive, LiveIsOwned, LoopIsPresent, FaultNeedsBreach
<1> QED
  BY <1>1, <1>2, <1>3 DEF IInv, TypeOK, PointersAreListed

\* A step of any thread keeps the invariant.
LEMMA NextIInv == ASSUME IInv, [Next]_vars PROVE IInv'
<1>1. CASE UNCHANGED vars
  <2>1. /\ UNCHANGED <<sources_, heap, audio_source_list_, ctlVars, mixVars, fault, breach>>
        /\ UNCHANGED <<ctl, todo, iter, ptr>>
        /\ UNCHANGED <<mix, output_frequency_, at, frames, answer, mixed_frame_>>
    BY <1>1 DEF vars, ctlVars, mixVars
  <2>2. TypeOK' /\ FaultNeedsBreach'
    BY <2>1 DEF IInv, TypeOK, MapTypeOK, ClientTypeOK, MixTypeOK, FaultNeedsBreach
  <2> QED
    BY <2>1, <2>2, InPlace
<1>2. ASSUME NEW config \in Configs, NEW ms \in Durations, Create(config, ms)
      PROVE  IInv'
  BY <1>2, CreateStep
<1>3. CASE \E source \in MixerSource : AddSource(source)
  BY <1>3, AddSourceStep
<1>4. CASE \E ssrc \in Ssrcs : RemoveSource(ssrc)
  BY <1>4, RemoveSourceStep
<1>5. CASE \E ssrc \in Ssrcs, volume \in Volumes : UpdateVolume(ssrc, volume)
  BY <1>5, UpdateVolumeStep
<1>6. CASE \E ssrc \in Ssrcs, n \in 0..MaxSupply : AddRecordedData(ssrc, n)
  BY <1>6, AddRecordedDataStep
<1>7. CASE ~Over /\ MixStep
  BY <1>7, MixFrequencyStep, MixLockStep, MixPullStep, MixCombineStep DEF MixStep
<1>8. CASE ClientStep
  BY <1>8, <1>2, <1>3, <1>4, <1>5, ConstructSourceStep, ConstructRegisterStep,
     AddSourceRegisterStep, AddSourceReturnStep, DestroyStep DEF ClientStep
<1> QED
  BY <1>1, <1>6, <1>7, <1>8 DEF Next

\* The inductive invariant: at every point of every call of either thread the
\* map, the heap and WebRTC's list agree as Listed says.
THEOREM OwnershipInvariant == Spec => []IInv
<1>1. Init => IInv
  BY InitIInv
<1>2. IInv /\ [Next]_vars => IInv'
  BY NextIInv
<1> QED
  BY <1>1, <1>2, PTL DEF Spec

\* Type correctness of AudioMixer's and AudioMixerImpl's state.
THEOREM MixerTypeCorrect == Spec => []TypeOK
<1>1. IInv => TypeOK
  BY DEF IInv
<1> QED
  BY <1>1, OwnershipInvariant, PTL

\* However Mix interleaves with AddSource, RemoveSource and the destructor,
\* WebRTC never calls a freed source unless the client added an ssrc twice or
\* recorded to a file source.
THEOREM NoFreedSource == Spec => []FaultNeedsBreach
<1>1. IInv => FaultNeedsBreach
  BY DEF IInv
<1> QED
  BY <1>1, OwnershipInvariant, PTL

\* Between calls AudioMixerImpl holds each source of sources_ exactly once.
THEOREM ListMatchesMap == Spec => []RegisteredAreOwned
<1>1. IInv => RegisteredAreOwned
  <2> SUFFICES ASSUME IInv, ctl = "idle", breach = {}
               PROVE  /\ Registered = Owned /\ IsInjective(audio_source_list_)
                      /\ \A s \in Present : heap[sources_[s]] # Null /\ heap[sources_[s]].ssrc = s
    BY DEF RegisteredAreOwned
  <2>1. IsInjective(audio_source_list_) /\ Registered = {sources_[s] : s \in Present}
    BY DEF IInv, PointersAreListed, Listed
  <2>2. Owned = {sources_[s] : s \in Present}
    BY DEF Owned, Present
  <2>3. \A s \in Present : heap[sources_[s]] # Null /\ heap[sources_[s]].ssrc = s
    BY DEF IInv, OwnedAreLive, Present
  <2> QED
    BY <2>1, <2>2, <2>3
<1> QED
  BY <1>1, OwnershipInvariant, PTL

\* Neither a refused duplicate nor the destructor leaks a source, whatever the
\* client does.
THEOREM NoLeak == Spec => []NothingLeaks
<1>1. ASSUME IInv, ctl = "idle"
      PROVE  Live = Owned
  <2>1. Owned \subseteq Live
    BY <1>1 DEF IInv, OwnedAreLive, Owned, Live, TypeOK, MapTypeOK
  <2>2. Live \subseteq Owned
    BY <1>1 DEF IInv, LiveIsOwned
  <2> QED
    BY <2>1, <2>2
<1>2. ASSUME IInv, ctl = "dead"
      PROVE  Live = {}
  BY <1>2 DEF IInv, LiveIsOwned, LoopIsPresent, Owned, Present
<1>3. ASSUME IInv, ctl = "dead", breach = {}
      PROVE  audio_source_list_ = << >>
  <2>1. Registered = {} /\ audio_source_list_ \in Seq(Addresses)
    BY <1>3 DEF IInv, PointersAreListed, Listed, TypeOK, MapTypeOK
  <2>2. /\ Len(audio_source_list_) \in Nat
        /\ DOMAIN audio_source_list_ = 1..Len(audio_source_list_)
    BY <2>1, LenProperties
  <2>3. 1 \notin DOMAIN audio_source_list_
    BY <2>1 DEF Registered, Range
  <2>4. Len(audio_source_list_) = 0
    BY <2>2, <2>3
  <2> QED
    BY <2>1, <2>4, EmptySeq
<1>4. IInv => NothingLeaks
  BY <1>1, <1>2, <1>3 DEF NothingLeaks
<1> QED
  BY <1>4, OwnershipInvariant, PTL

------------------------------------------------------------------------------
(* What the list holds whatever the client does *)

\* Every entry that should be registered is.  Unlike PointersAreListed this
\* needs no obligation of the client: a duplicate only adds pointers.
ListedAreRegistered == \A s \in Listed : sources_[s] \in Registered

\* A step of the client's thread keeps ListedAreRegistered.
LEMMA ClientListed ==
  ASSUME IInv, ListedAreRegistered, ClientStep
  PROVE  ListedAreRegistered'
<1>1. ASSUME NEW config \in Configs, NEW ms \in Durations, Create(config, ms)
      PROVE  ListedAreRegistered'
  BY <1>1 DEF Create, ListedAreRegistered, Listed
<1>2. CASE ConstructSource
  BY <1>2 DEF ConstructSource, ListedAreRegistered, Listed
<1>3. CASE ConstructRegister
  <2>1. Present' = Present /\ UNCHANGED sources_
    BY <1>3 DEF ConstructRegister, Present
  <2>2. CASE ctl' = "register" /\ iter' = Present
    BY <2>1, <2>2 DEF ListedAreRegistered, Listed
  <2>3. ASSUME NEW s \in iter, ctl = "register", UNCHANGED ctl, iter' = iter \ {s},
               audio_source_list_' = Append(audio_source_list_, sources_[s])
        PROVE  ListedAreRegistered'
    <3>1. sources_[s] \in Addresses
      BY <2>3 DEF IInv, LoopIsPresent, TypeOK, MapTypeOK, Present
    <3>2. Registered' = Registered \cup {sources_[s]}
      BY <2>3, <3>1, EntryRegistered
    <3>3. Listed' \subseteq Listed \cup {s}
      BY <2>1, <2>3 DEF Listed
    <3> QED
      BY <2>1, <3>2, <3>3 DEF ListedAreRegistered
  <2>4. CASE ctl = "register" /\ iter = {} /\ ctl' = "idle" /\ UNCHANGED audio_source_list_
    BY <2>1, <2>4 DEF ListedAreRegistered, Listed, Registered
  <2> QED
    BY <1>3, <2>2, <2>3, <2>4 DEF ConstructRegister
<1>4. ASSUME NEW source \in MixerSource, AddSource(source)
      PROVE  ListedAreRegistered'
  <2>1. Registered' = Registered /\ Listed = Present
    BY <1>4 DEF AddSource, Registered, Listed
  <2>2. CASE ctl' = "aborted"
    BY <2>2 DEF ListedAreRegistered, Listed
  <2>3. ASSUME NEW a \in Addresses, DoAddSource(source, a), ptr' = a, ctl' = "add"
        PROVE  ListedAreRegistered'
    <3>1. /\ \A s \in Present : sources_'[s] = sources_[s]
          /\ sources_[source.ssrc] # Null => Present' = Present
          /\ sources_[source.ssrc] = Null =>
               Present' = Present \cup {source.ssrc} /\ sources_'[source.ssrc] = a
      BY <2>3, SourceAdded
    <3>2. Listed' = {s \in Present' : sources_'[s] # a}
      BY <2>3 DEF Listed
    <3>3. Listed' \subseteq Present
      BY <3>1, <3>2
    <3> QED
      BY <2>1, <3>1, <3>3 DEF ListedAreRegistered
  <2> QED
    BY <1>4, <2>2, <2>3 DEF AddSource
<1>5. CASE AddSourceRegister
  <2>1. /\ ctl = "add" /\ ctl' = "added" /\ UNCHANGED <<sources_, ptr>>
        /\ audio_source_list_' = Append(audio_source_list_, ptr)
    BY <1>5 DEF AddSourceRegister
  <2>2. Registered' = Registered \cup {ptr}
    BY <2>1, EntryRegistered DEF IInv, PointerIsLive, Live
  <2>3. Listed = {s \in Present : sources_[s] # ptr} /\ Listed' = Present
    BY <2>1 DEF Listed, Present
  <2> QED
    BY <2>1, <2>2, <2>3 DEF ListedAreRegistered
<1>6. CASE AddSourceReturn
  BY <1>6 DEF AddSourceReturn, ListedAreRegistered, Listed, Registered, Present
<1>7. ASSUME NEW s \in Listed, Listed \subseteq Present, Unregister(sources_[s]),
             UNCHANGED sources_, Listed' = Listed \ {s}
      PROVE  ListedAreRegistered'
  <2>1. Registered \ {sources_[s]} \subseteq Registered'
    BY <1>7, EntryUnregistered
  <2>2. \A t \in Listed \ {s} : sources_[t] # sources_[s]
    BY <1>7, OwnersDiffer DEF IInv
  <2> QED
    BY <1>7, <2>1, <2>2 DEF ListedAreRegistered
<1>8. ASSUME NEW ssrc \in Ssrcs, RemoveSource(ssrc)
      PROVE  ListedAreRegistered'
  <2>1. CASE /\ ctl = "idle" /\ sources_[ssrc] # Null /\ Unregister(sources_[ssrc])
             /\ ctl' = "remove" /\ iter' = {ssrc} /\ UNCHANGED sources_
    <3>1. ssrc \in Listed /\ Listed = Present /\ Listed' = Listed \ {ssrc}
      BY <2>1 DEF Listed, Present
    <3> QED
      BY <1>7, <2>1, <3>1
  <2>2. CASE ctl = "remove" /\ Erase(iter) /\ ctl' = "idle" /\ UNCHANGED audio_source_list_
    <3>1. Present' = Present \ iter /\ \A s \in Present \ iter : sources_'[s] = sources_[s]
      BY <2>2, EntriesErased DEF IInv, TypeOK, ClientTypeOK
    <3> QED
      BY <2>2, <3>1 DEF ListedAreRegistered, Listed, Registered
  <2> QED
    BY <1>8, <2>1, <2>2 DEF RemoveSource
<1>9. CASE Destroy
  <2>1. CASE ctl = "idle" /\ ctl' = "destroy" /\ iter' = Present
             /\ UNCHANGED <<sources_, audio_source_list_>>
    BY <2>1 DEF ListedAreRegistered, Listed, Registered
  <2>2. ASSUME NEW s \in iter, ctl = "destroy", Unregister(sources_[s]), iter' = iter \ {s},
               UNCHANGED <<sources_, ctl>>
        PROVE  ListedAreRegistered'
    <3>1. s \in Listed /\ Listed \subseteq Present /\ Listed' = Listed \ {s}
      BY <2>2 DEF Listed, IInv, LoopIsPresent
    <3> QED
      BY <1>7, <2>2, <3>1
  <2>3. CASE ctl' = "dead"
    BY <2>3 DEF ListedAreRegistered, Listed
  <2> QED
    BY <1>9, <2>1, <2>2, <2>3 DEF Destroy
<1>10. CASE \E ssrc \in Ssrcs, volume \in Volumes : UpdateVolume(ssrc, volume)
  BY <1>10 DEF UpdateVolume, ListedAreRegistered, Listed, Registered, Present, ctlVars
<1> QED
  BY <1>1, <1>2, <1>3, <1>4, <1>5, <1>6, <1>8, <1>9, <1>10 DEF ClientStep

\* AudioMixer removes from WebRTC's mixer only sources that are in it, however
\* often a client adds the same ssrc.
THEOREM RemovalsAreOfAdded == Spec => []RemovalIsOfAdded
<1>1. Init => ListedAreRegistered
  BY DEF Init, ListedAreRegistered, Listed
<1>2. IInv /\ ListedAreRegistered /\ [Next]_vars => ListedAreRegistered'
  <2> SUFFICES ASSUME IInv, ListedAreRegistered, [Next]_vars
               PROVE  ListedAreRegistered'
    OBVIOUS
  <2>1. CASE UNCHANGED <<sources_, audio_source_list_, ctlVars>>
    BY <2>1 DEF ListedAreRegistered, Listed, Registered, Present, ctlVars
  <2>2. \/ ClientStep
        \/ \E ssrc \in Ssrcs, n \in 0..MaxSupply : AddRecordedData(ssrc, n)
        \/ MixStep \/ UNCHANGED vars
    BY DEF Next
  <2>3. ~ClientStep => UNCHANGED <<sources_, audio_source_list_, ctlVars>>
    BY <2>2 DEF AddRecordedData, MixStep, MixFrequency, MixLock, MixPull, MixCombine, vars
  <2> QED
    BY <2>1, <2>3, ClientListed
<1>3. IInv /\ ListedAreRegistered => RemovalIsOfAdded
  BY DEF RemovalIsOfAdded, ListedAreRegistered, Listed, Owned, Present
<1> QED
  BY <1>1, <1>2, <1>3, OwnershipInvariant, PTL DEF Spec
=============================================================================
