------------------------- MODULE MixerServiceProofs -------------------------
(* AudioMixer implements MixerService, from the inductive invariant of      *)
(* AudioMixerProofs.                                                        *)
EXTENDS AudioMixerProofs, FiniteSetTheorems

Participants == {heap[a].ssrc : a \in Registered \cap Live}

\* For a client that keeps its obligations the participants are the listed entries.
LEMMA ParticipantsAreListed ==
  IInv /\ breach = {} /\ ctl # "aborted" => Participants = Listed /\ Listed \subseteq Present
<1> SUFFICES ASSUME IInv, breach = {}, ctl # "aborted"
             PROVE  Participants = Listed /\ Listed \subseteq Present
  OBVIOUS
<1>1. Listed \subseteq Present
  BY DEF IInv, LoopIsPresent, Listed
<1>2. Registered = {sources_[s] : s \in Listed}
  BY DEF IInv, PointersAreListed
<1>3. \A s \in Listed : sources_[s] \in Live /\ heap[sources_[s]].ssrc = s
  BY <1>1 DEF IInv, OwnedAreLive, Present, Live, TypeOK, MapTypeOK
<1> QED
  BY <1>1, <1>2, <1>3 DEF Participants

\* And so they are after a step.
LEMMA ParticipantsNext ==
  IInv' /\ breach' = {} /\ ctl' # "aborted" => Participants' = Listed'
<1>1. (IInv /\ breach = {} /\ ctl # "aborted" => Participants = Listed /\ Listed \subseteq Present)'
  BY ParticipantsAreListed, PTL
<1> QED
  BY <1>1

\* What a Mix that holds crit_ has collected so far: frames of participants.
Collected ==
  /\ mix # "idle" => Alive \/ ctl = "aborted"
  /\ IsFiniteSet(frames)
  /\ mix = "pull" /\ ctl # "aborted" => \A f \in frames : f.ssrc \in Listed

\* How a step of the client's thread changes the list: crit_ is free when it does.
LEMMA ClientChanges ==
  ASSUME IInv, breach = {}, IInv', breach' = {}, ~Over, ClientStep, Collected
  PROVE  /\ UNCHANGED <<mix, frames, mixed_frame_>>
         /\ mix # "idle" => Alive' \/ ctl' = "aborted"
         /\ \/ Participants' = Participants
            \/ mix # "pull" /\ \E s \in Ssrcs : Participants' \in {Participants \cup {s}, Participants \ {s}}
<1>0. ctl \notin {"dead", "aborted"} /\ Participants = Listed /\ Listed \subseteq Present
  BY ParticipantsAreListed DEF Over
<1>1. ctl' # "aborted" => Participants' = Listed'
  BY ParticipantsNext
<1>2. UNCHANGED <<heap, audio_source_list_>> => Participants' = Participants
  BY DEF Participants, Registered, Live
<1>3. ASSUME NEW config \in Configs, NEW ms \in Durations, Create(config, ms)
      PROVE  /\ UNCHANGED <<mix, frames, mixed_frame_>> /\ mix = "idle"
             /\ Participants' = Participants
  BY <1>2, <1>3 DEF Create, Collected, Alive, mixVars
<1>4. CASE ConstructSource
  <2>1. UNCHANGED <<mix, frames, mixed_frame_>> /\ mix = "idle"
    BY <1>4 DEF ConstructSource, Collected, Alive, mixVars
  <2>2. UNCHANGED <<heap, audio_source_list_>> \/ (ctl = "construct" /\ ctl' = ctl)
    BY <1>4 DEF ConstructSource
  <2>3. ctl = "construct" /\ ctl' = ctl => Participants' = Participants
    BY <1>0, <1>1 DEF Listed
  <2> QED
    BY <1>2, <2>1, <2>2, <2>3
<1>5. CASE ConstructRegister
  <2>1. /\ UNCHANGED <<mix, frames, mixed_frame_>> /\ mix = "idle" /\ UNCHANGED <<heap, sources_>>
        /\ ctl \in {"construct", "register"} /\ ctl' # "aborted" /\ Present' = Present
    BY <1>5 DEF ConstructRegister, Collected, Alive, Present, mixVars
  <2>2. \/ UNCHANGED audio_source_list_
        \/ /\ ctl = "register" /\ UNCHANGED ctl
           /\ \E s \in iter : iter' = iter \ {s}
    BY <1>5 DEF ConstructRegister
  <2>3. ASSUME NEW s \in iter, ctl = "register", UNCHANGED ctl, iter' = iter \ {s}
        PROVE  Participants' = Participants \cup {s} /\ s \in Ssrcs
    <3>1. s \in Present
      BY <2>3 DEF IInv, LoopIsPresent
    <3> QED
      BY <1>0, <1>1, <2>1, <2>3, <3>1 DEF Listed, Present
  <2> QED
    BY <1>2, <2>1, <2>2, <2>3
<1>6. ASSUME NEW source \in MixerSource, AddSource(source)
      PROVE  /\ UNCHANGED <<mix, frames, mixed_frame_>> /\ Participants' = Participants
             /\ Alive' \/ ctl' = "aborted"
  <2>1. UNCHANGED <<mix, frames, mixed_frame_>> /\ ctl = "idle"
    BY <1>6 DEF AddSource, mixVars
  <2>2. CASE ctl' = "aborted"
    BY <1>2, <1>6, <2>1, <2>2 DEF AddSource
  <2>3. ASSUME NEW a \in Addresses, DoAddSource(source, a), ptr' = a, ctl' = "add",
               sources_[source.ssrc] = Null
        PROVE  Participants' = Participants /\ Alive'
    <3>1. /\ \A s \in Present : sources_'[s] = sources_[s]
          /\ Present' = Present \cup {source.ssrc} /\ sources_'[source.ssrc] = a
          /\ source.ssrc \notin Present /\ a \notin Owned
      BY <2>3, SourceAdded
    <3>2. \A s \in Present : sources_[s] # a
      BY <3>1 DEF Owned, Present
    <3>3. Listed = Present /\ Listed' = {s \in Present' : sources_'[s] # a}
      BY <2>1, <2>3 DEF Listed
    <3>4. Listed' = Present
      BY <3>1, <3>2, <3>3
    <3> QED
      BY <1>0, <1>1, <2>3, <3>3, <3>4 DEF Alive
  <2>4. ctl' = "aborted" \/ (ctl' = "add" /\ sources_[source.ssrc] = Null
                             /\ \E a \in Addresses : DoAddSource(source, a) /\ ptr' = a)
    BY <1>6 DEF AddSource
  <2> QED
    BY <2>1, <2>2, <2>3, <2>4
<1>7. CASE AddSourceRegister
  <2>1. /\ ctl = "add" /\ ctl' = "added" /\ UNCHANGED <<sources_, ptr, mix, frames, mixed_frame_>> /\ mix # "pull"
    BY <1>7 DEF AddSourceRegister, CritHeld, mixVars
  <2>2. PICK s \in Ssrcs : sources_[s] = ptr /\ s \in Present
    BY <2>1 DEF IInv, PointerIsLive, Owned, Present
  <2>3. \A t \in Present : sources_[t] = ptr => t = s
    BY <2>2, OwnersDiffer DEF IInv
  <2>4. Listed = {t \in Present : sources_[t] # ptr} /\ Listed' = Present
    BY <2>1 DEF Listed, Present
  <2>5. Listed' = Listed \cup {s}
    BY <2>2, <2>3, <2>4
  <2> QED
    BY <1>0, <1>1, <2>1, <2>5 DEF Alive
<1>8. CASE AddSourceReturn
  <2>1. ctl = "added" /\ ctl' = "idle" /\ UNCHANGED <<sources_, mix, frames, mixed_frame_>>
    BY <1>8 DEF AddSourceReturn, mixVars
  <2> QED
    BY <1>0, <1>1, <2>1 DEF Listed, Present, Alive
<1>9. ASSUME NEW ssrc \in Ssrcs, RemoveSource(ssrc)
      PROVE  /\ UNCHANGED <<mix, frames, mixed_frame_>> /\ Alive'
             /\ \/ Participants' = Participants
                \/ mix # "pull" /\ Participants' = Participants \ {ssrc}
  <2>1. UNCHANGED <<mix, frames, mixed_frame_>> /\ ctl' \in {"remove", "idle"}
    BY <1>9 DEF RemoveSource, mixVars
  <2>2. CASE ctl = "idle" /\ ~CritHeld /\ ctl' = "remove" /\ iter' = {ssrc} /\ UNCHANGED sources_
    BY <1>0, <1>1, <2>1, <2>2 DEF Listed, Present, CritHeld, Alive
  <2>3. CASE ctl = "remove" /\ Erase(iter) /\ ctl' = "idle"
    <3>1. Present' = Present \ iter
      BY <2>3, EntriesErased DEF IInv, TypeOK, ClientTypeOK
    <3> QED
      BY <1>0, <1>1, <2>1, <2>3, <3>1 DEF Listed, Alive
  <2> QED
    BY <1>9, <2>2, <2>3 DEF RemoveSource
<1>10. ASSUME NEW ssrc \in Ssrcs, NEW volume \in Volumes, UpdateVolume(ssrc, volume)
       PROVE  UNCHANGED <<mix, frames, mixed_frame_>> /\ Participants' = Participants /\ Alive'
  <2>1. UNCHANGED <<sources_, ctl, iter, ptr, mix, frames, mixed_frame_>> /\ ctl = "idle"
    BY <1>10 DEF UpdateVolume, ctlVars, mixVars
  <2> QED
    BY <1>0, <1>1, <2>1 DEF Listed, Present, Alive
<1>11. CASE Destroy
  <2>1. /\ UNCHANGED <<mix, frames, mixed_frame_>> /\ mix = "idle" /\ ctl \in {"idle", "destroy"}
        /\ ctl' \in {"destroy", "dead"}
    BY <1>11 DEF Destroy, Collected, Alive, mixVars
  <2>2. \/ UNCHANGED <<heap, audio_source_list_>>
        \/ ctl = "destroy" /\ UNCHANGED <<sources_, ctl>> /\ \E s \in iter : iter' = iter \ {s}
        \/ ctl = "destroy" /\ ctl' = "dead" /\ iter = {}
    BY <1>11 DEF Destroy
  <2>3. iter \subseteq Ssrcs
    BY DEF IInv, TypeOK, ClientTypeOK
  <2>4. ASSUME NEW s \in iter, ctl = "destroy", UNCHANGED ctl, iter' = iter \ {s}
        PROVE  Participants' = Participants \ {s}
    BY <1>0, <1>1, <2>4 DEF Listed
  <2>5. ctl = "destroy" /\ ctl' = "dead" /\ iter = {} => Participants' = Participants
    BY <1>0, <1>1 DEF Listed
  <2> QED
    BY <1>2, <2>1, <2>2, <2>3, <2>4, <2>5
<1> QED
  BY <1>3, <1>4, <1>5, <1>6, <1>7, <1>8, <1>9, <1>10, <1>11 DEF ClientStep

\* A step of the audio thread leaves the list alone; a frame it collects is of a
\* participant.
LEMMA MixCollects ==
  ASSUME IInv, breach = {}, ~Over, Collected, MixStep
  PROVE  /\ UNCHANGED <<sources_, audio_source_list_, ctl, iter, ptr>>
         /\ UNCHANGED mixed_frame_ \/ MixCombine
         /\ mix' # "idle" => Alive
         /\ IsFiniteSet(frames')
         /\ mix' = "pull" => \A f \in frames' : f.ssrc \in Listed
<1>1. ctl \notin {"dead", "aborted"} /\ Participants = Listed /\ (mix # "idle" => Alive)
  BY ParticipantsAreListed DEF Over, Collected
<1>2. IsFiniteSet(frames) /\ (mix = "pull" => \A f \in frames : f.ssrc \in Listed)
  BY <1>1 DEF Collected
<1>3. CASE MixFrequency
  <2>1. /\ UNCHANGED <<sources_, audio_source_list_, ctl, iter, ptr, frames, mixed_frame_>>
        /\ mix' \in {"idle", "mix"} /\ Alive
    BY <1>3 DEF MixFrequency, ctlVars
  <2> QED BY <1>2, <2>1
<1>4. CASE MixLock
  <2>1. /\ UNCHANGED <<sources_, audio_source_list_, ctl, iter, ptr, mixed_frame_>>
        /\ mix = "mix" /\ frames' = {}
    BY <1>4 DEF MixLock, ctlVars
  <2> QED BY <1>1, <2>1, FS_EmptySet
<1>5. CASE MixCombine
  <2>1. /\ UNCHANGED <<sources_, audio_source_list_, ctl, iter, ptr>>
        /\ mix' = "idle" /\ frames' = {}
    BY <1>5 DEF MixCombine, ctlVars
  <2> QED BY <1>5, <2>1, FS_EmptySet
<1>6. CASE MixPull
  <2> DEFINE o == heap[audio_source_list_[at]]
  <2>1. /\ UNCHANGED <<sources_, audio_source_list_, ctl, iter, ptr, mix, mixed_frame_>>
        /\ mix = "pull" /\ at <= Len(audio_source_list_)
    BY <1>6 DEF MixPull, ctlVars
  <2>2. \/ frames' = frames
        \/ frames' = frames \cup {[at |-> at, ssrc |-> o.ssrc, volume |-> o.volume]}
    BY <1>6 DEF MixPull
  <2>3. at \in 1..Len(audio_source_list_)
    <3>1. at \in Nat /\ at # 0 /\ Len(audio_source_list_) \in Nat
      BY <2>1, LenProperties DEF IInv, TypeOK, MixTypeOK, MapTypeOK
    <3> QED
      BY <2>1, <3>1
  <2>4. audio_source_list_[at] \in Registered
    BY <2>3, LenProperties DEF IInv, TypeOK, MapTypeOK, Registered, Range
  <2>5. o.ssrc \in Listed
    BY <1>1, <2>4, RegisteredAreLive DEF Participants
  <2>6. IsFiniteSet(frames')
    BY <1>2, <2>2, FS_AddElement
  <2>7. \A f \in frames' : f.ssrc \in Listed
    BY <1>2, <2>1, <2>2, <2>5
  <2> QED
    BY <1>1, <2>1, <2>6, <2>7
<1> QED
  BY <1>3, <1>4, <1>5, <1>6 DEF MixStep

\* What MixCombine delivers is at most MaxMixed of the collected frames.
LEMMA CombineDelivers ==
  ASSUME IInv, breach = {}, ~Over, Collected, MixCombine
  PROVE  LET delivered == {f.ssrc : f \in mixed_frame_'}
         IN  delivered \subseteq Participants /\ Cardinality(delivered) <= MaxMixed
<1> DEFINE delivered == {f.ssrc : f \in mixed_frame_'}
<1>1. /\ mixed_frame_' \subseteq frames /\ mix = "pull"
      /\ Cardinality(mixed_frame_') = Least({MaxMixed, Cardinality(frames)})
  BY DEF MixCombine
<1>2. /\ Participants = Listed /\ IsFiniteSet(frames)
      /\ \A f \in frames : f.ssrc \in Listed
  BY <1>1, ParticipantsAreListed DEF Collected, Over
<1>3. delivered \subseteq Participants
  BY <1>1, <1>2
<1>4. IsFiniteSet(mixed_frame_')
  BY <1>1, <1>2, FS_Subset
<1>5. /\ IsFiniteSet(delivered) /\ Cardinality(delivered) \in Nat
      /\ Cardinality(delivered) <= Cardinality(mixed_frame_')
  <2> DEFINE ssrcOf == [f \in mixed_frame_' |-> f.ssrc]
  <2>1. ssrcOf \in Surjection(mixed_frame_', delivered)
    BY DEF Surjection
  <2> HIDE DEF ssrcOf, delivered
  <2> QED
    BY <1>4, <2>1, FS_Surjection, FS_CardinalityType
<1>6. Cardinality(mixed_frame_') <= MaxMixed
  <2>1. Cardinality(frames) \in Nat /\ MaxMixed \in Nat /\ Cardinality(mixed_frame_') \in Nat
    BY <1>2, <1>4, FS_CardinalityType, MixerConstants
  <2> DEFINE card == Cardinality(frames)
  <2>2. \E n \in {MaxMixed, card} : IsLeast(n, {MaxMixed, card})
    <3>1. card \in Nat
      BY <2>1
    <3> HIDE DEF card
    <3> QED BY <2>1, <3>1 DEF IsLeast
  <2>3. IsLeast(Least({MaxMixed, card}), {MaxMixed, card})
    BY <2>2, Zenon DEF Least
  <2> QED
    BY <1>1, <2>1, <2>3 DEF IsLeast
<1> QED
  <2>1. Cardinality(delivered) <= MaxMixed
    <3>1. /\ Cardinality(mixed_frame_') \in Nat /\ MaxMixed \in Nat
      BY <1>4, FS_CardinalityType, MixerConstants
    <3> HIDE DEF delivered
    <3> QED BY <1>5, <1>6, <3>1
  <2> QED BY <1>3, <2>1

\* Every step of the mixer is one of the service or changes nothing it shows.
LEMMA ServiceStep ==
  ASSUME IInv, breach = {}, Collected, IInv', breach' = {}, [Next]_vars
  PROVE  /\ Collected'
         /\ [Service!Next]_<<Participants, {f.ssrc : f \in mixed_frame_}>>
<1>1. CASE UNCHANGED vars
  BY <1>1 DEF vars, ctlVars, mixVars, Collected, Participants, Registered, Live, Listed, Present, Alive
<1>2. CASE ~Over /\ ClientStep
  <2>1. /\ UNCHANGED <<mix, frames, mixed_frame_>>
        /\ mix # "idle" => Alive' \/ ctl' = "aborted"
        /\ \/ Participants' = Participants
           \/ mix # "pull" /\ \E s \in Ssrcs : Participants' \in {Participants \cup {s}, Participants \ {s}}
    BY <1>2, ClientChanges
  <2>2. ctl # "aborted" /\ Participants = Listed /\ (ctl' # "aborted" => Participants' = Listed')
    BY <1>2, ParticipantsAreListed, ParticipantsNext DEF Over
  <2>3. Collected'
    BY <2>1, <2>2 DEF Collected
  <2>4. [Service!Next]_<<Participants, {f.ssrc : f \in mixed_frame_}>>
    BY <2>1 DEF Service!Next, Service!Join, Service!Leave, Participants
  <2> QED
    BY <2>3, <2>4
<1>3. CASE ~Over /\ \E ssrc \in Ssrcs, n \in 0..MaxSupply : AddRecordedData(ssrc, n)
  <2>1. UNCHANGED <<sources_, ctl, iter, ptr, mix, frames, mixed_frame_>>
    BY <1>3 DEF AddRecordedData, ctlVars, mixVars
  <2>2. Listed' = Listed /\ Alive' = Alive
    BY <2>1 DEF Listed, Present, Alive
  <2>3. Participants' = Participants
    BY <1>3, <2>1, <2>2, ParticipantsAreListed, ParticipantsNext DEF Over
  <2> QED
    BY <2>1, <2>2, <2>3 DEF Collected
<1>4. CASE ~Over /\ MixStep
  <2>1. /\ UNCHANGED <<sources_, audio_source_list_, ctl, iter, ptr>>
        /\ UNCHANGED mixed_frame_ \/ MixCombine
        /\ mix' # "idle" => Alive
        /\ IsFiniteSet(frames')
        /\ mix' = "pull" => \A f \in frames' : f.ssrc \in Listed
    BY <1>4, MixCollects
  <2>2. Listed' = Listed /\ Alive' = Alive
    BY <2>1 DEF Listed, Present, Alive
  <2>3. Participants' = Participants
    BY <1>4, <2>1, <2>2, ParticipantsAreListed, ParticipantsNext DEF Over
  <2>4. Collected'
    BY <2>1, <2>2 DEF Collected
  <2>5. CASE MixCombine
    <3>1. /\ {f.ssrc : f \in mixed_frame_'} \subseteq Participants
          /\ Cardinality({f.ssrc : f \in mixed_frame_'}) <= MaxMixed
      BY <1>4, <2>5, CombineDelivers
    <3>2. Service!Mix
      <4>1. {f.ssrc : f \in mixed_frame_'} \in SUBSET {heap[a].ssrc : a \in Registered \cap Live}
        BY <3>1, Zenon DEF Participants
      <4>2. {heap[a].ssrc : a \in Registered \cap Live}' = {heap[a].ssrc : a \in Registered \cap Live}
        BY <2>3, Zenon DEF Participants
      <4> QED
        BY ONLY <3>1, <4>1, <4>2, Zenon DEF Service!Mix, Service!Cardinality, Cardinality
    <3> QED
      BY <2>4, <3>2 DEF Service!Next
  <2> QED
    BY <2>1, <2>3, <2>4, <2>5
<1> QED
  BY <1>1, <1>2, <1>3, <1>4 DEF Next

ServiceInv == IInv /\ breach = {} /\ Collected

\* For every number of sources and however Mix interleaves with the client's
\* calls, AudioMixer implements MixerService for a client that keeps its
\* obligations.
THEOREM MixerImplementsService == ContractSpec => ImplementsService
<1>1. Init => ServiceInv /\ Service!Init
  <2> SUFFICES ASSUME Init PROVE ServiceInv /\ Service!Init
    OBVIOUS
  <2>1. ServiceInv
    BY InitIInv, FS_EmptySet DEF Init, Collected, ServiceInv
  <2>2. Service!Init
    BY DEF Init, Service!Init, Registered, Range
  <2> QED BY <2>1, <2>2
<1>2. ServiceInv /\ [Next /\ breach' = {}]_vars
      => ServiceInv' /\ [Service!Next]_<<Participants, {f.ssrc : f \in mixed_frame_}>>
  <2> SUFFICES ASSUME ServiceInv, [Next /\ breach' = {}]_vars
               PROVE  /\ ServiceInv'
                      /\ [Service!Next]_<<Participants, {f.ssrc : f \in mixed_frame_}>>
    OBVIOUS
  <2>1. [Next]_vars /\ breach' = {}
    BY DEF vars, ServiceInv
  <2> QED
    BY <2>1, NextIInv, ServiceStep DEF ServiceInv
<1> QED
  BY <1>1, <1>2, PTL DEF ContractSpec, ImplementsService, Service!Spec, Participants
=============================================================================
