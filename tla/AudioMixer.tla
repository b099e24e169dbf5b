----------------------------- MODULE AudioMixer -----------------------------
(***************************************************************************)
(* AudioMixer: the map sources_ owns the sources, WebRTC's AudioMixerImpl  *)
(* holds raw pointers to them in audio_source_list_, guarded by crit_.     *)
(*                                                                         *)
(* Two threads: the client's thread (constructor, AddSource, RemoveSource, *)
(* UpdateVolume, destructor) and the audio thread (Mix, AddRecordedData).  *)
(* AudioMixer has no lock of its own, so a step of this model is what runs *)
(* between two points where the other thread can be seen.  The client      *)
(* keeps AddRecordedData out of its other calls on sources_, and destroys  *)
(* the mixer when no Mix is running.                                       *)
(***************************************************************************)
EXTENDS FrameSizes, Sequences, FiniteSets, Functions

CONSTANTS
  Ssrcs,             \* source ids the client uses
  Addresses,         \* where a source can be allocated
  Null,              \* no source; freed memory
  OutputSampleRate,  \* output_sample_rate_
  Volumes,
  Durations,         \* frame_duration_ms the client may ask for
  MaxMixed,          \* kMaximumAmountOfMixedAudioSources
  MaxSupply,         \* bound: whole frames a source holds
  MaxConfig,         \* bound: sources in a MixerConfig
  MaxRegistered      \* bound: pointers WebRTC holds

ASSUME MixerConstants ==
  /\ Ssrcs \subseteq Int /\ Null \notin Addresses
  /\ OutputSampleRate \in Nat /\ Durations \subseteq Nat \ {0}
  /\ MaxMixed \in Nat /\ MaxSupply \in Nat /\ MaxConfig \in Nat
  /\ MaxRegistered \in Nat

VARIABLES
  sources_,           \* ssrc -> address of the source it owns
  heap,               \* address -> the source object living there
  audio_source_list_, \* WebRTC's pointers
  ctl,                \* where the client's thread is
  todo, iter, ptr,    \* its locals: sources to construct, loop set, shared_ptr
  mix,                \* where the audio thread is; it holds crit_ in "pull"
  output_frequency_, at, frames,  \* Mix's rate, loop index and kNormal frames
  answer,             \* the last AudioFrameInfo
  mixed_frame_,       \* what the last Mix delivered
  fault,              \* undefined behaviour the program ran into
  breach              \* history: obligations the client broke

ctlVars == <<ctl, todo, iter, ptr>>
mixVars == <<mix, output_frequency_, at, frames, answer, mixed_frame_>>
vars == <<sources_, heap, audio_source_list_, ctlVars, mixVars, fault, breach>>

Types == {"record", "file"}

\* A MixerSource; ok says whether the RTC_CHECKs of its construction hold (a
\* record source of the output format, a file that can be opened and decoded).
MixerSource == [type : Types, ssrc : Ssrcs, volume : Volumes, ok : BOOLEAN]

\* A source object; supply is the number of whole frames it can deliver.
Object == [type : Types, ssrc : Ssrcs, volume : Volumes, supply : 0..MaxSupply]

ASSUME NullIsNoObject == Null \notin Object

NewObject(source) ==
  [type |-> source.type, ssrc |-> source.ssrc, volume |-> source.volume,
   supply |-> IF source.type = "file" THEN MaxSupply ELSE 0]

Owned == {sources_[s] : s \in Ssrcs} \ {Null}
Present == {s \in Ssrcs : sources_[s] # Null}
Live == {a \in Addresses : heap[a] # Null}
Registered == Range(audio_source_list_)

CritHeld == mix = "pull"

Init ==
  /\ sources_ = [s \in Ssrcs |-> Null]
  /\ heap = [a \in Addresses |-> Null]
  /\ audio_source_list_ = << >>
  /\ ctl = "unborn" /\ todo = << >> /\ iter = {} /\ ptr = Null
  /\ mix = "idle" /\ output_frequency_ = 0 /\ at = 0 /\ frames = {}
  /\ answer = "none" /\ mixed_frame_ = {}
  /\ fault = "none" /\ breach = {}

------------------------------------------------------------------------------
(* The client's thread *)

\* Start of the constructor; no other thread knows the object until "idle".
Create(config, frame_duration_ms) ==
  /\ ctl = "unborn"
  /\ ctl' = IF frame_duration_ms <= kFrameDurationInMs THEN "construct" ELSE "aborted"
  /\ todo' = config
  /\ UNCHANGED <<sources_, heap, audio_source_list_, iter, ptr, mixVars, fault, breach>>

\* DoAddSource: insert and emplace leave an existing entry alone, the new
\* object is then owned by the returned shared_ptr only.
DoAddSource(source, a) ==
  /\ heap[a] = Null
  /\ heap' = [heap EXCEPT ![a] = NewObject(source)]
  /\ sources_' = IF sources_[source.ssrc] = Null
                 THEN [sources_ EXCEPT ![source.ssrc] = a] ELSE sources_

\* The constructor's first loop drops what DoAddSource returns, so an object
\* whose ssrc is taken dies at once.
ConstructSource ==
  /\ ctl = "construct" /\ todo # << >>
  /\ \/ /\ ~Head(todo).ok
        /\ ctl' = "aborted"
        /\ UNCHANGED <<sources_, heap, todo>>
     \/ /\ Head(todo).ok
        /\ \/ \E a \in Addresses : sources_[Head(todo).ssrc] = Null /\ DoAddSource(Head(todo), a)
           \/ sources_[Head(todo).ssrc] # Null /\ UNCHANGED <<sources_, heap>>
        /\ todo' = Tail(todo)
        /\ UNCHANGED ctl
  /\ UNCHANGED <<audio_source_list_, iter, ptr, mixVars, fault, breach>>

\* A std::map is iterated in ascending order of its keys.
IsLeast(s, S) == \A t \in S : s <= t
Least(S) == CHOOSE s \in S : IsLeast(s, S)

\* Its second loop registers what sources_ holds, in the order of the map.
ConstructRegister ==
  /\ UNCHANGED <<sources_, heap, todo, ptr, mixVars, fault, breach>>
  /\ \/ /\ ctl = "construct" /\ todo = << >>
        /\ ctl' = "register" /\ iter' = Present
        /\ UNCHANGED audio_source_list_
     \/ /\ ctl = "register" /\ iter # {}
        /\ \E s \in iter :
             /\ IsLeast(s, iter)
             /\ audio_source_list_' = Append(audio_source_list_, sources_[s])
             /\ iter' = iter \ {s}
        /\ UNCHANGED ctl
     \/ /\ ctl = "register" /\ iter = {}
        /\ ctl' = "idle"
        /\ UNCHANGED <<audio_source_list_, iter>>

\* Mutant: DoAddSource returns the map's answer, no pointer for an ssrc that is
\* taken, and AddSource does not look at it.
AddSourceNoPointer(source) ==
  /\ ctl = "idle" /\ Len(audio_source_list_) < MaxRegistered
  /\ \/ /\ ~source.ok
        /\ ctl' = "aborted"
        /\ UNCHANGED <<sources_, heap, ptr, breach>>
     \/ /\ source.ok
        /\ \/ \E a \in Addresses : sources_[source.ssrc] = Null /\ DoAddSource(source, a) /\ ptr' = a
           \/ sources_[source.ssrc] # Null /\ ptr' = Null /\ UNCHANGED <<sources_, heap>>
        /\ ctl' = "add"
        /\ breach' = IF sources_[source.ssrc] = Null THEN breach
                     ELSE breach \cup {"ssrc added twice"}
  /\ UNCHANGED <<audio_source_list_, todo, iter, mixVars, fault>>

\* AddSource up to the call of mixer_->AddSource.
AddSource(source) ==
  /\ ctl = "idle" /\ Len(audio_source_list_) < MaxRegistered
  /\ \/ /\ ~source.ok
        /\ ctl' = "aborted"
        /\ UNCHANGED <<sources_, heap, ptr, breach>>
     \/ /\ source.ok
        /\ \E a \in Addresses : DoAddSource(source, a) /\ ptr' = a
        /\ ctl' = "add"
        /\ breach' = IF sources_[source.ssrc] = Null THEN breach
                     ELSE breach \cup {"ssrc added twice"}
  /\ UNCHANGED <<audio_source_list_, todo, iter, mixVars, fault>>

\* Mutant: the call of mixer_->AddSource is missing.
AddSourceUnregistered ==
  /\ ctl = "add"
  /\ ctl' = "added"
  /\ UNCHANGED <<sources_, heap, audio_source_list_, todo, iter, ptr, mixVars, fault, breach>>

\* mixer_->AddSource, under crit_.
AddSourceRegister ==
  /\ ctl = "add" /\ ~CritHeld
  /\ audio_source_list_' = Append(audio_source_list_, ptr)
  /\ ctl' = "added"
  /\ UNCHANGED <<sources_, heap, todo, iter, ptr, mixVars, fault, breach>>

\* Mutant: the returned shared_ptr is leaked.
AddSourceReturnLeak ==
  /\ ctl = "added"
  /\ ctl' = "idle" /\ ptr' = Null
  /\ UNCHANGED <<sources_, heap, audio_source_list_, todo, iter, mixVars, fault, breach>>

\* AddSource returns: its shared_ptr goes, and the object with it if the map
\* does not own it.
AddSourceReturn ==
  /\ ctl = "added"
  /\ heap' = IF ptr \in Owned THEN heap ELSE [heap EXCEPT ![ptr] = Null]
  /\ ctl' = "idle" /\ ptr' = Null
  /\ UNCHANGED <<sources_, audio_source_list_, todo, iter, mixVars, fault, breach>>

RemoveAt(list, i) == SubSeq(list, 1, i - 1) \o SubSeq(list, i + 1, Len(list))

\* mixer_->RemoveSource: erases the first status with this pointer, which must
\* be registered (RemovalIsOfAdded).
Unregister(a) ==
  \E i \in DOMAIN audio_source_list_ :
    /\ audio_source_list_[i] = a
    /\ \A j \in 1..(i - 1) : audio_source_list_[j] # a
    /\ audio_source_list_' = RemoveAt(audio_source_list_, i)

\* sources_.erase: the map held the last shared_ptr.
Erase(S) ==
  /\ heap' = [a \in Addresses |-> IF \E s \in S : sources_[s] = a THEN Null ELSE heap[a]]
  /\ sources_' = [s \in Ssrcs |-> IF s \in S THEN Null ELSE sources_[s]]

\* Mutant: erases the source before it unregisters it.
RemoveSourceErasedFirst(ssrc) ==
  /\ UNCHANGED <<todo, mixVars, fault, breach>>
  /\ \/ /\ ctl = "idle" /\ sources_[ssrc] # Null
        /\ Erase({ssrc})
        /\ ctl' = "remove" /\ iter' = {ssrc} /\ ptr' = sources_[ssrc]
        /\ UNCHANGED audio_source_list_
     \/ /\ ctl = "remove" /\ ssrc \in iter /\ ~CritHeld
        /\ Unregister(ptr)
        /\ ctl' = "idle" /\ iter' = {} /\ ptr' = Null
        /\ UNCHANGED <<sources_, heap>>

\* Mutant: WebRTC's list is changed without crit_.
RemoveSourceUnlocked(ssrc) ==
  /\ UNCHANGED <<todo, ptr, mixVars, fault, breach>>
  /\ \/ /\ ctl = "idle" /\ sources_[ssrc] # Null
        /\ Unregister(sources_[ssrc])
        /\ ctl' = "remove" /\ iter' = {ssrc}
        /\ UNCHANGED <<sources_, heap>>
     \/ /\ ctl = "remove" /\ ssrc \in iter
        /\ Erase(iter)
        /\ ctl' = "idle" /\ iter' = {}
        /\ UNCHANGED audio_source_list_

\* Mutant: the entry stays in the map.
RemoveSourceKept(ssrc) ==
  /\ ctl = "idle" /\ sources_[ssrc] # Null /\ ~CritHeld
  /\ Unregister(sources_[ssrc])
  /\ UNCHANGED <<sources_, heap, ctlVars, mixVars, fault, breach>>

\* RemoveSource of a present ssrc: unregister under crit_, then erase.  For an
\* absent one it returns false and changes nothing.
RemoveSource(ssrc) ==
  /\ UNCHANGED <<todo, ptr, mixVars, fault, breach>>
  /\ \/ /\ ctl = "idle" /\ sources_[ssrc] # Null /\ ~CritHeld
        /\ Unregister(sources_[ssrc])
        /\ ctl' = "remove" /\ iter' = {ssrc}
        /\ UNCHANGED <<sources_, heap>>
     \/ /\ ctl = "remove" /\ ssrc \in iter
        /\ Erase(iter)
        /\ ctl' = "idle" /\ iter' = {}
        /\ UNCHANGED audio_source_list_

\* One float is stored; a pull sees the volume before or after it.
UpdateVolume(ssrc, volume) ==
  /\ ctl = "idle" /\ sources_[ssrc] # Null
  /\ heap' = [heap EXCEPT ![sources_[ssrc]].volume = volume]
  /\ UNCHANGED <<sources_, audio_source_list_, ctlVars, mixVars, fault, breach>>

\* ~AudioMixer: unregister in the order of the map, then clear it.
Destroy ==
  /\ UNCHANGED <<todo, ptr, mixVars, fault, breach>>
  /\ \/ /\ ctl = "idle" /\ mix = "idle"
        /\ ctl' = "destroy" /\ iter' = Present
        /\ UNCHANGED <<sources_, heap, audio_source_list_>>
     \/ /\ ctl = "destroy" /\ iter # {}
        /\ \E s \in iter :
             /\ IsLeast(s, iter)
             /\ Unregister(sources_[s])
             /\ iter' = iter \ {s}
        /\ UNCHANGED <<sources_, heap, ctl>>
     \/ /\ ctl = "destroy" /\ iter = {}
        /\ Erase(Ssrcs)
        /\ ctl' = "dead"
        /\ UNCHANGED <<audio_source_list_, iter>>

------------------------------------------------------------------------------
(* The audio thread *)

Alive == ctl \in {"idle", "add", "added", "remove"}

\* AddRecordedData completes n frames of a record source.  The cast is not
\* checked: a file source is written to as if it were a record source.
AddRecordedData(ssrc, n) ==
  /\ ctl = "idle" /\ mix = "idle" /\ sources_[ssrc] # Null
  /\ LET a == sources_[ssrc]
     IN  \/ /\ heap[a].type = "record" /\ heap[a].supply + n <= MaxSupply
            /\ heap' = [heap EXCEPT ![a].supply = @ + n]
            /\ UNCHANGED <<fault, breach>>
         \/ /\ heap[a].type # "record"
            /\ fault' = "wrong cast" /\ breach' = breach \cup {"recorded to a file"}
            /\ UNCHANGED heap
  /\ UNCHANGED <<sources_, audio_source_list_, ctlVars, mixVars>>

\* The least AudioProcessing::NativeRate that reaches rate, or the highest.
NativeRateFor(rate) ==
  LET enough == {r \in {8000, 16000, 32000, 48000} : r >= rate}
  IN  IF enough = {} THEN 48000 ELSE Least(enough)

\* DefaultOutputRateCalculator: all sources prefer the output rate; without a
\* source the rate is 48000.
OutputFrequency(rate) ==
  IF audio_source_list_ = << >> THEN 48000 ELSE NativeRateFor(rate)

\* CalculateOutputFrequency asks every registered source for its preferred
\* rate, in a critical section of its own.
MixFrequency ==
  /\ Alive /\ mix = "idle"
  /\ \/ /\ Registered \subseteq Live
        /\ output_frequency_' = OutputFrequency(OutputSampleRate)
        /\ mix' = "mix"
        /\ UNCHANGED fault
     \/ /\ ~(Registered \subseteq Live)
        /\ fault' = "freed source"
        /\ UNCHANGED <<mix, output_frequency_>>
  /\ UNCHANGED <<sources_, heap, audio_source_list_, ctlVars, at, frames, answer, mixed_frame_, breach>>

\* Mix takes crit_ for the rest.
MixLock ==
  /\ mix = "mix"
  /\ mix' = "pull" /\ at' = 1 /\ frames' = {}
  /\ UNCHANGED <<sources_, heap, audio_source_list_, ctlVars, output_frequency_, answer,
                 mixed_frame_, fault, breach>>

\* Mutant: delivers a frame only when there is more than one.
AudioFrameInfoLate(o) ==
  IF output_frequency_ # OutputSampleRate THEN "kError"
  ELSE IF o.supply > 1 THEN "kNormal"
  ELSE IF o.type = "record" THEN "kMuted" ELSE "kError"

\* GetAudioFrameWithInfo of both kinds of source: another rate is an error, an
\* empty recording is muted, a file at its end is an error.
AudioFrameInfo(o) ==
  IF output_frequency_ # OutputSampleRate THEN "kError"
  ELSE IF o.supply > 0 THEN "kNormal"
  ELSE IF o.type = "record" THEN "kMuted" ELSE "kError"

\* One round of GetAudioFromSources; a kNormal frame carries the gain that
\* ApplyVolume used.
MixPull ==
  /\ mix = "pull" /\ at <= Len(audio_source_list_)
  /\ LET a == audio_source_list_[at]
         o == heap[a]
     IN  \/ /\ o = Null
            /\ fault' = "freed source"
            /\ UNCHANGED <<heap, at, frames, answer>>
         \/ /\ o # Null
            /\ answer' = AudioFrameInfo(o)
            /\ \/ /\ answer' = "kNormal"
                  /\ heap' = [heap EXCEPT ![a].supply = @ - 1]
                  /\ frames' = frames \cup {[at |-> at, ssrc |-> o.ssrc, volume |-> o.volume]}
               \/ answer' # "kNormal" /\ UNCHANGED <<heap, frames>>
            /\ at' = at + 1
            /\ UNCHANGED fault
  /\ UNCHANGED <<sources_, audio_source_list_, ctlVars, mix, output_frequency_, mixed_frame_, breach>>

\* The loudest frames are combined, crit_ is released, AudioMixer::Mix copies
\* the result.  Which frames are loudest is left open.
MixCombine ==
  /\ mix = "pull" /\ at > Len(audio_source_list_)
  /\ \E loudest \in SUBSET frames :
       /\ Cardinality(loudest) = Least({MaxMixed, Cardinality(frames)})
       /\ mixed_frame_' = loudest
  /\ mix' = "idle" /\ at' = 0 /\ frames' = {} /\ answer' = "none"
  /\ UNCHANGED <<sources_, heap, audio_source_list_, ctlVars, output_frequency_, fault, breach>>

------------------------------------------------------------------------------
Configs == UNION {[1..n -> MixerSource] : n \in 0..MaxConfig}

ClientStep ==
  \/ \E config \in Configs, ms \in Durations : Create(config, ms)
  \/ ConstructSource \/ ConstructRegister
  \/ \E source \in MixerSource : AddSource(source)
  \/ AddSourceRegister \/ AddSourceReturn
  \/ \E ssrc \in Ssrcs : RemoveSource(ssrc)
  \/ \E ssrc \in Ssrcs, volume \in Volumes : UpdateVolume(ssrc, volume)
  \/ Destroy

MixStep == MixFrequency \/ MixLock \/ MixPull \/ MixCombine

\* Destroyed, aborted by an RTC_CHECK, or out of what C++ defines.
Over == ctl \in {"dead", "aborted"} \/ fault # "none"

Next ==
  \/ ~Over /\ ClientStep
  \/ ~Over /\ \E ssrc \in Ssrcs, n \in 0..MaxSupply : AddRecordedData(ssrc, n)
  \/ ~Over /\ MixStep
  \/ Over /\ UNCHANGED vars

Spec == Init /\ [][Next]_vars

\* The same system under a client that breaks no obligation.
ContractSpec == Init /\ [][Next /\ breach' = {}]_vars

\* A thread that is inside a call goes on, and the audio thread calls Mix again
\* and again (an audio device callback, or the loop of MainActivity).
FairSpec ==
  /\ ContractSpec
  /\ WF_vars(~Over /\ MixStep)
  /\ WF_vars(~Over /\ ctl # "idle" /\ ClientStep /\ breach' = {})

------------------------------------------------------------------------------
CtlStates == {"unborn", "construct", "register", "idle", "add", "added", "remove",
              "destroy", "dead", "aborted"}
Frame == [at : Nat, ssrc : Ssrcs, volume : Volumes]

MapTypeOK ==
  /\ sources_ \in [Ssrcs -> Addresses \cup {Null}]
  /\ heap \in [Addresses -> Object \cup {Null}]
  /\ audio_source_list_ \in Seq(Addresses)
ClientTypeOK ==
  /\ ctl \in CtlStates /\ todo \in Seq(MixerSource) /\ iter \in SUBSET Ssrcs
  /\ ptr \in Addresses \cup {Null}
  /\ breach \in SUBSET {"ssrc added twice", "recorded to a file"}
MixTypeOK ==
  /\ mix \in {"idle", "mix", "pull"} /\ output_frequency_ \in Nat
  /\ at \in Nat /\ (mix = "pull" => at # 0)
  /\ answer \in {"none", "kNormal", "kMuted", "kError"}
  /\ frames \in SUBSET Frame /\ mixed_frame_ \in SUBSET Frame
  /\ fault \in {"none", "freed source", "wrong cast"}

\* Every variable has its type.
TypeOK == MapTypeOK /\ ClientTypeOK /\ MixTypeOK

\* As long as the client adds no ssrc that is present and records only to
\* record sources, no interleaving of Mix with AddSource, RemoveSource and the
\* destructor makes WebRTC call a source that has been freed.
FaultNeedsBreach == fault # "none" => breach # {}

\* Between calls of such a client WebRTC holds exactly one pointer for each
\* source that sources_ owns, each living under its own ssrc.
RegisteredAreOwned ==
  ctl = "idle" /\ breach = {} =>
    /\ Registered = Owned /\ IsInjective(audio_source_list_)
    /\ \A s \in Present : heap[sources_[s]] # Null /\ heap[sources_[s]].ssrc = s

\* Whatever the client does, between calls exactly the sources the map owns are
\* alive: neither a refused duplicate nor the destructor leaks a source.
NothingLeaks ==
  /\ ctl = "idle" => Live = Owned
  /\ ctl = "dead" => Live = {} /\ (breach = {} => audio_source_list_ = << >>)

\* Whatever the client does, RemoveSource and the destructor ask WebRTC to remove
\* only pointers it holds: "Removal is never attempted if a source has not been
\* successfully added to the mixer" (api/audio/audio_mixer.h).
RemovalIsOfAdded ==
  /\ ctl = "idle" => Owned \subseteq Registered
  /\ ctl = "destroy" => \A s \in iter : sources_[s] \in Registered

\* The contract of AudioMixer::AddSource of WebRTC (api/audio/audio_mixer.h):
\* "A source is never added twice", stated for every client of AudioMixer.
NeverAddedTwice == IsInjective(audio_source_list_)

\* A source asked for its preferred rate or a higher one, and holding audio,
\* is not refused with kError (PreferredSampleRate: "called with this sample
\* rate or higher will not cause quality loss").
PreferredRateServed ==
  mix = "pull" /\ at > 1 /\ answer = "kError" /\ output_frequency_ >= OutputSampleRate =>
    heap[audio_source_list_[at - 1]].supply = 0

Waiting(a) ==
  /\ ~Over /\ a \in Registered /\ heap[a] # Null
  /\ heap[a].supply > 0
Pulled(a) ==
  /\ mix = "pull" /\ answer = "kNormal"
  /\ at - 1 \in DOMAIN audio_source_list_ /\ audio_source_list_[at - 1] = a

\* Of a client that keeps its obligations, a registered source that holds audio
\* is pulled eventually, unless it is removed: a Mix that runs at a stale rate,
\* computed when no source was registered, costs a source that Mix but never
\* silences it for good.
EventuallyPulled == \A a \in Addresses : Waiting(a) ~> (Pulled(a) \/ ~Waiting(a))

\* AudioMixer implements MixerService: although Mix takes many steps, in which
\* the client's thread goes on, it delivers only sources that are registered
\* when it ends, because it holds crit_ from the first pull on.
Service == INSTANCE MixerService WITH
  participants <- {heap[a].ssrc : a \in Registered \cap Live},
  output <- {f.ssrc : f \in mixed_frame_}
ImplementsService == Service!Spec
=============================================================================
