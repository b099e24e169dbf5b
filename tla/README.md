# A TLA+ model of AudioMixer

AudioMixer mixes recorded audio and decoded audio files. Its C++ core
(`src/src/`) wraps WebRTC's `AudioMixerImpl` and FFmpeg, and is used from Java
(JNI), Objective-C and two example applications. This directory holds TLA+
modules translated from that code, TLC configurations that check them, and
proofs that TLAPS checks.

## The system

| Part | State | Operations | Meets |
|---|---|---|---|
| `AudioMixer` | `sources_` (ssrc to `shared_ptr`), `mixed_frame_`, frame sizes | constructor, `AddSource`, `RemoveSource`, `UpdateVolume`, `Mix`, `AddRecordedData`, destructor | WebRTC's mixer, all sources |
| WebRTC `AudioMixerImpl` (prebuilt, headers only) | `audio_source_list_` of raw pointers, `crit_`, mixing rate | `AddSource`, `RemoveSource`, `Mix` | calls `GetAudioFrameWithInfo` and `PreferredSampleRate` of every source |
| `AudioRecordSource` | `buffer_`, an `rtc::BufferT<int16_t>` | `OnAudioRecorded`, `GetAudioFrameWithInfo` | the recorder's thread, WebRTC |
| `AudioFileSource` | decoder, resampler, input buffer | `GetAudioFrameWithInfo`, `Read` | decoder, resampler |
| `AudioFileDecoder` | demuxer, packet in hand, codec, fifo | `Consume`, `FillDecoder`, `FillFifo` | FFmpeg |
| `AudioResampler` | `SwrContext` | `Resample` | FFmpeg |
| `AudioSource` | `volume_` | `ApplyVolume`, `UpdateVolume` | two threads |
| Java and JNI wrappers | native handles, `destroyed` flag | create, calls, destroy, finalize | garbage collector |
| Objective-C wrappers | a `shared_ptr`, output buffer | forwarding | |
| iOS/macOS example | `_buffer`, `_remainingData`, test type | device callbacks, start, stop | device thread |
| Android example | `mRunning` | one worker thread per button | |

What is hard in it:

- `AudioMixer` owns the sources, WebRTC holds raw pointers to them, and the two
  are brought into agreement by several steps with a lock that covers only
  WebRTC's half, while the audio thread is inside `Mix`.
- `Mix` computes its rate in one critical section and pulls in another.
- An ssrc may be added twice; a cast in `AddRecordedData` is unchecked.
- Pushes and pulls of different sizes share one growing buffer; frames of
  10 ms are reported to WebRTC whatever `frame_duration_ms` is.
- Integer division in several orders decides how many elements move.
- The decoder's end of file, a codec that is not ready, and a short fifo are
  told apart only by a byte count.
- Handles can be used after destruction from Java; the example stops its audio
  device after it frees what the device's callback uses.

`PROJECT.json` lists these at their lines, with the properties that cover them.

## The modules

**`FrameSizes`** is the frame-size arithmetic: samples reported to WebRTC
(always 10 ms), samples of `frame_duration_ms`, elements of the record buffer.

**`AudioRecordSource`** is one record source. `data_` and `size_` are `buffer_`
with its whole allocation, so memory behind `size_` exists in the model, stale
or never written (`Junk`). Recorded elements are numbered, so what is delivered
can be compared with what was recorded. `OnAudioRecorded` is `AppendData` with
`BufferT`'s growth, `GetAudioFrameWithInfo` the two refusals and the copy,
`memmove` and `SetSize`. `recorded` and `heard` are history variables. Both
operations are called by one thread, as in both examples, so each is one action.
The gain of `ApplyVolume` is left out here: it does not move elements.

**`AudioMixer`** is the map, the heap of source objects, and WebRTC's list, with
two threads. The client's thread runs the constructor, `AddSource`,
`RemoveSource`, `UpdateVolume` and the destructor; `ctl` says where it is. The
audio thread runs `Mix` and `AddRecordedData`; `mix` says where it is, and it
holds `crit_` in `"pull"`. A call is split wherever the other thread can see a
difference:

| Code | Actions |
|---|---|
| constructor | `Create`, `ConstructSource` per config entry, `ConstructRegister` per map entry |
| `AddSource` | `AddSource` (up to `DoAddSource`'s return), `AddSourceRegister` (under `crit_`), `AddSourceReturn` (the `shared_ptr` goes) |
| `RemoveSource` | unregister under `crit_`, then erase |
| destructor | start, unregister per map entry, clear |
| `Mix` | `MixFrequency`, `MixLock`, `MixPull` per source, `MixCombine` |
| `UpdateVolume`, `AddRecordedData` | one action each |

A source's audio is a number of whole frames (`supply`); `AudioFrameInfo` is the
answer of both kinds of `GetAudioFrameWithInfo`. `RTC_CHECK` failures lead to
`ctl = "aborted"`: a record source of another format or a file that cannot be
decoded is a `MixerSource` with `ok = FALSE`. Calling a freed source, or writing
through the wrong cast, sets `fault` and ends the behaviour. `breach` is a
history variable with the client's broken obligations: an ssrc added while it is
present, and recording to a file source. Addresses are reused as soon as they
are free. Two more obligations are built into the guards: `AddRecordedData` is
not called concurrently with a call that uses `sources_`, and the destructor
not during a `Mix` (no lock in the code protects either). WebRTC's part follows
its headers and is marked external.

**`MixerService`** is what the mixer promises: participants join and leave, and
`Mix` delivers, at one instant, audio of at most `MaxMixed` participants.
`AudioMixer` implements it with the registered living sources as participants.

**`AudioFileDecoder`** is the decoder of one file, with one action per FFmpeg
call: `ReadFrame` and `SendPacket` are the loop of `FillDecoder` (run by the
constructor and by `Consume`), `FillFifo` one round of its loop, `ConsumeReturn`
the read from the fifo. The demuxer, the codec (which takes packets until
`CodecRoom` frames are ready and keeps `CodecDelay` back) and the fifo are
external. Samples are numbered; a corrupt packet has none, and makes either the
send fail, which aborts, or the receive, which ends `FillFifo`.

**`AudioResampler`** is the sample counts of `Resample`: the room it gives
`swr_convert` (the input's worth, rounded up), what comes out, and the size it
returns, which is that of a buffer aligned to 32 samples, and an error for no
sample at all. libswresample is external: it holds `Delay` samples back and turns
the others into output as the rates say. A call may fail.

**`AudioSource`** is `volume_`: `ApplyVolume` reads it up to three times on the
audio thread (`TestLow`, `TestHigh`, `Scale`), `UpdateVolume` stores it on the
client's. Volumes are in percent.

**`AudioFileSource`** composes these three: `GetAudioFrameWithInfo` is the rate
test and `Consume`; `Read` the end of `Consume`, the exact-size test and
`Resample`; the steps of `ApplyVolume` follow, and `UpdateVolume` may come between
any two of them.

**`FrameSupply`** is what a file source is in `AudioMixer`: a counter of whole
frames, which a pull lowers by one, also when the resampling fails (`Fail`), and a
refusal of foreign rates. `AudioFileSource` implements it, with the frames in the
fifo, the codec, the packet in hand and the file as the counter
(`ImplementsSupply`). `AudioMixer` leaves `Fail` out.

**`NativeHandle`** is the native mixer as Java sees it: the handle of `CppProxy`
with its `destroyed` flag, proxied calls (`updateVolume`, `addSource`,
`removeSource`: an assertion, then an instance method), static calls (`mix`,
`addRecordedData`: the bare address), `destroy`, `finalize` and the deletion. A
native method uses the handle until it returns. Threads may drop their reference,
in a call too if they do not need it afterwards; the garbage collector is
external.

**`MainActivity`** is the Android example: buttons, `onPause` and the workers,
which share `mRunning`. On every path out of its loop a worker uses its native
object as a `NativeHandle` (`ImplementsHandle`).

The iOS and macOS example is four modules over the members in **`TestMembers`**:

| Module | Code |
|---|---|
| `TestController` | starts of the five tests, `doStopTest` step by step, the device's thread and which members its callback uses |
| `PlayoutAdapter` | `deliverMixedData`, `deliverAnyDecodedData`, `deliverResampledData`: blocks cut to the device's requests |
| `RecordAdapter` | `deliverRecordAndMixedData`: the device's audio collected to blocks, on top of `AudioRecordSource` |
| `AudioMixerTest` | all of it together, over any sequence of tests |

In `AudioMixerTest` a start resets the members the code sets, and a callback is
the steps of its adapter; a step of `doStopTest` may fall between any two of them.
A callback that meets a released member may use it, which sets `fault` and ends
the behaviour, or be past its use. `deliverMonoDecodedData` has no state: its
callback begins and ends.

The blocks of `PlayoutAdapter` are whole where the code makes them so. `mix`
returns a frame of its configured duration. `doDecodeAny` opens a 48 kHz file and
plays at 48 kHz, so libswresample holds nothing back, and the 480 samples of a block
are a multiple of the 32 that `Resample` counts in: `Read` returns whole blocks up
to the end of the file (`Results`). `doResample` converts 44100 to 16000 Hz, where
the first block is short by libswresample's delay, and `deliverResampledData` looks
at the results of neither `read` nor `Resample`
(`AudioMixerTestController.mm:212-222`): whatever a call wrote, a whole
`resampleOutputSize` is played. `Resampled` is how many samples of a block are new,
fewer at first and at the end of the input, none when a call fails; the rest of the
block is `Stale`, what `malloc` returned, an earlier block, or old input
resampled again.

**`MCAudioRecordSource`, `MCAudioMixer`, `MCAudioFileDecoder`,
`MCAudioFileSource`** hold push sizes, the symmetry of addresses and the files.
The proofs are in modules of their own, but for `NativeHandle`, which ends with its
own:

| Proofs | About |
|---|---|
| `AudioMixerProofs`, `MixerServiceProofs` | `AudioMixer` and what it implements |
| `AudioRecordSourceProofs` | `AudioRecordSource` |
| `AudioFileDecoderProofs` | `AudioFileDecoder` |
| `AudioFileSourceProofs` | `AudioFileSource`, with `AudioResampler` and `AudioSource` |
| `AudioMixerTestProofs` | `AudioMixerTest`, with the controller and both adapters |
| `MainActivityProofs` | `MainActivity` and the handle it implements |

## What is model-checked

| Run | Checks | Result |
|---|---|---|
| `record_10ms` | `TypeOK`, `NormalFrameIsValid`, `RecordedInOrder` | hold, 97 thousand states |
| `record_short_frame` | `NormalFrameIsValid` with 5 ms frames | violated |
| `mixer_ownership` | `TypeOK`, `FaultNeedsBreach`, `RegisteredAreOwned`, `NothingLeaks`, `RemovalIsOfAdded` | hold, 558 thousand states |
| `mixer_service` | `ImplementsService`, `EventuallyPulled` | hold, 37 thousand states |
| `mixer_added_twice` | `NeverAddedTwice` | violated |
| `mixer_rate_44100` | `PreferredRateServed` | violated |
| `file_decoder` | `DecoderTypeOK`, `NothingLost`, `FifoBounded`, `EverythingDelivered` | hold, 15 thousand states |
| `file_source` | `ResamplerTypeOK`, `NothingPending`, `FrameIsWhole`, `EOFOnlyAtEnd`, `OnlyTailUnheard`, `GainWithinRange`, `FileEnds`, `ImplementsSupply` | hold, 136 thousand states |
| `file_short_frames` | `EOFOnlyAtEnd` with frames shorter than a read | violated |
| `audio_mixer_test` | `FaultNeedsOverlap`, `PlayedInOrder`, `LossNeedsShortCallback`, `OneBlockBuffered`, `StopEnds` | hold, 250 thousand states |
| `native_handle` | `DestroyedOnce`, `FaultNeedsMisuse` | hold, 4 thousand states |
| `main_activity` | `ImplementsHandle`, `PausedWorkersStop` | hold, 3 thousand states |

What they say, beyond the names:

- `FaultNeedsBreach`, `FaultNeedsOverlap` and `FaultNeedsMisuse` are of one kind.
  The code can use freed memory; each property names all the ways to get there. For
  the mixer: an ssrc added twice, or recording to a file source. For the iOS
  example: a callback that overlaps `doStopTest`, which frees buffers and sources
  before it stops the device, and never in the mixing test; or `doStopTest`
  without a test. For Java: a call after or during `destroy`, and a static call on
  the last reference, which does not keep the proxy from being finalized.
- `LossNeedsShortCallback` likewise: the recording reaches the mixer complete and
  in order until a callback is too short to complete a block in waiting.
  `deliverRecordAndMixedData` then does not advance `_remainingData`, and the next
  callback overwrites what came.
- `GainWithinRange`: a frame may get a gain that is none of the values stored
  during `ApplyVolume` (it is left alone while the volume goes from one side of 1
  to the other), but one within their range.
- `PlayedInOrder`: of the new samples none is lost, repeated or reordered in any
  playout test. In `TEST_RESAMPLE` stale samples are played between them, exactly as
  many as the ignored results were short of; the other tests play none.
- `PausedWorkersStop` has the exception the code has: a button pressed while a
  paused worker is still in its loop keeps that worker running. Once it has left
  the loop it stops, whatever is pressed.
- `ImplementsService` permits what WebRTC's mixer does with a source beyond
  `MaxMixed`: its frame is consumed and not heard.

Bounds. The record run uses a small rate with two channels because only the ratio
of push to frame matters; pushes are nothing, an odd byte count, less than,
exactly and more than a frame, and 22 elements let the allocation grow several
times and be reused after moves. The mixer runs use two ssrcs and three
addresses, so that an address can be reused while another source lives;
`MaxRegistered` bounds a list that duplicates would otherwise make grow for ever;
`MaxMixed` is below the number of sources, so the choice of the loudest is real.
`Durations` holds a value the constructor accepts and one it refuses. Addresses
are symmetric in the runs without liveness: nothing orders them.

The file runs decode every file of up to four packets; 20 Hz makes the fifo's
capacity two samples, so frames of three overfill it, and a codec of two ready
frames refuses packets. `file_source` resamples from 20 to 30 Hz with a delay of
more than a read, so that the first call gives no sample, which `Resample` makes an
error, the second a short frame and the others whole ones, and has a volume on
either side of 1 and one on the boundary of the test. Its reads make the room for
the output exact; that rounding it up is enough for other sizes is the theorem
`NothingIsPending`. It holds only under its configuration:
frames no shorter than a read, 16-bit samples, a rate the frames divide evenly, no
corrupt packet, and at most one failing read, which the two frames the codec holds
cover.

`audio_mixer_test` has blocks of three and four elements and requests and
callbacks of none, fewer than a block, a block, and more than two, so that blocks
are left over, completed and skipped in all ways, through several tests one after
the other, and a `Resample` that fills its block, is a sample short or gives none;
`MaxPlayed` and `MaxCaptured` bound the audio of one test, not the
number of tests. `native_handle` has three threads, so that a third can call while
two race to destroy; it stops when all references are gone, so deadlock is not
checked there. `main_activity` has two workers because the only thing they share
is `mRunning`.

Fairness. `FairSpec` assumes a client that keeps its obligations, that the audio
thread keeps calling `Mix` (a device callback, or the loop in `MainActivity`) and
that a client call that has begun goes on. It does not assume that the client ever
calls anything. `FairDecoderSpec` and `FairSourceSpec` assume a caller that asks
again and again (at the source's rate), as the audio thread does, and that a call
goes on; the loops inside a call need no more, since the file is finite.
`TestSpec` assumes that `doStopTest` and a callback that have begun go on, and
`MainActivity`'s `Spec` that worker threads are scheduled: nothing about when the
device calls or which buttons are pressed.

Stutter steps. A destroyed, aborted or faulted mixer, and a faulted example, takes
a step that leaves everything unchanged, so deadlock is checked everywhere else.

The disagreements the runs found:

- `record_short_frame`: `UpdateFrame` copies 10 ms from a buffer that is only
  known to hold `frame_duration_ms`, and answers `kNormal`. WebRTC's header says
  the samples of such a frame are valid. `Mix` copies only the real duration to
  the client, and the theorem `RecordedOrder` covers such durations, so the extra
  samples are not delivered; what WebRTC does with them when it compares and
  combines frames is not modelled.
- `mixer_added_twice`: after `AddSource` of an ssrc that is present, WebRTC keeps
  a pointer to an object that dies when `AddSource` returns.
- `mixer_rate_44100`: for 44100 Hz WebRTC mixes at 48000 Hz, and every source
  refuses.
- `file_short_frames`: `Consume` fills codec and fifo once, so it may return less
  than was asked for before the file ends, and `Read` takes that for the end. It
  depends on the file: `file_source` shows it does not happen when every frame
  covers a read.

The same modules with other constants show why the assumptions of the passing runs
are there:

- With `InputBytes` = 4 no `Read` succeeds and `EOFOnlyAtEnd` fails: `Consume` counts
  two bytes per sample (`audio_file_decoder.cpp:80`), `Read` the bytes of the
  decoder's format. Which codecs deliver another format depends on the FFmpeg
  build.
- With two failing reads, or with corrupt packets, `EOFOnlyAtEnd` fails too.
- A rate that the frames do not divide makes frames short: 11025 Hz feeds 110 of
  110.25 samples per 10 ms, worth 479 of 480 samples at 48000 Hz
  (`audio_file_source.cpp:30`).
- For 7 ms at 16000 Hz stereo the record source removes 225 elements per frame and
  every other frame starts with the right channel (`audio_record_source.cpp:21`);
  this is the case `WholeFrames` excludes below.

## What is proved

For every value of the constants, from the named assumptions of the modules
(`RecordConfig`, `MixerConstants`, `NullIsNoObject`, the decoder's, resampler's and
adapters' configuration, `VolumeConfig`, `SourceConfig`, `HandleConfig`,
`WorkerConfig`). Where a statement needs more, the theorem says so as a
hypothesis, and the constants of the run that checks it satisfy it:

- `NoFreedSource`, `ListMatchesMap`, `NoLeak`, `MixerTypeCorrect`
  (`AudioMixerProofs`): the first four invariants of `mixer_ownership`. None is
  inductive. `IInv` adds what holds inside calls: what the map points to lives
  and carries the key's ssrc (`OwnedAreLive`); the `shared_ptr` inside
  `AddSource` is alive, and owned by the map if the client kept its obligations
  (`PointerIsLive`); nothing else is alive (`LiveIsOwned`); a loop visits entries
  the map has (`LoopIsPresent`); and WebRTC's list is, without repetition, the
  image of the entries in `Listed`, which says for every point of every call
  which entries are registered (`PointersAreListed`). There is one lemma per
  action. The heart of the argument is that an entry leaves `Listed` before it
  leaves the map and enters it after it entered the map, so a listed pointer is
  always owned, hence alive.
- `RemovalsAreOfAdded`: `RemovalIsOfAdded`, with the weaker half of that
  statement (`ListedAreRegistered`: every entry of `Listed` is registered), which
  holds without any obligation of the client because a duplicate only adds
  pointers and two entries of the map never share an object.
- `MixerImplementsService` (`MixerServiceProofs`): `ContractSpec` implements
  `MixerService`. From `IInv`, the participants are the entries in `Listed`; a step
  of a call adds or removes one of them (`ClientChanges`); the frames collected so
  far are of sources in the list, which cannot change while `Mix` holds `crit_`
  (`MixCollects`), so `MixCombine` delivers participants.
- `RecordedOrder` (`AudioRecordSourceProofs`): `RecordedInOrder` for every
  duration, channel count and push size when `frame_duration_ms` splits the rate
  into whole frames (`WholeFrames`). Without that the code removes another number of
  elements than it mixes, and the statement is false. The inductive invariant
  `Contents` gives each heard and buffered element its number.
- `NormalFramesValid`: with 10 ms frames, every `kNormal` frame is valid; with
  `record_short_frame` this says that 10 ms is what makes it true.
- `TypeCorrect`: the buffer stays consistent.
- `NothingIsLost`, `FifoIsBounded`, `DecoderTypeCorrect`
  (`AudioFileDecoderProofs`): for every file, codec and request. `DecoderInv` says
  that what was delivered, the fifo, the codec, the packet in hand and the rest of
  the file are consecutive samples, with one lemma per FFmpeg call.
- `NothingIsPending`, `ResamplerTypeCorrect` (`AudioFileSourceProofs`): for all
  rates, delays and sizes of calls the room, rounded up, is enough. The arithmetic
  is in `RoomIsEnough`: the quotient of a sum exceeds the sum of the quotients by
  less than the rounding adds. They are about `ResamplerSpec`, whose calls have any
  size; `SourceKeepsSamples` says the same, and what the decoder's theorems say,
  of `SourceSpec`, where decoder and resampler work together. Every step of the
  source is a step of each part or leaves its variables alone.
- `GainInRange`: `GainWithinRange` for every set of volumes. `GainInv` remembers
  what `ApplyVolume` has found out when it goes on: that some volume of the range was
  not below the lower bound it tests first.
- `FramesAreWhole`: `FrameIsWhole` when both rates are cut into whole frames
  (`WholeFrames`), for every delay of libswresample, also after failing calls. The
  total output is a quotient of the total input, and adding a whole frame of input
  adds a whole frame of output (`QuotientOfShift`, `FrameWorth`).
- `EndsOnlyAtEnd`, `TailUnheard`: `EOFOnlyAtEnd` and `OnlyTailUnheard` over every
  file. The hypotheses are those of `file_source`. `LongPackets`: two bytes per
  sample, no corrupt packet, every audio packet covers a read, a read fits in the
  fifo. `RareTrouble`: at most one read of the file fails, and the codec has
  room for a frame more than that. Neither property is inductive, because whether
  a `Read` can be served was decided when `FillDecoder` ran. `StockInv` says that
  before the end the codec and the fifo hold enough for the `Read` that goes on
  and, as long as a read may still fail, for the next one; `LongInv` keeps the
  packets' lengths on their way through the codec; `TailInv` says that an
  `AVERROR_EOF` is answered by a drained decoder, which stays drained. With two
  failing reads, one in the constructor and one in the first `Consume`, the
  statement is false.
- `FaultsNeedOverlap`, `TestFaultsNeedOverlap` (`AudioMixerTestProofs`):
  `FaultNeedsOverlap` for the controller with callbacks of any kind, and for the
  whole example, since `AudioMixerTest` implements the controller
  (`ImplementsController`: each step is one of the controller or leaves its
  variables alone). `ControllerInv` says that there is a device exactly while there
  is a test, and that a test has its members up to the first release.
- `PlaysInOrder`, `TestsPlayInOrder`: `PlayedInOrder` for every block size, sequence
  of requests and short result of `Resample`, as long as `Read` returns whole blocks
  (the hypothesis `Results = {BlockSize}`, justified above for the file that
  `doDecodeAny` opens; with a short block of `Read` that a callback leaves in part
  the statement is false, since the rest is looked for at the end of a whole one);
  in one test, and through any sequence of tests that are stopped in the middle of a
  callback or not. `PlayoutInv` says that what remains is the end of the last block,
  and that nothing remains inside a callback's loop. `ExtendedOrdered` is the
  argument for a copy: if the samples up to p were played, then p + 1, ..., p + q
  and stale ones after them leave those up to p + q played in order.
- `LossNeedsShort`: `LossNeedsShortCallback` for every block size and all sizes of
  callbacks. `InSequence` numbers what was handed over and what waits in `_buffer`;
  `AdapterInv` adds that nothing waits from an earlier callback while the present
  one has elements left, which is what `_remainingData` must guarantee.
- `HoldsOneBlock`: `OneBlockBuffered` at the 10 ms that `doRecordAndMix` configures,
  for every rate and channel count. With another duration a block is not what the
  record source takes for a frame.
- `WorkersImplementHandle` (`MainActivityProofs`): `ImplementsHandle` for any number
  of workers, one step of a worker at a time. `SelfInv` relates the mark, the
  deletions and the finalization to the place in the worker's loop, so that a
  `Finalize` finds the object marked, and no call finds it deleted. With
  `IsDestroyedOnce`, a worker's object is deleted at most once.
- `IsDestroyedOnce`, `FaultsNeedMisuse` (`NativeHandle`): for any number of
  threads. The invariant says that the flag names one deleter, and that each call
  which a deletion can meet is recorded as a misuse.

Only model-checked: liveness (`EventuallyPulled`, `EverythingDelivered`,
`FileEnds`, `StopEnds`, `PausedWorkersStop`), since fairness and `ENABLED` are out
of the prover's reach; and `ImplementsSupply`, whose counter adds up the frames of
the packets left in the file: that the sum falls by what a step takes from the file
is an induction over the file, which is out of reach as well. The safety invariants
that the passing runs check are all proved. TLC also finds the inductive invariants
to hold with the constants of these runs.

## What is not modelled

- `AddRecordedData` on one thread and `Mix` on another: `buffer_` and `sources_`
  have no lock, so the outcome is undefined. Both examples use one thread, and the
  model's guards demand it.
- The end of the file in `deliverAnyDecodedData`: `Read`'s `AVERROR_EOF` is taken
  for a size and handed to `memcpy` (`AudioMixerTestController.mm:263`). There is no
  behaviour after that to describe; the adapter is modelled up to the end of the
  file.
- A negative result of Android's recorder, which becomes a huge element count
  (`audio_record_source.cpp:30`): the program ends in the allocator.
- The `SimpleAudioCallback` that each start of a test allocates and nothing frees.
- FFmpeg's and WebRTC's signal processing: there is no source here, and no property
  distinguishes sample values.
- The Objective-C wrappers, which only forward; the marshalling code that Djinni
  generates; the Djinni support library; user interfaces and build scripts.

By lines, nearly all of the repository is vendored: the headers of WebRTC, FFmpeg
and their dependencies under `libs`, and Djinni. The modules cover the code that is
the project's own, with the few lines of WebRTC's headers it depends on, a
small share of all lines.
