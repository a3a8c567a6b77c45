# Formal models of ohPipeline

ohPipeline is the audio pipeline of a network media player: a UriProvider names a
track, a protocol fetches it, a codec decodes it, and a chain of elements delivers
it to the audio driver.  Everything that goes down the chain is a message; almost
everything that can go wrong is the order in which threads and messages meet.
These modules model that control logic; what the audio samples are is left out.

## The system

Threads and the state they share:

| Part (source under `src/OpenHome/Media`) | State | Operations | Talks to |
|---|---|---|---|
| Filler (`Filler.cpp`) | what to fetch next, halt and flush ids still to be pushed, whether a protocol waits for audio | Play, PlayLater, Stop, Next, Prev, Flush, Quit; its own thread's loop | UriProvider, ProtocolManager, Supply, IdManager |
| UriProviders (`UriProvider*.cpp`, `Av/Playlist/UriProviderPlaylist.cpp`) | current and pending track | Begin, GetNext, MoveNext, CurrentTrackId, track database callbacks | Filler, IdManager |
| Protocols (`Protocol/*.cpp`) | the connection, stop and seek flags | Stream, Interrupt, TryStop, TrySeek | Supply, network |
| IdManager (`IdManager.cpp`) | ring of announced streams, stream that is playing | AddStream, OkToPlay, InvalidateAt, InvalidateAfter, InvalidatePending, InvalidateAll | Stopper asks it, UriProviders invalidate in it; it removes streams through Skipper |
| Encoded and decoded reservoirs (`Pipeline/EncodedAudioReservoir.cpp`, `DecodedAudioReservoir.cpp`) | bounded queues | Push (blocks when full), Pull | Filler's, codec's and puller's threads |
| CodecController (`Codec/CodecController.cpp`) | stream being decoded, seek and flush requests | codec thread's loop, TrySeek, TryStop | codecs, Rewinder |
| Skipper (`Pipeline/Skipper.cpp`) | state of a removal, flush or halt id awaited | Block, Unblock, RemoveCurrentStream, TryRemoveStream, RemoveAll, Pull | IdManager through TryStop and OkToPlay |
| Waiter, Seeker, Drainer, VariableDelay, Ramper | state of a ramp, the id that ends it | request from a client, Pull | neighbours |
| Stopper (`Pipeline/Stopper.cpp`) | pause/stop state, ramp, semaphore | Play, BeginPause, BeginStop, Quit, NotifyStarving, Pull | IdManager (OkToPlay), Pipeline (events) |
| Pipeline (`Pipeline/Pipeline.cpp`) | state reported to clients, buffering, waiting | Play, Pause, Stop, callbacks of the elements | Reporter |
| Reporter, ElementObserver (`Pipeline/Reporter.cpp`, `ElementObserver.cpp`) | latest value of each thing to report | Schedule, event thread | observers |
| StarvationRamper (`Pipeline/StarvationRamper.cpp`) | queue between puller and animator, starvation | puller thread, Pull, NotifyStarving | everything upstream |
| PipelineManager (`PipelineManager.cpp`) | the public lock, prefetch | Begin, Play, Pause, Stop, RemoveAll, Next, Prev, Seek, StopPrefetch | Filler, IdManager, Pipeline |

How they meet:

- **Messages** go one way. The Filler and the protocol push them through the Supply;
  the codec's thread moves them from the encoded to the decoded reservoir; the thread
  of StarvationRamper pulls them through every element in between; the animator pulls
  from StarvationRamper.
- **Calls upstream** (`IStreamHandler`: OkToPlay, TrySeek, TryStop, TryDiscard,
  NotifyStarving) go the other way, on the puller's, a client's or the animator's thread.
- **Promises**: a halt id (Filler) or flush id (protocol) is handed out now and comes
  down the pipeline later as a MsgHalt or MsgFlush; elements wait for it by id.
- **Clients** call PipelineManager under its public lock; elements take their own locks.
- **Callbacks** of elements run on one event thread (ElementObserver).

What is hard, and what correctness means, per part:

| Part | Hard behaviour | What must hold |
|---|---|---|
| IdManager | wrap-around of the ring, cuts and shuffles of it | streams play in the order announced, an invalidated one never |
| Stopper | three threads, ramps reversed half way, a semaphore outside the lock | no lost wake-up, one question to IdManager per stream, continuous volume, a stop ends |
| Skipper, Flusher | promises that arrive before the one who waits is told | nobody waits for what is gone, gaps are announced, a removal lasts until its halt |
| ElementObserver | no lock at all | no change is forgotten |
| Pipeline, Reporter | state decided under a lock and reported outside it | what observers know last is what the elements said last |
| Decoded reservoir | two semaphores, a counter read before waiting, discards | bounded, exact count, no lost wake-up, no mutual wait |
| Filler, UriProviders | interrupting a protocol that is about to start, tracks deleted while pending | a stopped track is not streamed; the pending track exists |
| StarvationRamper | starvation while the puller blocks; flywheel | audio out never jumps, the puller wakes |
| CodecController, Rewinder, encoded reservoir | seek or stop during recognition | the flush promised is delivered, once |
| Waiter, Seeker, Drainer, VariableDelay, Muters | ramps that end at an id, an event, or never | the id is not missed, the client is released |
| Brancher, Sender | slow or interrupted consumers | bounded queues, order kept |
| ThreadPool (`src/OpenHome/ThreadPool.cpp`) | cancel and destroy against a thread that is about to call | nothing is called after Cancel returned, no handle is used after its deletion, what was accepted is called |
| PowerManager | registration while a power-down is under way | every handler is told once |

## The modules

| Module | Models | Notes |
|---|---|---|
| `StreamGrants` | what IdManager promises | a queue of streams; grant, block removal, cut |
| `IdManager` | `IdManager.cpp` | the ring, one action per public operation (each runs under iLock) |
| `MCIdManager` | - | symmetry and view for TLC |
| `IdManager_proofs` | - | types, order, refinement, invalidated tracks |
| `StopperEvents` | what Pipeline sees of Stopper | whether Pull() blocks, and the latest event |
| `Stopper` | `Stopper.cpp`, ramps of `Msg.cpp` | Pull() in the steps between its unlocked accesses |
| `Stopper_proofs` | - | types, wake-ups, questions to IdManager, events (refinement), continuous volume |
| `EventChannel` | what the event thread promises | latest change seen at least once |
| `ElementObserver` | `ElementObserver.cpp` | one atomic access per step |
| `PipelineState` | `Pipeline.cpp` (state and callbacks), `Reporter.cpp` | composes StopperEvents (INSTANCE) with the other elements' events and two reporting threads |
| `Events_proofs` | - | of ElementObserver: nothing forgotten, refinement (safety); of PipelineState: the state settled in, what observers know |
| `DecodedAudioReservoir` | `DecodedAudioReservoir.cpp`, `AudioReservoir.cpp`, counters of `Msg.cpp` | both threads, step by step between locks |
| `DecodedAudioReservoir_proofs` | - | types, both wake-ups, occupancy, the priority count |
| `Flusher` | `Flusher.cpp` | operators on its members |
| `Skipper` | `Skipper.cpp` | composes Flusher with the puller, clients, starvation, the protocol and the Filler |
| `Skipper_proofs` | - | types, targets ahead, flushes awaited, gaps announced, removals that last |
| `HaltPromises` | what the Filler promises those who wait for a MsgHalt | an id is promised, then pushed once, in order |
| `Filler` | `Filler.cpp`, `PipelineManager.cpp`, `ProtocolHttp` as Filler sees it | a call of the client, Filler's thread and a consumer downstream; refines HaltPromises |
| `Filler_proofs` | - | types, no mutual wait, wake-ups, removed streams, halts (refinement) |
| `StarvationRamper` | `StarvationRamper.cpp`, PhaseAdjuster's wait, the Drainer upstream | three threads: puller, animator, flywheel ramp |
| `StarvationRamper_proofs` | - | types, wake-up, no mutual wait, occupancy, continuous ramps, quiet drains |
| `ThreadPool` | `ThreadPool.cpp` | one priority queue, its links, handles, threads and clients |
| `ThreadPool_proofs` | - | types, no call of a cancelled handle, nothing used after deletion |

Names follow the source: a variable or record field `iState` is the member of that name,
an action is the function or handler of that name. PROJECT.json maps each definition to
its lines. Variables without an `i` are the place a thread is at (`pc`, `pusher`,
`puller`, `client`, `thread`), the environment (`phase`, `source`) or a history needed to
state a property (`heard`, `line`, `lastAnnounced`, `lastRaised`, `overlapped`).

### How state and actions correspond

**IdManager.** The ring is an array of slots with the code's two indices; `UpdateIndex`
is its modular arithmetic. `ShuffleDown` and `CutAt` are the two ways InvalidateAt and
InvalidateAfter shorten it. The refinement maps the ring to the sequence of its live
slots (`Pending`). The callback to IStopper is the variable `answer`.
The ASSERT that the ring never fills (`IdManager.cpp:34`) is a guard: that bound comes
from reservoirs upstream. UriProviders and the Filler are represented by arbitrary calls.

**Stopper.** Client calls, NotifyStarving and each handler run under iLock and are one
action each; what Pull() does without it (exchange of iHaltPending, reading iState,
iSem.Wait, pulling, the queue) is a step each. Audio has a length and a pair of volumes;
a ramp splits a message as `Ramp::Set` and `MsgAudio::SetRamp` do, in units of `kMax`.
Ramps applied upstream are left out, and so is the effect of Quit's two unlocked accesses
being separate. `audible` guards starvation: StarvationRamper reports it only after it has
had audio.

**ElementObserver.** Store, SetPending and Signal are three steps of a producer;
RunIfPending is one step for its exchange and one for the callback.

**PipelineState.** Stopper is seen through StopperEvents, which the run `stopper` shows it
implements; a producer's three steps are one here, as ElementObserver already covers what
lies between. The order in which callbacks run is open: elements are registered in an order
of their own, and the thread may be anywhere in its list when one is marked. NotifyStatus is two steps: the state is worked out
under iLock, and handed to Reporter after.

**DecodedAudioReservoir.** A step is one critical section of either thread. Audio messages
have length 1, so a discard never splits one; semaphores are Booleans because each wait is
preceded by Clear, so a second signal is never seen; taking a message off the queue and
decrementing the counters of what is queued are one step: a push that looks in between sees
what it would have seen just before.
`CounterSize` stands for 2^32; it is assumed to exceed the number of messages there can be,
which come from the cells of MsgFactory. `MayFollow` is the order in which upstream pushes kinds of
message.

**Skipper and Flusher.** `pc` is "top", "flush" (in Flusher::Pull) or "process" (a message
in hand, about to pass iBlocker and take iLock; the two are one step, as the thread does
nothing between them). StartFlushing calls the protocol, then the Flusher, which has a
lock of its own: for threads other than the puller these are two steps (`discard` holds
iLock between them). PipelineManager's Block and Filler::Stop are one action, RemoveAll
and Unblock another, so messages may be pulled, but not processed, between them. The
environment `source` lets a protocol promise a flush (once, the same until it is
delivered), deliver it any time, end its stream, and lets the Filler push the halts it
owes between tracks, or straight after the stream that was on when Stop was called. Ramp
values and MsgDelay are left out.

**Filler.** `pc` is where Filler's thread is, in its own loop or in the protocol it runs;
`client` is the call under way, step by step between the acquisitions of the public lock,
FIL1 and the protocol's lock. `Call("RemoveAll")` stands for RemoveAll, Next, Prev and
PlayAs, which differ in what the UriProvider is told; Begin, Stop and Quit have steps of
their own. A track has one stream with the same number; a stream may be live (it waits to
be granted) and may never end unless stopped. Downstream is one consumer: Skipper
discards up to the halt it was told, Stopper asks IdManager about each stream, whose queue
`pending` is that of StreamGrants. Once Stopper has stopped (`iState`), its Pull() waits on
iSem (`held`) and nothing is pulled, also by Skipper upstream, until Play or Quit; a stop
that takes effect while a thread is past the test of iState lets one more message be pulled
(`PullLastAudio`, if that is audio after the first). Play is a call like others: it need not
come. Stopper's pauses are those of `Stopper`. `client.missed` records that Stop() came while the
protocol could not hear it (`Filler.cpp:402` up to the protocol's Reinitialise) or while
the pipeline was about to begin a track (`PipelineManager.cpp:258`): then nothing ends a
stream that lasts for ever, and HaltsArrive and QuitEnds say so. Flush (for a seek that
restreams) is called by the protocol's seek with its lock held; SeekRestream itself,
StopPrefetch, PlayLater, Skipper's ramp and invalid modes are left out.

**StarvationRamper.** A step lies between two accesses to what the puller, the animator
and the flywheel thread share. Audio is counted in pieces of kMaxAudioOutJiffies, the most
one Pull() returns; MsgTrack stands for MsgMode, MsgMetaText for every message that is
dropped. `iFlyQueue` holds the volume at which each block of the flywheel ramp ends.
Upstream (`source`) is what the Drainers let through: a MsgDrain follows each MsgHalt, and
nothing follows a MsgDrain until the animator has reported it. Four members are
histories that properties need: `gen.late` (the ramp thread had ended a ramp but not yet
signalled so when the next was begun, lines 243 and 267), `animator.missed` (a level was asked for while a MsgHalt or
MsgDrain was held that WaitForOccupancy does not see, lines 915 and 728), `ramper.cut` (a
MsgHalt ended a ramp up) and `animator.dropped` (the reservoir was looked at once, before
the loop that drops messages).

**ThreadPool.** What runs under the lock of the queue (TrySchedule, the second half of
Cancel, the middle of Dequeue) is one step; the lock of a handle is state, since a callback
runs with it held. The queue keeps its links (iHead, iTail, iNext), because unlinking is
what may go wrong; what is in it (`Queued`) is the least set of handles that the links lead
to from iHead. Any thread may schedule a handle at any time until it is destroyed, a
callback its own; `Clients` cancel and destroy. A callback does not cancel its own handle:
it would wait for the lock its own thread holds. `due` follows one handle, `Watched`,
which stands for any. PowerManager and the other users of the pool are outside.

## The runs

All twelve are run with `tlc -workers 2 -config <cfg> <module>`.

| Run | Instance | Shows |
|---|---|---|
| `idmanager` | ring of 4, two tracks, stream ids to 3 (symmetric tracks) | InvalidatedNotNext, refinement of StreamGrants (91,079 states) |
| `filler` | 2 tracks, pipe of 2 messages, 2 calls, fairness | NoDeadlyEmbrace, FillerIsWoken, RemovedIsNotGranted, PromisesKept (refinement of HaltPromises), HaltsArrive (if pulling goes on), QuitEnds (183,846 states) |
| `filler_stop` | 1 track, pipe of 1, 3 calls | **violated**: NothingPlaysAfterStop |
| `stopper` | ramps 4 and 2, messages to 3, volume 0..2, two stops, fairness | NoLostWakeup, AskedOnce, AudioMeansPlaying, RampContinuity, refinement of StopperEvents, StopCompletes (491,854 states) |
| `observer` | 3 callbacks, 2 threads, 2 changes each, fairness | NothingForgotten, refinement of EventChannel with its liveness |
| `pipeline_state` | Stopper, Waiter, StarvationRamper, a client | StateIsLastEvent, UpToDateUnlessOverlapped |
| `pipeline_live` | Stopper, a client that may quit, fairness | StatesTakeEffect |
| `reservoir` | 1 unit of audio, which is also enough to end gorging, 2 streams, queue of 3, one discard, eight kinds, fairness | OccupancyBounded, PriorityCountFollowsQueue, PullersAreWoken, PushersAreWoken, ModesGetThrough (1,319,514 states) |
| `reservoir_blocked` | five kinds, queue of 4, no discard | **violated**: NeverBothBlocked |
| `skipper` | 2 streams, 2 flushes, 2 halts, ramp and messages to 2 | FlusherTargetsAhead, SkipperTargetsAhead, FlushFindsFlushing, GapsAreAnnounced, RemovalGoesOn |
| `starvation` | reservoir and messages of 2, ramp up of 2, 5 messages, fairness | PullerIsWoken, NeverBothBlocked, OccupancyBounded, RampsStartWhereHeard, NoAbruptEnd, DrainsAreQuiet, FlywheelEnds, DrainsGetOut (701,056 states) |
| `threadpool` | 3 handles, 2 threads, 1 canceller, 3 permits, fairness | CancelIsFinal, NoUseAfterFree, ScheduledRuns, and no deadlock (366,583 states) |

**Why these bounds are enough.** A ring of 4 holds three streams: enough for a run of one
track before, between and after others, with every position of head and tail, since
indices return to 0 while ids are reused through a view. Ramp 4 over messages of up to 3
gives ramps that end within, at the end of and after a message, and reversals at each;
lengths 4 and 2 make the length change under a ramp. Two stops give one that overlaps
another. Two changes per callback give one scheduled while the other's callback runs;
three callbacks give one passed, one current, one to come. A queue of 3
puts every limit of the reservoir within reach and passes it unless pushes are held back: a
push of audio blocks because there is too much of it (the unit queued and the one it holds,
which MsgReservoir counts already), and a push of audio that two MsgMetaTexts block while the
reservoir gorges ends the gorging (HandleBlocked). `reservoir_blocked` has a queue of 4 and
gathers two units. The kinds left out are treated like one of those pushed (MsgDelay like
MsgMetaText, MsgDrain and MsgFlush like MsgHalt but for gorging or the count); they, modes
that do not gorge, and all sizes are covered by the theorems, for the properties but
ModesGetThrough. Two halts, flushes and
streams in Skipper give an awaited one, an old one and an overlapping removal. Two tracks
and two calls of the Filler give a track that is fetched while the one before is removed,
and a second call against a first that is not yet heard. Five messages reach StarvationRamper's
limit with a stream, audio that spans two pulls, a halt and its drain; MsgDelay restates the
size there, while the theorems cover all sizes. Three handles give a head, a middle and a
tail to unlink; two threads a handle that is taken while it is being called; one thread that
cancels is enough, as two only meet at a lock, and others schedule while it does.
The counters bound ids and changes only; nothing else is cut.

**Deadlock** is checked except where the system may stop: Stopper after MsgQuit (or after
an assertion), ElementObserver when the bounded changes are used up, the reservoir when
upstream has no more to push while it gorges (or the queue bound is reached), Skipper
after MsgQuit or when ids have run out, the Filler after Quit, StarvationRamper when
upstream has delivered its last message. In `threadpool` it is checked: the pool may stop
only once it is deleted and every thread has ended.

**Fairness.** *stopper*: the puller thread loops for ever (WF), and a MsgHalt the
Filler has promised is pushed by its loop, so that it arrives among whatever else is
pulled (SF: other messages may be ahead of it each time). *observer*: both kinds of thread
run (WF). *pipeline_live*: clients and the event thread finish what they began (WF); the
event thread walks all its callbacks in turn, so each pending one gets its turn even if
others are scheduled over and over (SF). *reservoir*: WF for the codec's thread once it
has called Push, and for the puller, which always pulls. Pushing a new message is not
fair: the codec may have nothing more. *filler*: Filler's thread, a call once begun, the
consumer and the end of a ramp Stop() waits for (WF each). The driver always pulls, but no
step of the consumer is enabled while Stopper holds its thread, and a Play that lets it go
on is not assumed: HaltsArrive states "if Stopper lets pulling go on" ([]<>), as StopCompletes does for
Stopper, and says nothing of a halt promised to a pipeline that stays stopped, which is
pushed and waits. QuitEnds needs no such premise, as Pipeline::Quit makes Stopper play
before Filler::Quit. Streams need not end and no call need be made. *starvation*: puller, animator and ramp
thread run (WF each); upstream need not deliver. *threadpool*: pool threads run, a callback
returns, a Cancel that holds the lock is finished (WF), and a thread waiting for the lock
of a handle gets it though clients take it again and again (SF: the mutex hands itself
on to those who wait). No fairness is assumed of what clients begin.

## Where the code differs from what it says

Two disagreements are shown by a run.

1. `filler_stop`: "Don't add any new tracks to the pipeline" (`PipelineManager.h:253`). A
   Stop() between the fetching of a track (`Filler.cpp:347`) and the moment its protocol
   can be interrupted interrupts nobody; the track is announced after InvalidatePending,
   granted and played.
2. `reservoir_blocked`: Push compares with a priority count read before it may have
   blocked (`DecodedAudioReservoir.cpp:82`); gorging is not ended and both threads wait.

Others were met while modelling and are set aside by a property, with the line, without a
run of their own:

- `Stopper.cpp:485`: RampCompleted asserts a stream handler. Between a MsgTrack and its
  MsgEncodedStream there is none, a stop may begin to ramp, and starvation of the previous
  stream's audio ends that ramp.
- `Pipeline.cpp:818`: two threads report; the older state is stored last and, since
  iLastReportedState is the newer, never corrected, against `PipelineObserver.h:31`.
  UpToDateUnlessOverlapped says that this is the only way observers are misled.
- `Pipeline.cpp:895`: RemoveAll reads iState without the lock to decide whether to ramp down.
- `DecodedAudioReservoir.cpp:329`: a discard puts a stream back without counting it.
- `Filler.cpp:396`: the null track is announced after InvalidatePending; Skipper discards it
  and its entry stays at the head of IdManager's ring until the next stream is asked about,
  where Stopper (`Stopper.cpp:254`) expects streams in step.
- `Pipeline.cpp:878`: the comment there asks for a race in which iBuffering is true and the
  pipeline runs. The other way round there is one: Stopper learns of starvation at once,
  Pipeline from the event thread; a Stop() in between stops Stopper but neither removes nor
  stops the stream, which plays on after Play().
- `PipelineManager.cpp:258`: a stream that begins between Unblock and InvalidatePending of
  Stop() plays on.
- `PipelineManager.cpp:279`: StopPrefetch may time out and report a track that starts later.
- `StarvationRamper.cpp:728`: a MsgDrain that meets audio is put back uncounted.
  WaitForOccupancy then accepts a level, Pull() waits for it (line 629), and nothing comes
  before that MsgDrain is reported, which only the waiting animator can do; PhaseAdjuster
  expects "a tiny amount of time" (`PhaseAdjuster.cpp:363`). DrainsGetOut sets it aside.
  The same MsgDrain is discounted twice (line 724): iDrainCount wraps to 2^32 - 1 and later
  levels are never waited for.
- `StarvationRamper.cpp:267`: the ramp thread clears iActive before it signals. If the next
  ramp is started in between (line 243), the late signal is taken for its first block, and
  Pull() asks an empty queue for that block, which asserts (`Msg.cpp:2988`). FlywheelEnds and
  DrainsGetOut set it aside as `gen.late`.
- `StarvationRamper.cpp:638`: DrainAllAudio while nothing plays discards what comes until
  the next MsgDrain.
- `StarvationRamper.cpp:636`: metatext dropped from a reservoir otherwise dry makes the
  animator wait without a flywheel ramp; NoAbruptEnd sets that case aside.
- `ThreadPool.cpp:164`: a TrySchedule during or after a Cancel withdraws the cancellation of
  a call a thread has already taken from the queue: one schedule, two calls.
- `Av/Playlist/UriProviderPlaylist.cpp:389`: when the first track is deleted while pending,
  none becomes pending.
- `Stopper.cpp:501`: a MsgTrack during the ramp down of a pause withdraws the pause, and
  nobody is told, against `PipelineManager.h:232`.
- `Stopper.cpp:118`: a pause that reverses a ramp up of which nothing was played leaves a
  ramp of length 0; its message goes out unramped. `SpentRampDown` in RampContinuity.
- `Stopper.cpp:343`: a stream that is being discarded is heard while a ramp runs.
- `Stopper.cpp:456`: a Playing event may follow that of a pause, for a stream pulled before.
- `DecodedAudioReservoir.cpp:355`: a discard is promised audio that a blocked push still
  holds, and waits for it.
- `Skipper.cpp:204`: a MsgDecodedStream for the same stream (a seek, a discard, a variable
  delay) resets the ramp of a removal, and the removal with it. RemovalGoesOn sets it aside.
- `Skipper.cpp:325`: a RemoveAll with a ramp is ignored while a stream is being flushed and
  iRunning still holds. What lies between that flush and the halt gets through, against
  "Remove all pipeline content" (`PipelineManager.h:269`); IdManager then refuses to
  play it, as PipelineManager has invalidated what is pending.
- `Flusher.cpp:140`: metatext of a discarded track is delivered after the halt.
- `Skipper.cpp:134`: a stream that begins without a gap abandons an unfinished ramp of
  the removal of one stream (nothing is left of that stream, so nothing is lost).

## What is proved

TLAPS checks these for every value of the constants that satisfies the modules' ASSUMEs.

- **IdManager_proofs** (`TypeCorrect`, `GrantsAlwaysInOrder`, `ImplementsStreamGrants`,
  `InvalidatedIsGone`). First, what each way of moving the indices does to the queue
  `Pending`; from then on indices are not mentioned. The invariant adds to TypeOK that ids
  in the queue grow and do not exceed the last one announced: without it a grant could repeat.
- **Stopper_proofs** (`TypeCorrect`, `WakeupNeverLost`, `SemaphoreIsBinary`,
  `EveryStreamAskedOnce`, `RunningSaysPlaying`, `EventsImplemented`, `VolumeNeverJumps`).
  Handlers are operators on the record of members, so lemmas about them are about values,
  and each action follows from the lemma of its handler. `WakeupInv` relates the semaphore,
  iState and the place Pull() is at: NoLostWakeup alone says nothing of the moment between
  reading iState and waiting. `AskedInv` ties what IdManager is owed to the handler, the
  flag and the phase of the stream; `PlayInv` says what has been reported in each state.
  The refinement of StopperEvents needs only that and what each handler lets be seen
  (`Seen`). For the volume, `SoundInv` relates a ramp's direction and what is left of it to
  the level held, to the message in hand and to the rest of one that was split; the
  rounding in `Ramp::Set` and the splitting are lemmas about integer division (`RampEnds`).
- **Events_proofs** (`NeverForgets`, `ImplementsSafeChannel`, `StateFollowsEvents`,
  `ObserversFollowElements`). The module extends both ElementObserver and PipelineState. For the channel,
  the invariant says where each unseen change is (`ChangeInFlight`) and why the thread will
  come to it (`PendingWillRun`); for a thread that sleeps both together leave no case. For
  PipelineState, `StateInv` says that an event of Stopper is due until it is taken and held
  until the state is set, and `ReportInv` follows a value from the elements to the members of
  Pipeline (`Mirrored`), to a call of NotifyStatus (`StatusNotified`), to Reporter
  (`ReportsLatest`) and to the observers (`LatestTold`). The last two fail once two threads
  have reported at once, which is why the property sets that aside.
- **DecodedAudioReservoir_proofs** (`TypeCorrect`, `PullersWoken`, `PushersWoken`,
  `StaysWithinLimits`, `PriorityCounted`). Each wake-up invariant is inductive once types are
  known; lemmas about `Jiffies` and `IsFull` say which steps do not change how full the
  reservoir is. The other two need what a step does to the number of messages of some kinds
  in the queue (lemmas about `NumberOf`, by bijections). `RoomInv` counts the message a push
  that was told of room is about to add; `CountInv` the one that the pushing end has counted but
  not yet moved, and the pulling end moved but not yet counted.
- **Skipper_proofs** (`TypeCorrect`, `FlusherAlwaysAhead`, `SkipperAlwaysAhead`,
  `FlushAlwaysAwaited`, `GapsAlwaysAnnounced`, `RemovalKeepsHold`). That the targets are
  ahead is not inductive: a thread may be about to tell the Flusher an id that is pulled
  meanwhile, or hold a halt Skipper has not been told of. `SourceInv` says that ids come in
  the order they were handed out and that the Flusher's last one is the last pulled;
  `DiscardKnown` and `RemoverAhead` say where the ids under way are: still to be pulled, or,
  for one the Flusher is told late, possibly no later than the last it has seen, which it
  then rejects. Two lemmas carry the rest: telling the protocol to stop keeps `SourceInv` and
  promises a flush still to be pulled (`StoppingKeeps`), and an id the Flusher accepts is
  still to be pulled (`ToldAhead`). `HeardInv` adds that Skipper flushes whenever it waits
  for a flush and that audio cut off has a halt to come; with it `HaltAtBoundary` (with a halt
  in hand, nothing of the stream before it is left upstream) and `TellsTarget` (what is told the Flusher
  is what Skipper waits for) give that a removal lasts. What a promise or a halt looks like
  upstream is modelled from the outside, so the theorems rest on that too.
- **Filler_proofs** (`TypeCorrect`, `NeverEmbrace`, `AlwaysWoken`, `RemovedStaysRemoved`,
  `HaltsKeptInOrder`). NoDeadlyEmbrace is about two threads and two locks; what makes it
  inductive is `PlaceInv` (which lock is held at each place) and `CallInv` (what each step of
  a call has already done). `WokenInv` ties the semaphore to iStopped and the pending halt.
  For RemovedIsNotGranted, `OrderInv` says that tracks in the pipe and in IdManager come in
  the order they were fetched, `HaltInv` where the promised halt is, and `RemovedInv` that
  what was removed lies in front of it. The refinement of HaltPromises needs one more fact,
  `DeliveredInv`: the last halt in the pipe, or the last pulled if there is none, is the
  last one that is no longer pending; lemmas say how adding to a queue and taking from it
  move its last halt.
- **StarvationRamper_proofs** (`TypeCorrect`, `PullerWoken`, `NeverStuck`, `Occupancy`,
  `RampsAreContinuous`, `DryIsQuiet`, `QuietDrains`). `RoomInv` bounds what is queued by
  the size, what is in hand and one message; `SleepInv` says why a sleeping puller will be
  woken; `HeardInv` and `OrderInv` say what volume was heard last in each state, given that
  audio follows a stream; `DryInv` that a reservoir looked at while loud is not left.
  NeverStuck compares counters with what lies in the queue: `CountInv` says that they are
  the weight of the queue and what the puller is about to add (lemmas about weights, again by
  bijections), `OccupancyInv` that whoever brings the level awaited signals it.
- **ThreadPool_proofs** (`TypeCorrect`, `CancelledIsOver`, `HandlesOutliveUsers`). `LockInv`
  gives each handle one holder of its lock, so a Cancel and a call exclude each other;
  `RefInv` says a reference count is the number of threads that took the handle and one
  until Destroy drops it. `ListInv` says that the links are a list without repetition that
  ends at iTail, so that an unlinking leads to all handles but one; that the queue is the
  least set the links lead to is what stands for induction along the list. `FinalInv` says
  that a handle cancelled for good is not in it.

Every invariant, action property and refinement that a passing run checks is proved, except
what is about liveness, which the prover cannot do under fairness: StopCompletes,
StatesTakeEffect, ModesGetThrough, HaltsArrive, QuitEnds, FlywheelEnds, DrainsGetOut,
ScheduledRuns and the liveness of EventChannel (its safety part, `Channel!Safe`, is proved).
These are only model-checked, on the instances above.

## What is not modelled

PROJECT.json lists every component with the reason. In short: audio samples and formats
(codecs, containers, attenuation, flywheel), network input (protocols, Songcast, AirPlay,
services) except for what the pipeline asks of it, UPnP adapters, configuration and
assembly, loggers and validators. Known hazards without a property are in PROJECT.json,
each with the reason.

## Plan

Done: IdManager, Stopper, Skipper, the decoded reservoir, Pipeline's state, Filler with
PipelineManager, StarvationRamper, ThreadPool. Next, in order of importance:

1. `Waiter`, `Seeker`, `Drainer`, `VariableDelay`, `Muter`: ramps that end at an id or an
   event, and a common statement that the client is released.
2. `UriProviders`: what is pending when tracks are deleted under the Filler.
3. `EncodedAudioReservoir`, `Rewinder`, `CodecController`: a flush promised is delivered.
4. `Brancher`, `SenderThread`, `PowerManager`, `TrackDatabase`.

Runs that only documented a disagreement have been folded into the properties of the
components: the disagreement stays in this file.

Theorems to come: those of the modules above, each with its module. No safety property of
the modules there are is left to prove; what could be added is fewer assumptions about the
environment, by composing Skipper with Filler rather than with `source`, and the reservoirs
with what feeds them.
