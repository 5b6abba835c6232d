# CicadaPlayer: a verification project

CicadaPlayer is a media player library in C++. An application calls it from any
thread; the calls become messages of one main thread, which reads, decodes and
renders the stream, and everything that blocks runs on worker threads. This
directory models that core in TLA+, checks it with TLC and proves its main
invariants with TLAPS. Paths below are relative to `src/`.

1. [Inventory](#1-inventory)
2. [Modules and how they correspond to the code](#2-modules-and-how-they-correspond-to-the-code)
3. [Runs](#3-runs)
4. [Fairness](#4-fairness)
5. [Proofs](#5-proofs)
6. [Where the code and the documents disagree](#6-where-the-code-and-the-documents-disagree)
7. [What is not modelled](#7-what-is-not-modelled)
8. [Plan](#8-plan)

## 1. Inventory

| Component | State | Operations | What makes it correct | Model |
|---|---|---|---|---|
| Player message queue, `mediaPlayer/player_msg_control.cpp` | the deque `mMsgQueue`, the batch `processQueue` being handled, url strings owned by messages | `putMsg` with four merge classes, `processMsg`, `clear` | bounded; per-type order kept while types are padded; the newest seek is never lost; no url leaked or deleted twice | yes |
| Player control plane, `mediaPlayer/SuperMediaPlayer.cpp`, `SMPMessageControllerListener.cpp` | status, pending start, seek position and flag, loading, end of stream, `mPlayerMutex`, `mCanceled` | API calls, a handler per message, `mainService`, `ProcessVideoLoop` | `Stop()` owns the player while it resets it and always returns; Seeking/SeekEnd and loading begin/end pair up; an error is final | partly |
| Worker thread, `framework/utils/afThread.cpp` | `mThreadStatus`, `mWaitPaused`, `mTryPaused`, `mMutex`, `mSleepCondition` | `start`, `pause`, `prePause`, `stop`, the loop `onRun` | the function never runs while the status is paused; every call returns; no wake-up is lost | partly |
| Notifier, `mediaPlayer/player_notifier.cpp` | event queue, enabled flag | `pushEvent`, `Clean`, `Enable`, delivery thread | nothing delivered after `Stop()`; delivery in order | planned |
| Asynchronous jobs, `framework/utils/AsyncJob.cpp` | job queue over an `afThread` | `addJob`, `addJobSync`, `runJobs` | an added job eventually runs | planned |
| Active decoder and its device manager, `framework/codec/ActiveDecoder.cpp`, `mediaPlayer/SMPAVDeviceManager.cpp` | input, output and holding queues, the end-of-stream flags, `bNeedKeyFrame`, `mMutex`, the decode thread | `send_packet`, `getFrame`, `flush`, `prePause`, `holdOn`, `decode_func`; invalidate and reuse | bounded queues; no frame from before a flush; no frame lost, doubled or out of order; the end comes after the last frame, and comes; no deadlock | partly |
| Packet queues and buffer controller, `mediaPlayer/media_packet_queue.cpp`, `buffer_controller.cpp` | packets, the cursor between taken and untaken ones, two running durations, the extra data of a dropped packet | add, read, pop, trim, seek in cache, clear, rewind, switch streams | durations equal the sums they stand for; the cache has no gaps; a seek lands on the right key in every stream; no parameters lost | partly |
| HLS segments, `framework/demuxer/play_list/SegmentTracker.cpp`, `SegmentList.cpp`, `HLSStream.cpp` | segment list, current number, reload flags, the two threads that load | load and merge a playlist, open, next segment, end, seek, reopen, switch | no segment skipped but those the server dropped; the end is reported only at the end; a live stream always goes on | partly |
| Network source, `framework/data_source/curl/` | the connection, its position, end and error flags; the add, resume and delete lists of the loop thread; the transfers | open, read, seek, close, interrupt, reconnect; the round of the loop thread and its callbacks | position and buffer stay together over seeks, pauses, retries; 0 only at the end; a paused transfer is resumed; a deleted connection is not run | partly |
| Byte ring buffer, `framework/utils/ringBuffer.cpp` | memory, two pointers, two counters | create, read, write, skip both ways, clear | what is read is what was written, in order; a skip back finds the bytes it read | yes |
| Demuxer service, cache, renders, clock, ABR, subtitles, analytics, API wrappers, DRM, codecs | | | | see [7](#7-what-is-not-modelled) |

How they interact. API threads share four things with the main thread: the
message queue (its own mutex), a few flags (`mSeekPos`, `waitingForStart`,
`mCanceled`, `mPlayStatus`), the worker thread object they park, and
`mPlayerMutex`, which serialises `Prepare()` and `Stop()` but which the main
thread never takes. `Stop()` therefore has to interrupt the source, park the main
thread between two calls of `mainService()`, and only then clear what that thread
works on. The main thread calls demuxer, decoders and renders synchronously;
each has a worker of its own behind a queue. Packets wait in the packet queues, which only the main
thread uses, on their way from the demuxer to the decoders; a decoder's thread
takes them from a bounded queue and puts frames into another. For HLS the
demuxer reads from a thread per stream, which advances in a segment list that
the tracker's thread extends when the stream is live. What a demuxer reads over HTTP comes
from a ring buffer that the one `CurlMulti` thread of the process fills for all connections,
pausing a transfer whose buffer is full; reader and loop thread talk through flags and
lists. Events go to the
application through the notifier's thread.

What is hard here: the same flag written by an API thread and by the main
thread; a batch of messages decided upon once and handled later; a pause that is
acknowledged by the paused thread over one condition variable with two kinds of
waiters; sources that block; streams that end in the middle of a seek; a decode
thread that is flushed, held or taken away with a frame in its hand; counters that
are adjusted and never recomputed; a list merged by one thread while another walks it.
`PROJECT.json` lists each hazard at its line with the properties that cover it.

## 2. Modules and how they correspond to the code

```
MessageQueue ............ what one putMsg() erases (operators only)
  +- PlayerMessageControl ......... the mailbox as a state machine
  |    +- MCPlayerMessageControl, PlayerMessageControlTheorems
  +- PlayerControl ................ API threads and main thread
       +- MCPlayerControl, PlayerControlTheorems
       +- INSTANCE WorkerThread     (its thread is used as the abstraction allows)
WorkerThread ............ what an afThread promises
  +- AfThread ..................... the flags, the mutex and the condition variable
       |    +- MCAfThread, AfThreadTheorems
  +- ActiveDecoder (INSTANCE) ..... the decode thread, its queues and the main thread
       +- MCActiveDecoder, ActiveDecoderTheorems
MediaPacketQueue ........ one packet queue (operators only)
  +- BufferController ............. the queues of a player and who uses them
       +- MCBufferController, BufferControllerTheorems
SegmentTracker .......... the segment list, its reload thread and its reader
  +- MCSegmentTracker, SegmentTrackerTheorems
ByteWindow .............. a window on a stream of bytes (operators only)
  +- StreamWindow ................. what a ring buffer promises
  +- RingBuffer ................... memory, pointers and counters
  |    +- INSTANCE StreamWindow     (which it implements)
  |    +- RingBufferTheorems
  +- CurlSource ................... reader, connections and loop thread
       +- MCCurlSource, CurlSourceTheorems
```

**MessageQueue** holds the operators that say which messages a `putMsg()` deletes.
The deque is a set of messages with tickets (positions in the order of putting),
so a position in the deque is an order of tickets and no sequence is rebuilt.
`ErasedByAll` is REPLACE_ALL (every queued message of the type); `ErasedByLast` is
REPLACE_LAST (the last queued message, if it has the type); `ErasedBySeek` is the
merging of seeks: the newest queued seek if it is less than 500 ms old, and, when two
or more are queued, the oldest. The code keeps two iterators of a
`std::deque` across an `erase`. After the first erase the other iterator may
designate what it designated, or, if the library closed the gap by moving the
front elements, the message in front of that; both are outcomes of a build, so
`ErasedBySeek` is a set of possible erasures.

**PlayerMessageControl** is the mailbox. `Build` is the part of an API call that
happens before the lock (the message is filled in, stamped, and a url string is
allocated); `PutReplaceAll`, `PutReplaceLast`, `PutSeek`, `PutReplaceNone` are the
locked parts, with the recycling of what they erase; `Collect` is the locked pass of
`processMsg()` with any set of types padded; `Handle` is one turn of its
unlocked loop; `Clear` is `clear()`, called with the main thread parked. `heap` is the
set of url strings allocated and not deleted. `newest` and `handled` are history
variables: the ticket last put and last handled, for each type.

**WorkerThread** is what the rest of the player needs of a worker: a mode (off,
running, parked, stopping) and whether the function is being called. `Begin`
happens only when running; `Park` and `Stop` cannot end while the function is being
called.

**AfThread** is the code of `afThread`, one action per atomic access or critical
section: the worker's loop (`WLoop` ... `WClearTry`) and the four calls of any
number of controllers. `sleepers` is the set of threads blocked on
`mSleepCondition`; `notify_one` wakes any one of them, and a thread may also wake
on its own. `mFunc` may return a negative number, which parks the worker.

**PlayerControl** composes the API threads, the mailbox, the main thread and its
worker.

| State | Code |
|---|---|
| `mPlayStatus`, `mSeekPos`, `mSeekFlag`, `mDuration`, `mEof`, `mBufferingFlag`, `mCanceled`, `mPlayerMutex`, `waitingForStart` | the members of those names; `mPlayerMutex` names its holder |
| `mMsgQueue`, `processQueue` | the mailbox and the batch being handled |
| `url` | a data source was set |
| `packets`, `frames` | something is buffered in front of the decoders' output; a decoded frame waits |
| `mApsaraThread`, `mpc` | the mode of the main thread; where it is in `mainService()` |
| `pc`, `seekPos`, `preparing` | where each API thread is; the arguments of its call |
| `seekOpen` | history: Seeking was notified and SeekEnd was not |

API calls are split where another thread can see between: `Start`/`StartPut`
(the status is read, later the message is put), `SeekTo`/`SeekMark` (the message,
then `mSeekPos`), and `Stop()` in its steps (early return, lock, cancel, park,
clear, reset). `Prepare()` calls `Stop()` first when the player is not ready for
it. `Collect` is the start of `mainService()`: it takes the messages that are not
padded, or goes on to `ProcessVideoLoop()`. Each handler is one action, but
`ProcessPrepareMsg()`, which blocks in the source, is four: `HandlePrepare`,
`OpenUrl`, `SeekBeforePrepare`, `InitOpen`. A pass over the stream is
`ReadPackets`, `Decode`, one of the outcomes of `DoCheckBufferPass()`, `Render` or
`RenderNothing`, and `CheckEOS` with `playCompleted()`. Steps that ask the queue for
a newer seek, or notify, are actions of their own because API threads act in between.

Abstractions of `PlayerControl`, and what they may hide:

- Media data is three Booleans. Any call that reads, decodes or renders may do some
  or nothing of it; decoders that hold a packet for a while are `packets` that stay.
- The demuxer, the source and the devices may succeed, fail or (when cancelled) be
  interrupted, at every call.
- A ticket is the index in the deque and a seek's stamp is the time elapsed since
  the newest queued seek (nothing else of either is ever tested), which keeps the
  state space finite.
- Looping is a choice made at `playCompleted()` (`PlayAgain` or `Complete`), so every
  setting of `bLooping`, changed at any time, is covered. `mAutoPlay` is off; the
  application's `Start()` after prepare leads to the same states.
- Left out: bit-stream callbacks, `mFirstBufferFlag`, `mBRendingStart`, the clock and
  `OnTimer()`, background state, stream switching, external subtitles, views, speed and
  volume (messages that change no state modelled here), and the delivery of events.

**MediaPacketQueue** is `media_packet_queue.cpp` as operators on a record with the
class's members. Each function holds `mMutex`, so each is one step. `mCurrent` is an
index, one past the last for `end()`. A packet is its time position, duration,
key, seamless-point and discard flags, and its extra data (the decoder's parameters; 0
for none). `Taken` is `getPacket()` with the trimming loop at its end;
`PopFrontPacket` moves extra data to the packet that follows, or to `mDropedExtra`.
`GetKeyTimePositionBefore` searches from the back to the packet under the cursor; with the
cursor at `end()` the code compares with what lies past the list, which no packet
equals, and so it searches all of it.

**BufferController** has a queue for video and one for audio and the functions of the
player that use them: `ReadPacket()`, `doDeCode()` (`GetPacket`), `DecodeAudio()`
(`LearnPacketDuration`), `SetOption()`, which another thread may call, a queue at a time
(`SetMaxBackward`), the dropping of late packets (`CleanLateAudio`, `DropLate`), `SeekInCache()` with
the seek that uses it (`SeekCached`, `SeekInSource`), `SeekTo` on the application's thread,
`CaughtUp` and `EndSeek` where frames are filled in and rendered, `SwitchVideo`, `SwitchAudio` and
`Stop`. The source is a sequence of packets for each stream, in the order of decoding: between two
keys or seamless points the time positions may go back (B-frames), but what is before a key is
earlier than it and what follows is later (`InOrder`, closed groups of pictures). A seek in it goes
to the last key at or before the position.

`ReadPacket()` adds the packet it read (`AddPacketOf`) or, if it is audio, may discard it
(`DiscardAudio`): before the position of an accurate seek (`NeedDrop`), or, after a switch of the
audio, before what the clock says is played, which is left open. `catch` is `mSeekPos` as long as
`mSeekNeedCatch` is set; a packet too far before it ends the catching up (`CatchAfter`).
`audioChanged` is `mAudioChangedFirstPts = INT64_MAX`. A video key that is the first packet after
a seek, or the first of another quality, is given the extra data of the stream's meta
(`ExtrasGiven`), which is the data of some packet that the demuxer has read, ahead of this one or
not (`MetaExtras`). `next` and `stream` stand for the demuxer: `stream` is `media` without the
packets that were discarded since the queue was cleared, a history of what is lost until the
demuxer seeks. `extraAdded` and `extraOut` are history variables: the newest extra data that was
added, not counting what `SwitchVideo` dropped to read it again in the new quality, and the last that was
handed out.

**ActiveDecoder** has the decode thread and the main thread. The thread's calls of
`decode_func()` are `DBegin` ... `DEnd`, one action per access to what the other thread
changes: the test of the loop (`DLoop`), `extract_decoder()` with its lock (`DExtract`,
`DDequeue`, `DPush`), the codec's input (`DEnqueue`), the two tests for the end of
the input (`DCheckInputEos`, `DCheckEmpty`) and the null packet (`DEnqueueEos`). Starting
and parking are those of `WorkerThread`; `parkWanted` says that the thread was asked to
park, by `pause()` or `prePause()`. The codec is a queue of at most `CodecSize` packets
that may keep a packet as long as it is not full and is not told of the end. `PacketAnswers` and
`NullAnswers` are what the codecs of `framework/codec` answer: a packet is taken, refused for now or
fails; the null packet is taken or refused while the codec is full, but AFVTBDecoder answers it
with `STATUS_EOS` at once, with the frames it reorders still inside
(`AppleVideoToolBox.cpp:422-425`), and `decode_func()` then sets `bDecoderEOS` and extracts. The main
thread sends packets (`SendPacket`, `HoldPacket`, `DropPacket`, which is `needDrop()`),
the null packet (`SendEos`), gets frames (`GetFrame`, and `GetFrameEos`, for
`thread_getFrame()` reads two things), flushes (`FlushDevice`, `Flush`), lets
the device manager invalidate and reuse the decoder (`Invalidate`, `SetUp`, `Reuse`), and
holds when the application goes to the background (`HoldOn`, `Hold`, `Resume`). `epoch`
counts the flushes, `owed` is the set of packets whose frame the player has
not had, `held` and `fresh` say whether it was held, and whether the
codec was given nothing, since the last flush; `cut` that `extract_decoder()` stopped with the end
declared already, because the output queue was full or `mRunning` was reset.

**SegmentTracker** has the tracker's thread, the read thread of an HLS stream and the
server. A load is three steps, each open to the other thread: the request, the answer,
which is the playlist of that moment (`Answer`, `LoadFails`), and the merge under the lock
(`Merge`, `MergeRefused`). The tracker's thread is `TrackerLoads` and `TrackerLoaded`, which
resets `mNeedUpdate`. The reader opens the stream (`Open`, `InitFailed`, `InitDone`,
`Place`, `OpenSegment`, `OpenNone`), advances (`NextSegment`), asks for a reload
(`ReLoadPlayList`) and ends (`EndOfStream`); the main thread seeks, stops and starts, or
switches to this stream. A segment is its number. The playlist at the server is a
window `first .. last` that grows, loses its beginning, and may end; a delta answer
lacks the beginning of the window. `missed` and `partial` are history variables.

**RingBuffer** has the memory with `m_readPtr`, `m_writePtr`, `m_fillCount` and `m_backCount`;
each exported call is one action, since the connection makes them under its mutex.
`View` maps this state to a window: the bytes kept behind the reading position and those
not yet read. `StreamWindow` has the same calls on a window, and `RingBuffer` implements it.

**CurlSource** uses that window as the buffer of a connection, with the position in the file
as a byte. The reader of a source is `rpc`: calls begin with `Open`, `Read`, `Close` or one of
the five cases of `Seek()`; `Replace` and `Connect` are `TrySeekByNewConnection()` and
`Open(0)`; `FillBuffer()` is `FillCheck` (the loop's condition, the interruption, the read of
`mStatus`), `FillEos`, `FillPause`, `FillResume`, `FillStatus`, `Retry`, `Again`, so that the loop
thread may act between any two of its reads and writes; `after` says who called it. The loop
thread is `lpc`: `LApplyAdd`, `LResume`, `LResuming`, `LApplyDelete` are `applyPending()`,
whose third part keeps `mListMutex` over `write_callback()`; then `curl_multi_perform()` as any
number of `LData` with `LWrite`, `LDone`, `LFail` and `LProgress` (`xferinfo()`) until `LEnd`; then
`LInfo` for each message. libcurl is external: a paused transfer neither moves nor fails, and
adding one that was added does nothing. The actions `Interrupt` and `OnReconnect` are those of
other threads. Whether a listener is set, and how long a retry stays pending, is left open.
`errors` and `reconnects` count for the bounds; `strayed` is a history variable, the connections that a
defect of the code (section 6) led astray: a seek behind the end (`SeekPastEnd`), a transfer that
begins again by itself after it failed (`LResuming`), an error page taken for the file
(`BeginTransfers`), or an error that got the `eof` of another connection's message (`LInfo`). No
guard reads it, and a new connection is not in it.

## 3. Runs

| Run | Instance | Shows |
|---|---|---|
| MsgControl | 2 callers, 4 messages put, 2 urls, 2 instants, one type of each merge class | the queue is bounded (`OneOfReplaceAll`, `AtMostTwoSeeks`), types keep their order under any padding (`HandledInOrder`), the newest seek survives (`NewestSeekSurvives`), url strings have one owner (`UrlOwnership`) |
| AfThread | 3 controllers, `mFunc` returns 0 or -1 | `PausedMeansParked`, `ReturnsParked`, refinement of `WorkerThread` (`ImplementsWorkerThread`), and that no wake-up is lost (`PauseReturns`, `StopReturns`, `StartRuns`), with spurious wake-ups; no deadlock |
| PlayerControl | 2 API threads, 1 position, live (0) or on demand (1) | `StopOwnsPlayer`, `SeekEndMatched`, `SeekingHeld`, `CompletedNotLoading`, `UsesWorkerThread`; no deadlock |
| PlayerControlLive | 1 API thread, 2 messages held | `StopFinishes`, `SeekPastEndEnds` |
| Buffer | a video with audio (4 and 3 packets, the last two frames decoded in the other order; keys, a seamless point, a discarded packet, extra data), or music of 4 packets of which 3 have no duration and one has extra data; seeks to position 2, accurate or not; a backward limit of 0 or 1 | `DurationsMatch`, `CacheIsContiguous`, `ExtraDataKept`, `SeekLandsOnKey`, `SeekBackIsAligned`; no deadlock |
| Decoder | queues of 2, a codec of 1, 3 packets an epoch, 2 flushes | `NoStaleFrame`, `FlushAlone`, `Conservation`, `EosDrained`, `DecodesFromKey`, `OnlyHoldBlocks`, `EosArrives` |
| Segments | 3 segments, delta updates, 1 seek, reopening or switch | `NothingMissed`, `EosIsTheEnd`, `LiveGoesOn` |
| CurlSource | a file of 6 bytes, a buffer of 5 that keeps 1, seeks to byte 2 and to the end, 1 failure, 1 change of the network | `InPlace`, `ZeroIsEos`, `FreedIsForgotten`, `ResumeNotLost`; no deadlock |
| LimitTakenBack | as Buffer, with limits 0 and 1 in any order | the assertion of `getPacket()` fails: section 6 |
| MsgSeek, ErrorThenCompletion, SeekToEnd | 1 API thread | each finds a behaviour that contradicts a document or a comment: section 6 |

The bounds and why they suffice:

- `MaxTicket = 4` (MsgControl): the rule that depends on most messages is the merging
  of seeks, which needs two queued and a third; the fourth lets another type stand
  between them. `MaxTicket = 6` in MsgSeek has room for the two seeks,
  a message in front, one between, and the put that erases. Two instants tell
  "within 500 ms" from "later" (`SEEK_REPEAT_TIME = 1`). The run ends when the tickets
  are spent, so deadlock is not checked there.
- Three controllers (AfThread): one waits in `pause()`, one holds or wants the mutex,
  one more competes for it. The theorems hold for any number.
- `MaxMessages` bounds the messages held *when the application calls*; calls in
  progress and the main thread's own `MSG_START` go beyond it. With 1, every pair of
  calls of two threads still overlaps, because the second call can begin before the
  first has put its message. With 2 and one thread, a batch holds several messages,
  of which one may begin a seek before the next is handled.
- One position besides 0 (`Positions = {1}`): the code compares positions with 0 and
  the "none" value only. Two durations: live and seekable. A failing open leaves none.

- Four packets (Buffer): two keys with two packets after the second, so that a key can be behind
  the cursor, under it or ahead, and a trimmed queue still has one. The position that is sought (2)
  is no key: the frame at it is the last that is decoded, the key before it is at 1, near enough to catch
  up from (`MaxASeekDelta = 1`), and the audio at 1 is what an accurate seek discards, with audio
  kept before it and added after it; a gap in the kept audio is reached.
  `NearEnd = 3` is behind the position. The extra data of the video is at its last but one
  packet and, by the meta (`OpenExtra`), at its keys. The music's
  durations are learnt with packets on both sides of the cursor. The limit goes from 0
  to 1 at any time, in each queue on its own, and not back: LimitTakenBack shows what happens then.
- Queues of two (Decoder) can be empty, full and in between; one packet in the codec and
  one in the thread's hand are all the places a packet can be. Three packets make a
  key, a packet after it and a later key, with one queue length less than the packets sent;
  two flushes are one with and one without a reuse, in either order. Deadlock is not
  checked because the code has one, and `OnlyHoldBlocks` says which.
- Three segments (Segments): a window of one, two or three that loses its beginning
  ahead of the reader, behind it, or under it; a delta with something skipped and something
  new. The run stops when the server has ended and all is read.
- One byte a callback, and a file one longer than the buffer (CurlSource): the transfer
  pauses, is resumed by either thread or by both, and ends paused or not; the one failure and the
  one change of the network come before, during or after that. Byte 2 is in the buffer, behind
  it, a little in front of it or far from it, according to where the reader is
  (`m_bufferSize + READ_BUFFER_SIZE` is below the part of the buffer that is not kept, as in the
  code: 64 + 16 below 256 KiB), and a seek to 6 is one behind the end. One address: a new
  connection has the address of the deleted one, the worst case for what still names it, but waits
  until it is free; with two addresses a file of 3 bytes has six million states, too many for
  the run. One source, and no error page. `InPlace` and `ZeroIsEos` leave out the connections in
  `strayed`, and `ZeroIsEos` a change of the network: section 6 says why. The invariant
  that proves them for every instance (section 5) was checked by TLC too, before it was proved, on
  this instance and on others with one source, with an error page, with two failures, with two addresses, and with a
  buffer of 8 that is read by 1 and 2 bytes.

The runs of the mailbox, the worker thread, the control plane and the decoder leave their type
invariants to the theorems (section 5); the others check them too.
`RingBuffer` has no run: what there is to say of it is proved, and its operators on a window are
those that `CurlSource` runs.

Every property has a mutant in `PROJECT.json`: an operator of the same module
that changes one definition as a plausible bug would (a missing lock, a dropped
reset, a wake-up not given). Operators whose comment begins with "A mutant" are
these, and no specification uses them.

## 4. Fairness

`AfThread`: `WF(OnRun)`, because the operating system schedules a thread that can
run and `mFunc` returns; `WF(Proceed(c))`, a call that has begun goes on when it can.
There is no fairness on beginning calls, on getting `mMutex` against competitors or on
spurious wake-ups. That is why `StopReturns` begins at the point where `stop()` holds
the mutex.

`PlayerControl`: `WF(Proceed(c))` as above, and `WF(MainService /\ mCanceled)`. The
main thread may wait in the source as long as it likes, and `Interrupt()` ends that: only
with `mCanceled` set is it obliged to go on. `StopFinishes` is hence what the
cancellation is for: without it (the mutant `StopUncancelled`) it fails.
`SeekPastEndEnds` carries a premise of its own, `[]<><<ReadPackets>>_vars`:
`mainService()` makes no pass over the stream in a call that handled a message, so an
application that never stops calling starves playback, and nothing in the code
prevents it.

`ActiveDecoder`: `WF(DecodeFunc)` and `WF(PlayerContinues)` as above; `WF(GetFrame)`,
because the main thread asks for frames in every pass; `SF(DPark)`, because the worker
tests whether to park between any two calls of the function, though a new call may begin at
once in the model. Nothing makes the player send, flush, hold or resume. `EosArrives`
excepts the deadlock that `OnlyHoldBlocks` isolates.

`SegmentTracker`: weak fairness of both threads, whose loops never wait for each other;
weak fairness of `NextSegment`, `EndOfStream` and `ReLoadPlayList`, because the reader
comes to the end of a segment and asks for a reload whenever the interval is over; and strong
fairness of the answer to a request, for each thread, because a load that fails is
tried again and a network that never answers refutes nothing.

`CurlSource` has safety properties only. Its calls do not always return (section 6), and
`ResumeNotLost` says what their return depends on: no paused transfer is left to nobody.

## 5. Proofs

All proofs are for every value of the constants, under the assumptions stated
in the modules: `SEEK_REPEAT_TIME` is a positive natural, types are the
program's types, "no url", "no message", "nobody" and the worker are distinct from the
urls, messages, positions and threads, results of `mFunc` are integers, streams are sequences of
packets in order of decoding (`InOrder`). Bounds are natural numbers.

**PlayerMessageControlTheorems.** `TypeCorrect`; `QueueBounded`
(`AtMostTwoSeeks`); `UrlsOwned` (`UrlOwnership`); `OneOfEach` (`OneOfReplaceAll`); `OrderKept` (`HandledInOrder`); `NewestSeekKept`
(`NewestSeekSurvives`). None of these is inductive alone. The invariant `IInv` adds
`TicketOrder`: the queue is finite, queue and batch are disjoint, tickets are
distinct, below `nextTicket` and not above `newest` of their type. Without distinct
tickets "the last message" is not one message; without `m.ticket <= newest` a put
could be older than one already handled; with the finite queue the cardinality
bound can be counted. `PushInvariants` proves once that appending a message after an
erasure keeps each part, from facts about the erased set alone; each put then only
shows these facts. `OldestOfIsOldest` and `LatestOfIsLatest` show that the
CHOOSE in the operators of `MessageQueue` has a witness in a finite queue with distinct tickets;
`SeekErasure` that, whichever of the two erasures of a put the library
performs, at most two seeks are left once the new one is added. What a put erases never includes the newest seek unless
it is replaced by a newer one, which is why `NewestSeekSurvives` holds even though the
wrong message may be erased.

**AfThreadTheorems.** `TypeCorrect`; `Parked` (`PausedMeansParked`); `CallsReturnParked`
(`ReturnsParked`); `Refinement` (`ImplementsWorkerThread`). The strengthening `Handshake`
relates the mutex to the calls in progress, the wait flag to a waiter in `pause()`, and
each status to the places the worker can be. `PausedMeansParked` needs it because the
status is written in three threads: a self-pause is safe only since the worker holds
`mMutex` and so no `stop()` is between its two writes. The refinement proof maps each
action to a step of `WorkerThread` or a stutter.

**ActiveDecoderTheorems.** `TypeCorrect` (`TypeOK`); `Fresh` (`NoStaleFrame`);
`FlushesAlone` (`FlushAlone`); `EosAfterDrain` (`EosDrained`), for any sizes of the
queues and of the codec. The invariant adds two parts. `Places` says where the two
threads can be: the thread in a call is not parked, only a thread about to push has a
frame in hand, and the packet it is about to enqueue is still there. It is needed because
`flush()` empties the queues without a lock: what makes that safe is that a parked thread
has nothing in hand. `EosInOrder` says that the steps of the end of the stream come in
order: who is past the test of the input has seen `bInputEOS`, and the input stays empty since,
because the player sends nothing after the null packet. A codec may declare the end when it is told of it, with
frames still inside; `EosDrained` is then about the extraction that follows in the same call of `decode_func()`:
until it returns what is in the codec and in the hand is on its way out, and it returns with the codec
empty or is `cut`. With these two, each of
the four properties is a step-by-step argument, one lemma a property, one case an action.

Two more are about the packets themselves. `KeyFirst` (`DecodesFromKey`): after a flush the codec
gets a key first. `KeyInLine` is what makes it inductive: the packet that must be the key is the
first one in line, which is in the holding queue while the player holds and in the input
otherwise, and as long as `bNeedKeyFrame` is set nothing is in either. `NothingLost`
(`Conservation`): every packet that was accepted and whose frame the player has not had is in
exactly one place, in the order of sending. `Owing` says it of the four queues in pairs (`InOrder`
within each, `Before` between two), because an action moves one packet between two neighbours;
lemmas about the elements and the order of a sequence after `Append`, `Tail` and concatenation
carry it, and a last one shows that it is `Conservation` of the concatenated queues.

**PlayerControlTheorems.** `TypeCorrect` (`TypeOK`); `StopOwns` (`StopOwnsPlayer`);
`SeekEndsMatched` (`SeekEndMatched`); `SeekHeld` (`SeekingHeld`); `CompletionNotLoading`
(`CompletedNotLoading`); `ThreadContract` (`UsesWorkerThread`), for any number of API threads,
positions, durations and messages. The invariant adds three parts. `Ownership` says whose
the player is: a thread that is not running is between two calls; the caller that holds
`mPlayerMutex` is exactly the one inside `Stop()`; messages are held only while handling
them. It is inductive alone, and the other two need it, because `Stop()` resets what they
relate while the main thread has no place of its own. `SeekSteps` says where in
`mainService()` a seek can be in progress, and that a source is opened in PREPARINIT only;
`LoadSteps` says where the player can be loading. Each is one lemma for the API
threads and one for the main thread, with a case an action. Since the thread is used as
`WorkerThread` allows and `AfThread` implements `WorkerThread`, the two halves meet.

**CurlSourceTheorems.** `TypeCorrect` (`TypeOK`); `ConnectionsExist` (`FreedIsForgotten`);
`PausedIsResumed` (`ResumeNotLost`), for any number of sources and connections, any sizes,
failures and changes of the network. `Ownership` says that a reader works with a connection of its
own, which is in no other's hand and not given up; it is inductive together with
`FreedIsForgotten`, because what a reader takes for a new connection is an address nobody has, and
what it gives up leaves `mAddList` as it enters `mDeleteList`. `TypeOK` needs it, and also
`Skipped`: `short_seek()` gives back what it skipped by moving the position back, and the position
stays a natural number only if that much was read before, which a failed retry in between could
undo (it empties what is kept, and then nothing can be given back). `LoopPlaces` says that the
loop thread has `mListMutex` as long as it has a batch, and a connection in hand when it writes:
with it the two who may resume a transfer never both leave it, which is `ResumeNotLost`. The
proof has one lemma for each part, first for the reader's own steps, then for the others'.

`BytesInPlace` (`InPlace`) and `ZeroOnlyAtEnd` (`ZeroIsEos`) are about the bytes, again for any number
of sources and connections and any sizes. They follow from a second invariant, `Bytes`, that is
inductive relative to the first. Its centre is `Straight`, of every connection that exists and is not in
`strayed`: the window holds the bytes of the file around the position (`Right`), the next byte
of the transfer belongs behind the last byte of the buffer (`Reached`), a connection to be added
will ask for that byte, `mEOS` or a message of a completed transfer is there only when
the buffer has come to the end of the file, and a transfer that failed moves no more until its reader resets it. Each of
these depends on steps of both threads, which is what the other parts are for:

- `Retrying`: a reader that has seen a failure and goes to reset the connection is alone with it.
  The reader decides in one step and resets in another; in between the loop thread must
  neither write nor finish the transfer.
- `Messages`: libcurl has at most one message for a transfer, which it still runs, and none when the lists
  are applied. Otherwise a message could be of a transfer that was begun anew since.
- `KeptFits`, `NoErrorPages`: what the buffer keeps, and that only error pages change a size or a byte.
- `Reading`: where `Read()` is and why, so that it takes bytes only after `FillBuffer()` found some or the end.

On the windows, `RightConsumed`, `RightSkipBack` and `RightWritten` say that a read, a skip backwards
and a write keep `Right` at the position that goes with them; they are stated on the operators
of `ByteWindow`, which the ring buffer implements. The proof has a lemma for each action and, under it, a step for each part.

**SegmentTrackerTheorems.** `TypeCorrect` (`TypeOK`); `ReadsAll` (`NothingMissed`); `EndIsReal`
(`EosIsTheEnd`), for a playlist of any length. `MergedList` is the central lemma: whatever part of
the playlist `merge()` gets, the list is again a run of consecutive numbers, up to the newest of
both, and it begins where one of them did. (A run and what is newer in it are given by their
first and last numbers, which is the form the lemma can be proved in.) The invariant is about time: an answer is merged
after the server has moved on and after the other thread has merged. `Answers` is what it
said that still holds then; `Loaded` that the list is never empty again after the first
merge; `Finished` that a list that is not live, or a playlist that had a duration, is complete;
`InReach` that the reader is not further ahead of the list than a playlist is long;
`FromTheWindow` that without a delta or a crossed answer the list begins at the window or before it,
so that the segment after the reader's is in the list or gone from the server.

**BufferControllerTheorems.** `TypeCorrect` (`TypeOK`); `CountersAreSums` (`DurationsMatch`); `NoGap`
(`CacheIsContiguous`); `ParametersKept` (`ExtraDataKept`); `SeekFindsKey` (`SeekLandsOnKey`);
`SeekBackMissesNothing` (`SeekBackIsAligned`), for streams of any length, durations of any size and any
sequence of calls. They have one hypothesis, `0 \notin BackwardDurations`: the limit is 0 until the option is set,
may then be set to any other value at any time, but is not taken back to 0. The code needs it: run
LimitTakenBack breaks what `DurationsMatch` says of a limit of 0. `IInv` is `TypeOK`, `DurationsMatch`,
`CacheIsContiguous`, `StreamsInOrder` (what is left of a stream when packets are discarded is still
in the order of decoding) and `ExtrasInLine`, which says where the newest extra data is: at the last packet
that has some, else in `mDropedExtra`, else it was handed out. `ExtraDataKept` alone
is not inductive, because a packet with older extra data could be the one that is left. `NoGap` says of
the video that nothing is missing, and of the audio that only what `ReadPacket()` discarded is: discarding takes
the packet that would be read next from `stream`, behind all that is kept (`KeptWithout`). `ParametersKept` is about
packets that were added; the extra data of discarded audio is lost in the code. Three arguments carry the proof:

- *Sums.* `CountedIn` is a recursive function, whose existence the library gives only for an operator.
  `StepsExist` shows it for a function defined step by step on `0 .. n`, by induction over a set of
  numbers (the well-foundedness of `<` on `Nat` and a least counterexample); the lemmas on `Sums` say what an
  append, a prefix, a suffix and a cut do to them. The number of packets
  that `PopFrontPacket()` takes in a loop is the same induction.
- *Every operation is a cut, an append, or a move of the cursor*, each with what it does to the counters and
  to the place in the stream; a case of `Next` is one of these, applied to each queue.
- *A packet is found by its time position alone*: `SeekFindsKey`, and the switch of the video, need that no other packet has
  the position of a key or a seamless point. That, and no more, is what `MediaAssumption` says of the
  streams.

**RingBufferTheorems.** `RingInvariant` (`TypeOK`, `WriteFollowsRead`) and
`RingBufferIsAWindow` (`ImplementsWindow`), for any sizes. The invariant is inductive: the writing
pointer is `m_fillCount` places in front of the reading one, and what is kept and what is not read
fit in the memory. Lemmas show that `Advance` and `Retreat` are addition and
subtraction modulo `m_size`, and from that which places a write leaves alone and where a skip
lands; the proof of the refinement then compares, for each call, the two sequences of the
window element by element.

**Model-checked only.** `OnlyHoldBlocks` of `ActiveDecoder`, which is about ENABLED. The liveness properties, because the prover does
not handle liveness under fairness. The counterexamples.

## 6. Where the code and the documents disagree

1. **MsgSeek** (`player_msg_control.cpp:144`): the documentation says the oldest of
   two queued seeks is deleted. The iterator it is deleted through is used after
   another erase of the same deque, and may designate another message, such as a pause.
2. **ErrorThenCompletion** (`SuperMediaPlayer.cpp:2111`): a stream with nothing to play
   fails to prepare and, in the same pass, is reported as completed, so the
   status leaves ERROR.
3. **SeekToEnd** (`SuperMediaPlayer.cpp:2111`): a completed player may seek; if it seeks
   beyond the last frame the early return for COMPLETION in `checkEOS()` never ends
   the seek, although a comment says `playCompleted()` does so. Later seeks stay padded.
   `SeekPastEndEnds` shows that in every other status it does end.
4. **LimitTakenBack** (`media_packet_queue.cpp:240`): `getPacket()` asserts that without a backward
   limit nothing is kept before the cursor. Setting the option `maxBackwardBufferDuration` stores a number; when it is
   taken back to 0 while packets are kept, the assertion fails, and without assertions the oldest kept
   packet is decoded again and its duration subtracted twice.

Other observations, which no run reports. Most contradict no document; those about the network
source and delta updates follow from the model, with the constants given:

- Padding is decided when a batch is collected (`player_msg_control.cpp:160`), and a handler of the
  batch may begin a seek before a `MSG_SEEKTO` of the same batch is handled. The notes in
  `study/cpp-learning/01-entry-control-plane/03-seek-control.md` say that seeks are not interleaved. In the model
  they are, and `SeekEndMatched` and `SeekingHeld` show that nothing is notified wrongly.
- `ActiveDecoder::holdOn(true)` waits for the decode thread with `mMutex` locked, and that
  thread takes `mMutex` before it pushes a frame (`ActiveDecoder.cpp:440`, `462`): a
  deadlock, the only one (`OnlyHoldBlocks`).
- `thread_getFrame()` tests the output queue and then `bDecoderEOS` (`ActiveDecoder.cpp:312-316`);
  between the two the thread may push the last frame and set the flag.
- AFVTBDecoder answers the null packet with `STATUS_EOS` (`AppleVideoToolBox.cpp:422-425`), and
  `decode_func()` sets `bDecoderEOS` at once (`ActiveDecoder.cpp:137-139`), with reordered frames still
  in the codec. `extract_decoder()` (line 141) takes out those that fit in the output queue; the others
  are never extracted, because `decode_func()` returns at its beginning from then on (lines 79-84), and
  `getFrame()` may report the end before the last of them. `EosDrained` leaves them out (`cut`), and
  so does not hold without that exception.
- Audio that `ReadPacket()` discards before the position of an accurate seek
  (`SuperMediaPlayer.cpp:3162`) is missing from the packets that are kept, between others that were
  added before and after the seek. A later seek backwards in the cache to a place before the gap plays
  video without that audio: `SeekInCache()` looks at the first and the last packet of the queue only. The extra
  data of such a packet (`avFormatDemuxer.cpp:416-418`) is lost, for it is not saved in `mDropedExtra_data`.
- A live stream that ends is never reported as ended: `updateSegment()` asks for the
  duration of the playlist that was loaded first (`HLSStream.cpp:1082`,
  `SegmentTracker.cpp:444-446`), and that of a live one is 0. The reader waits for ever.
- A live player may have `mSeekFlag` without a seek position (position 0 of a stream whose
  duration is 0), which is why `SeekingHeld` is stated for streams with a duration.
- `SeekInCache()` skips its test against the last frame when all packets of a stream are
  taken (`SuperMediaPlayer.cpp:3446`: `GetLastTimePos()` is then `INT64_MIN`), and
  `GetKeyTimePositionBefore()` then dereferences `end()`. `SeekLandsOnKey` is therefore
  stated for a main queue that is not all taken.
- A retry that is interrupted, or that times out without a listener, has reset the connection
  and does not add it again (`CURLConnection2.cpp:479-505`): a later `Read()` waits until it is interrupted.
- `deleteHandle()` leaves a connection in `mResumeList` (`CurlMulti.cpp:245`).
- `merge()` cuts the segment list to the length of the playlist it merges
  (`SegmentList.cpp:144`). A delta update (`_HLS_skip=YES`) has only the tail of the playlist, so
  segments ahead of the reader that the playlist still has are dropped, and skipped.
  `NothingMissed` (with its premise `~ partial`) shows that a full playlist never does this, unless
  two loads cross.
- A seek to the end or behind it sets the position and leaves the buffer
  (`curl_data_source2.cpp:342`); the next short seek reads bytes of another place. `InPlace`
  fails without `strayed` (a file of 5 bytes, seeks to 4 and 5).
- `short_seek()` waits for bytes with the mutex that `write_callback()` needs
  (`CURLConnection2.cpp:589`, `612`, `187`): the seek, and the thread that serves every
  connection, waits until the source is interrupted. In the model `SeekNearEnds` never finds
  the bytes it waited for.
- A change of the network during `Read()` replaces a connection that had bytes by one that has
  none, and 0, the end of the file, is returned (`curl_data_source2.cpp:485`). `ZeroIsEos`
  fails without `reconnects = 0`; the bytes of the new connection are right (`InPlace`).
- `status.eof` stays set for the messages that follow (`CurlMulti.cpp:61`), so a transfer that
  failed in the same round is reported as complete. `ZeroIsEos` fails with two sources and one failure, unless `strayed` has
  the connection.
- A seek does not look at the result of `curl_connect()` (`curl_data_source2.cpp:439`), so that an
  error page is read as the file, and its size may be taken for that of the file. `InPlace` fails with
  `ErrorPages = TRUE`, unless `strayed` has the connection.
- `FillBuffer()` and `xferinfo()` test and reset `mPaused` without a lock
  (`CURLConnection2.cpp:171`, `414`), and may both resume one transfer: it is then written to while
  `mPaused` is set, which line 185 asserts not to happen, or, if it has completed, begins again at
  its first byte, behind the end of the file in the buffer, or, if it has failed
  (`CurlMulti.cpp:197`), in the middle of it. `InPlace` looks at bytes of the file only, and fails in the last case
  (a buffer of 3, a file of 7, one failure), unless `strayed` has the connection. The seek behind
  the end, the `eof` of another message, the error page and this are all that `strayed` records:
  `BytesInPlace` and `ZeroOnlyAtEnd` say that in the model there is no fifth.

## 7. What is not modelled

- `afThread`: calls from inside the thread's own function, `detach`, `forceStop` and
  the destructor.
- `ActiveDecoder`: what follows a codec error (`enqueueError()`), a decoder that refuses packets although it is not
  full, as AFVTBDecoder does in the background, and the answer `STATUS_EOS` to a packet that is not null
  (`ActiveDecoder.cpp:114`), which no codec of the repository gives; corrupted packets and the HEVC check
  of `needDrop()`, the clear-key DRM, `updateMetaData`, opening and closing. The device
  manager's renders and the creation of decoders.
- `BufferController`: the subtitle queue, which no position depends on, mixed streams (one stream of the
  demuxer with both, switched together), look-ups by pts and by UTC time. `PlayerControl` keeps its Boolean in place of the queues: the product of
  both state spaces is out of reach, and what the control plane asks is whether
  something is buffered.
- `SegmentTracker`: partial segments, preload hints and blocking reloads of low-latency HLS;
  HTTP errors of a segment, on which `updateSegment()` takes the next one; a seek before the
  first load; the packets read from a segment; DASH, which has its own stream and tracker.
- `CurlSource`: ranges, POST, headers, statistics and `GetOption()`; `removeHandle()` and the
  branches of `sendRange`, which nothing reaches; destructors. A connection is on a list at most once, and the address of one that `mResumeList` still
  names is not given to another. The older `CURLConnection` and `CurlDataSource` have no
  thread. The cached data source is possible later.
- The demuxer service and the codecs
  are facades of FFmpeg and platform libraries. The demuxer is represented in
  `PlayerControl` by what its calls may return.
- Cache module and DRM: file input/output and platform services.
- Video render: driven by vsync on graphics APIs. Audio render: possible later.
- Analytics and API wrappers: no state the player depends on.
- Clock, ABR: pure algorithms, planned as operators. Subtitles: possible later.
- Playlist parsing, formatting, logging: text processing.

## 8. Plan

Done, most important first: MessageQueue, PlayerMessageControl, WorkerThread, AfThread,
PlayerControl, ActiveDecoder, MediaPacketQueue and BufferController, SegmentTracker, RingBuffer and
CurlSource; proofs about all of them. Next:

1. `AsyncJob` over `AfThread`: an added job eventually runs, or the job lost when the
   worker parks itself after a `start()`.
2. `PlayerNotifier`, composed with `Stop()`: nothing is delivered after `Stop()` returned.
3. The calls of `CurlSource` that return, with fairness.
4. The clock and ABR as operators; low-latency HLS in `SegmentTracker`.
5. `PlayerControl`: properties on the user's last intent (Start and Pause that race with
   preparation) and on `isSeeking()` left set after the seek ended.
