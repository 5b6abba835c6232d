-------------------------- MODULE BufferController --------------------------
(***************************************************************************)
(* mediaPlayer/buffer_controller.cpp and the functions of SuperMediaPlayer *)
(* that fill, empty and reposition its queues: reading packets from the    *)
(* demuxer, handing them to the decoders, seeking in the cache, dropping   *)
(* what is late, switching streams and stopping.                           *)
(*                                                                         *)
(* They all run on the main thread or with it parked, one at a time; only  *)
(* setting the option "maxBackwardBufferDuration" is another thread's, and *)
(* SeekTo(), which writes mSeekPos and mSeekNeedCatch.                     *)
(* Of the demuxer it is assumed that every packet before a key is earlier  *)
(* than it and every packet after it later (closed groups of pictures),    *)
(* and that after a seek it goes on from a key.                            *)
(***************************************************************************)
EXTENDS MediaPacketQueue

CONSTANTS
    Media,              \* streams of packets: [{"video", "audio"} -> Seq(Packet)]
    BackwardDurations,  \* values of the option maxBackwardBufferDuration
    Positions,          \* positions the application seeks to
    FrameDuration,      \* the duration of a decoded audio frame
    SwitchAhead,        \* packets needed before a seamless point (40)
    MaxASeekDelta,      \* maxASeekDelta: how far a seek may catch up
    NearEnd,            \* mDuration less 200 ms
    OpenExtra           \* extra data a video stream is opened with

ASSUME BackwardAssumption == BackwardDurations \subseteq Nat
ASSUME PositionsAssumption == Positions \subseteq Nat
ASSUME FrameAssumption == FrameDuration \in Nat \ {0}
ASSUME SwitchAssumption == SwitchAhead \in Nat \ {0}
ASSUME AccurateAssumption == MaxASeekDelta \in Nat /\ NearEnd \in Nat
ASSUME OpenAssumption == OpenExtra \in Nat

Types == {"video", "audio"}

(* Packets come in the order they are decoded in, so their time positions  *)
(* may go back between one key or seamless point and the next (B-frames),  *)
(* not across it.                                                          *)
Divides(p) == p.key \/ p.seamlessPoint

InOrder(packets) ==
    \A i, j \in DOMAIN packets :
        i < j /\ (Divides(packets[i]) \/ Divides(packets[j]))
            => packets[i].timePosition < packets[j].timePosition

ASSUME MediaAssumption ==
    \A m \in Media : m \in [Types -> Seq(Packet)] /\ \A t \in Types : InOrder(m[t])

VARIABLES
    media,         \* the source that plays
    stream,        \* history: media less what was discarded since ClearQueue()
    queue,         \* mVideoPacketQueue, mAudioPacketQueue
    next,          \* the packet of stream that the demuxer reads next
    mCurrentPos,
    mSoughtVideoPos,
    mSeekFlag,
    catch,         \* mSeekPos if mSeekNeedCatch, else NoPosition
    audioChanged,  \* mAudioChangedFirstPts is INT64_MAX
    extraAdded,    \* history: the extra data added last since ClearQueue()
    extraOut       \* history: the extra data handed to the decoder last

seekVars == <<mSeekFlag, catch, audioChanged>>
extraVars == <<extraAdded, extraOut>>
vars == <<media, stream, queue, next, mCurrentPos, mSoughtVideoPos, seekVars, extraVars>>

Has(type) == media[type] # <<>>

(* The stream that positions are looked up in.                             *)
Main == IF Has("video") THEN "video" ELSE "audio"

Init ==
    /\ media \in Media
    /\ stream = media
    /\ queue = [t \in Types |-> EmptyQueue]
    /\ next = [t \in Types |-> 1]
    /\ mCurrentPos = 0
    /\ mSoughtVideoPos = NoPosition
    /\ mSeekFlag = FALSE /\ catch = NoPosition /\ audioChanged = FALSE
    /\ extraAdded = [t \in Types |-> NoExtra]
    /\ extraOut = [t \in Types |-> NoExtra]

-----------------------------------------------------------------------------
(* ReadPacket(): the packet the demuxer hands out.  One that is far before *)
(* the position of an accurate seek ends the catching up.                  *)
PacketRead(type) == stream[type][next[type]]

CatchAfter(p) ==
    IF mSeekFlag /\ p.timePosition < catch - MaxASeekDelta THEN NoPosition ELSE catch

NeedDrop(p) ==
    /\ mSeekFlag
    /\ p.timePosition < CatchAfter(p)
    /\ p.timePosition < NearEnd

(* The extra data of a video stream's meta: what it was opened with, or    *)
(* that of a packet the demuxer has read, which reads ahead.               *)
MetaExtras ==
    {OpenExtra} \cup ({media["video"][i].extra : i \in DOMAIN media["video"]} \ {NoExtra})

(* What a video packet is given of it: the first packet after a seek, if   *)
(* it is a key, and the first of another quality, which is a key.          *)
ExtrasGiven(type, p) ==
    CASE type # "video" \/ ~ p.key -> {NoExtra}
      [] mSoughtVideoPos = NoPosition -> MetaExtras
      [] OTHER -> MetaExtras \cup {NoExtra}

WithExtra(p, extra) == [p EXCEPT !.extra = IF extra = NoExtra THEN @ ELSE extra]

AddPacketOf(type) ==
    LET p == PacketRead(type) IN
    /\ next[type] <= Len(stream[type])
    /\ type = "audio" => ~ NeedDrop(p)
    /\ next' = [next EXCEPT ![type] = @ + 1]
    /\ catch' = CatchAfter(p)
    /\ audioChanged' = (audioChanged /\ type # "audio")
    /\ mSoughtVideoPos' =
           IF type # "video" \/ mSoughtVideoPos # NoPosition THEN mSoughtVideoPos
           ELSE IF catch' # NoPosition THEN catch' ELSE p.timePosition
    /\ \E extra \in ExtrasGiven(type, p) :
           LET added == WithExtra(p, extra) IN
           /\ queue' = [queue EXCEPT ![type] = AddPacket(@, added)]
           /\ extraAdded' = [extraAdded EXCEPT ![type] =
                               IF added.extra = NoExtra THEN @ ELSE added.extra]
    /\ UNCHANGED <<media, stream, mCurrentPos, mSeekFlag, extraOut>>

(* Audio before the position of an accurate seek, or after a switch before *)
(* what the clock says is played, is read and lost with its extra data.    *)
DiscardAudio ==
    LET p == PacketRead("audio") IN
    /\ next["audio"] <= Len(stream["audio"])
    /\ NeedDrop(p) \/ audioChanged
    /\ stream' = [stream EXCEPT !["audio"] = RemoveAt(@, next["audio"])]
    /\ catch' = CatchAfter(p)
    /\ UNCHANGED <<media, queue, next, mCurrentPos, mSoughtVideoPos,
                   mSeekFlag, audioChanged, extraVars>>

(* The current position follows the audio, as long as there is some.       *)
Leads(type) ==
    type = "audio" \/ ~ Has("audio") \/ (AtEnd(queue["audio"]) /\ next["audio"] > Len(stream["audio"]))

(* doDeCode() takes a packet.  Its position becomes the current one there  *)
(* or when its frame is rendered, or never, if it is flushed before.       *)
GetPacket(type) ==
    LET p == PacketTaken(queue[type]) IN
    /\ ~ AtEnd(queue[type])
    /\ queue' = [queue EXCEPT ![type] = Taken(@)]
    /\ extraOut' = [extraOut EXCEPT ![type] = IF p.extra = NoExtra THEN @ ELSE p.extra]
    /\ mCurrentPos' \in {mCurrentPos} \cup (IF Leads(type) THEN {p.timePosition} ELSE {})
    /\ UNCHANGED <<media, stream, next, mSoughtVideoPos, seekVars, extraAdded>>

(* DecodeAudio() learns the duration of a packet from a frame.             *)
LearnPacketDuration ==
    /\ DurationUnknown(queue["audio"])
    /\ queue' = [queue EXCEPT !["audio"] = SetOnePacketDuration(@, FrameDuration)]
    /\ UNCHANGED <<media, stream, next, mCurrentPos, mSoughtVideoPos, seekVars, extraVars>>

(* SetOption(): one queue after the other, on the application's thread.    *)
SetMaxBackward(type, duration) ==
    /\ duration # queue[type].mMAXBackwardDuration
    /\ queue' = [queue EXCEPT ![type] = SetMaxBackwardDuration(@, duration)]
    /\ UNCHANGED <<media, stream, next, mCurrentPos, mSoughtVideoPos, seekVars, extraVars>>

(* SeekTo(), on the application's thread: a position to catch up with, or  *)
(* none, before the message is handled.                                    *)
SeekTo(pos) ==
    /\ catch' \in {pos, NoPosition}
    /\ UNCHANGED <<media, stream, queue, next, mCurrentPos, mSoughtVideoPos,
                   mSeekFlag, audioChanged, extraVars>>

(* FillVideoFrame() has the frame, or the end, that was caught up with.    *)
CaughtUp ==
    /\ Has("video")
    /\ mSeekFlag
    /\ catch' = NoPosition
    /\ UNCHANGED <<media, stream, queue, next, mCurrentPos, mSoughtVideoPos,
                   mSeekFlag, audioChanged, extraVars>>

(* The first frame after a seek is rendered, or playing is completed.  The *)
(* position of a next seek that waits already stays.                       *)
EndSeek ==
    /\ mSeekFlag
    /\ mSeekFlag' = FALSE
    /\ catch' \in {catch, NoPosition}
    /\ mCurrentPos' \in {mCurrentPos} \cup ({mSoughtVideoPos} \ {NoPosition})
    /\ UNCHANGED <<media, stream, queue, next, mSoughtVideoPos, audioChanged, extraVars>>

-----------------------------------------------------------------------------
ClearBefore(queues, types, pos) ==
    [t \in Types |-> IF t \in types THEN ClearPacketBeforeTimePos(queues[t], pos) ELSE queues[t]]

(* The late audio in front of a video key that was sought.                 *)
CleanLateAudio ==
    /\ Has("video") /\ Has("audio")
    /\ mSoughtVideoPos > 0
    /\ queue' = ClearBefore(queue, {"audio"}, mSoughtVideoPos)
    /\ UNCHANGED <<media, stream, next, mCurrentPos, mSoughtVideoPos, seekVars, extraVars>>

(* A live stream that lags behind goes on from a later key.                *)
DropLate(pos) ==
    LET key == GetKeyTimePositionBefore(queue["video"], pos) IN
    /\ Has("video") /\ Has("audio")
    /\ \/ key # NoPosition
       \/ AtEnd(queue["video"])
    /\ queue' = ClearBefore(queue, Types, IF key = NoPosition THEN pos ELSE key)
    /\ UNCHANGED <<media, stream, next, mCurrentPos, mSoughtVideoPos, seekVars, extraVars>>

-----------------------------------------------------------------------------
(* SeekInCache(): the position it finds, and the queues it leaves.         *)
Present == {t \in Types : Has(t)}

BeyondLastFrame(pos) ==
    LET last == Min({GetLastTimePos(queue[t]) : t \in Present})
    IN  last > 0 /\ pos > last

SoughtBack(pos) == pos <= mCurrentPos

(* A mutant: only the queue of the main stream is rewound.                 *)
RewoundMain(pos) ==
    [t \in Types |-> IF SoughtBack(pos) /\ t = Main THEN Rewind(queue[t]) ELSE queue[t]]

RewoundFor(pos) ==
    [t \in Types |-> IF SoughtBack(pos) THEN Rewind(queue[t]) ELSE queue[t]]

BeforeFirstFrame(pos) ==
    LET first == Max({GetFirstTimePos(RewoundFor(pos)[t]) : t \in Present})
    IN  SoughtBack(pos) /\ first > 0 /\ pos < first

KeyBefore(pos) == GetKeyTimePositionBefore(RewoundFor(pos)[Main], pos)

SeekInCache(pos) ==
    /\ ~ BeyondLastFrame(pos)
    /\ ~ BeforeFirstFrame(pos)
    /\ KeyBefore(pos) # NoPosition

(* ProcessSeekToMsg() where the position is in the cache.  An accurate     *)
(* seek drops the audio in front of the position, unless the key is far    *)
(* from it.                                                                *)
KeyIsNear(queues, pos) ==
    LET key == GetKeyTimePositionBefore(queues["video"], pos)
    IN  key # NoPosition /\ key >= pos - MaxASeekDelta

SeekCached(pos) ==
    LET sought == ClearBefore(RewoundFor(pos), Types, KeyBefore(pos)) IN
    /\ mSeekFlag' = TRUE
    /\ UNCHANGED <<media, stream, next, mCurrentPos, audioChanged, extraVars>>
    /\ SeekInCache(pos)
    /\ \/ queue' = sought /\ catch' = NoPosition
       \/ /\ KeyIsNear(sought, pos)
          /\ queue' = ClearBefore(sought, {"audio"}, pos)
          /\ catch' = pos
    /\ mSoughtVideoPos' = KeyBefore(pos)

(* The packet of a stream at a position, or the first one after it.        *)
PacketAt(type, pos) ==
    Min({i \in DOMAIN media[type] : media[type][i].timePosition >= pos}
        \cup {Len(media[type]) + 1})

(* Where the demuxer goes on from after Seek(pos): the last key at or      *)
(* before pos, in every stream.                                            *)
SourceKey(pos) ==
    LET keys == {i \in DOMAIN media[Main] : /\ media[Main][i].key
                                            /\ media[Main][i].timePosition <= pos}
    IN  media[Main][IF keys = {} THEN 1 ELSE Max(keys)].timePosition

Cleared(types) ==
    /\ queue' = [t \in Types |-> IF t \in types THEN ClearQueue(queue[t]) ELSE queue[t]]
    /\ stream' = [t \in Types |-> IF t \in types THEN media'[t] ELSE stream[t]]
    /\ extraAdded' = [t \in Types |-> IF t \in types THEN NoExtra ELSE extraAdded[t]]
    /\ UNCHANGED extraOut

(* ProcessSeekToMsg() where it is not.                                     *)
SeekInSource(pos) ==
    /\ ~ SeekInCache(pos)
    /\ UNCHANGED <<media, mCurrentPos, audioChanged>>
    /\ Cleared(Types)
    /\ next' = [t \in Types |-> PacketAt(t, SourceKey(pos))]
    /\ mSoughtVideoPos' = NoPosition
    /\ mSeekFlag' = TRUE
    /\ catch' \in {pos, NoPosition}

ProcessSeekTo(pos) == SeekCached(pos) \/ SeekInSource(pos)

-----------------------------------------------------------------------------
(* SwitchVideo(): another quality of the same video goes on at the next    *)
(* seamless point, if that is far enough.  What is dropped is read again.  *)
SwitchVideo ==
    LET points == SeamlessPoints(queue["video"])
        first == Min(points)
        startTime == queue["video"].mQueue[first].timePosition
    IN  /\ points # {}
        /\ first - queue["video"].mCurrent >= SwitchAhead
        /\ queue' = [queue EXCEPT !["video"] = ClearPacketAfterTimePosition(@, startTime)]
        /\ next' = [next EXCEPT !["video"] = PacketAt("video", startTime)]
        /\ extraAdded' = [extraAdded EXCEPT !["video"] =
               IF \A i \in first .. Len(queue["video"].mQueue) : queue["video"].mQueue[i].extra = NoExtra
               THEN @ ELSE NoExtra]
        /\ UNCHANGED <<media, stream, mCurrentPos, mSoughtVideoPos, seekVars, extraOut>>

(* switchAudio(): the other language is read from the time that plays.     *)
SwitchAudio ==
    /\ Has("audio")
    /\ UNCHANGED <<media, mCurrentPos, mSoughtVideoPos, mSeekFlag, catch>>
    /\ Cleared({"audio"})
    /\ next' = [next EXCEPT !["audio"] = PacketAt("audio", mCurrentPos)]
    /\ audioChanged' = TRUE

(* Stop(), and the next source.                                            *)
Stop ==
    /\ media' \in Media
    /\ Cleared(Types)
    /\ next' = [t \in Types |-> 1]
    /\ mCurrentPos' = 0
    /\ mSoughtVideoPos' = NoPosition
    /\ mSeekFlag' = FALSE /\ catch' = NoPosition /\ audioChanged' = FALSE

Next ==
    \/ \E t \in Types : AddPacketOf(t) \/ GetPacket(t)
    \/ DiscardAudio \/ LearnPacketDuration
    \/ \E t \in Types, d \in BackwardDurations : SetMaxBackward(t, d)
    \/ CaughtUp \/ EndSeek \/ CleanLateAudio
    \/ \E pos \in Positions : SeekTo(pos) \/ DropLate(pos) \/ ProcessSeekTo(pos)
    \/ SwitchVideo \/ SwitchAudio \/ Stop

Spec == Init /\ [][Next]_vars

-----------------------------------------------------------------------------
TypeOK ==
    /\ media \in Media
    /\ queue \in [Types -> Queue]
    /\ \A t \in Types : queue[t].mCurrent \in 1 .. Len(queue[t].mQueue) + 1
    /\ next \in [Types -> Nat]
    /\ stream \in [Types -> Seq(Packet)]
    /\ \A t \in Types : next[t] \in 1 .. Len(stream[t]) + 1
    /\ extraAdded \in [Types -> Nat] /\ extraOut \in [Types -> Nat]
    /\ mCurrentPos \in Nat
    /\ mSoughtVideoPos \in Nat \cup {NoPosition}
    /\ mSeekFlag \in BOOLEAN /\ audioChanged \in BOOLEAN
    /\ catch \in Nat \cup {NoPosition}

(* After any sequence of adding, taking, dropping, trimming, rewinding and *)
(* learning durations, the two counters buffering is decided on are the    *)
(* durations of the packets ahead of the cursor and of all that are kept.  *)
(* media_packet_queue.cpp never recomputes them, and compares their        *)
(* difference, as an unsigned number, with the limit; without a limit it   *)
(* asserts that nothing is kept before the cursor.                         *)
NothingKept(q) == q.mTotalDuration = q.mDuration /\ q.mCurrent = 1
CountersMatch(q) ==
    /\ q.mDuration = CountedIn(SubSeq(q.mQueue, q.mCurrent, Len(q.mQueue)))
    /\ q.mTotalDuration = CountedIn(q.mQueue)
    /\ q.mMAXBackwardDuration = 0 => NothingKept(q)
DurationsMatch == \A t \in Types : CountersMatch(queue[t])

(* The assertion that getPacket() begins with.  It fails once the option   *)
(* is taken back to 0 while packets are kept: they stay, with the cursor   *)
(* behind them, and the oldest of them is taken next.                      *)
KeptOnlyWithinLimit ==
    [][\A t \in Types :
         GetPacket(t) /\ queue[t].mMAXBackwardDuration = 0 => NothingKept(queue[t])]_vars

(* The packets that are kept are consecutive packets of the stream, and    *)
(* the demuxer goes on with the one that follows: no seek, switch of the   *)
(* quality or trimming of the front leaves a gap or reads a packet twice.  *)
(* Video has no gap at all; of the audio only those packets are missing    *)
(* that ReadPacket() discards, in front of the position of an accurate     *)
(* seek or of what is played after a switch.                               *)
Alike(p, o) ==
    /\ p.timePosition = o.timePosition
    /\ p.key = o.key /\ p.seamlessPoint = o.seamlessPoint
Continues(q, packets, n) ==
    \A i \in DOMAIN q.mQueue :
        LET j == n - 1 - (Len(q.mQueue) - i) IN
        /\ j \in DOMAIN packets
        /\ Alike(q.mQueue[i], packets[j])
CacheIsContiguous ==
    /\ \A t \in Types : Continues(queue[t], stream[t], next[t])
    /\ stream["video"] = media["video"]

(* A seek in the cache of packets that are not all taken goes on from the  *)
(* last key at or before the position among all packets that are kept.     *)
SeekLandsOnKey ==
    [][\A pos \in Positions :
         SeekCached(pos) /\ ~ AtEnd(queue[Main]) =>
             LET q == queue'[Main] IN
             /\ ~ AtEnd(q)
             /\ Current(q).key /\ Current(q).timePosition <= pos
             /\ \A i \in DOMAIN q.mQueue :
                  q.mQueue[i].key /\ q.mQueue[i].timePosition <= pos => i <= q.mCurrent]_vars

(* A seek backwards in the cache finds the packets of every stream from    *)
(* the key on: none at or after the sought position is behind the cursor.  *)
SeekBackIsAligned ==
    [][\A pos \in Positions :
         SeekCached(pos) /\ SoughtBack(pos) =>
             \A t \in Types : \A i \in 1 .. queue'[t].mCurrent - 1 :
                 queue'[t].mQueue[i].timePosition < pos]_vars

(* As long as nothing is kept behind the cursor, the newest extra data     *)
(* (the decoder's parameters) that was added since the queue was cleared   *)
(* is never lost with the packets that are dropped from it: it was handed  *)
(* out, or it waits at a packet ahead or for the next one.  That of audio  *)
(* packets discarded before they are added is lost.                        *)
ExtraDataKept ==
    \A t \in Types :
        queue[t].mMAXBackwardDuration = 0 =>
            extraAdded[t] \in {NoExtra, extraOut[t], queue[t].mDropedExtra}
                            \cup {queue[t].mQueue[i].extra : i \in Ahead(queue[t])}

-----------------------------------------------------------------------------
(***************************************************************************)
(* The strengthening that the proofs need                                  *)
(***************************************************************************)

(* Where the newest extra data is, as long as nothing is kept: at the last *)
(* packet that has some, else it was dropped last, else handed out last.   *)
ExtraInLine(q, added, out) ==
    q.mMAXBackwardDuration = 0 =>
        /\ q.mDropedExtra # NoExtra => q.mQueue = <<>>
        /\ added # NoExtra =>
            /\ \A i \in DOMAIN q.mQueue :
                  /\ q.mQueue[i].extra # NoExtra
                  /\ \A j \in DOMAIN q.mQueue : j > i => q.mQueue[j].extra = NoExtra
                  => q.mQueue[i].extra = added
            /\ (\A i \in DOMAIN q.mQueue : q.mQueue[i].extra = NoExtra) =>
                  added = IF q.mDropedExtra # NoExtra THEN q.mDropedExtra ELSE out
ExtrasInLine == \A t \in Types : ExtraInLine(queue[t], extraAdded[t], extraOut[t])

(* What is left of the streams is in the order of the streams.             *)
StreamsInOrder == \A t \in Types : InOrder(stream[t])
=============================================================================
