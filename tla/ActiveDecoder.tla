--------------------------- MODULE ActiveDecoder ---------------------------
(***************************************************************************)
(* framework/codec/ActiveDecoder.cpp: the queues and the thread around a   *)
(* codec, driven by the player's main thread through SMPAVDeviceManager    *)
(* (send_packet, getFrame, flush, invalidate and reuse) and by the         *)
(* application going to the background and back (holdOn).                  *)
(*                                                                         *)
(* The decode thread is a WorkerThread: decode_func() is called again and  *)
(* again, and pause() returns when no call is in progress.  The codec      *)
(* (avcodec, a platform decoder) takes packets in order, gives a frame for *)
(* each in order, may keep some, and gives all of them after a null packet.*)
(***************************************************************************)
EXTENDS Integers, Sequences

CONSTANTS
    maxInQueueSize,    \* 16
    maxOutQueueSize,   \* 10
    MAX_INPUT_SIZE,    \* 600: what mInputQueue can hold
    CodecSize,         \* packets the codec keeps at most
    MaxPackets,        \* bound: packets the player sends between two flushes
    MaxEpochs          \* bound: flushes and invalidations

ASSUME SizesAssumption ==
    /\ maxInQueueSize \in Nat \ {0}
    /\ maxOutQueueSize \in Nat \ {0}
    /\ MAX_INPUT_SIZE \in Nat
    /\ maxInQueueSize <= MAX_INPUT_SIZE
    /\ CodecSize \in Nat \ {0}
ASSUME BoundsAssumption == MaxPackets \in Nat /\ MaxEpochs \in Nat

VARIABLES
    mInputQueue,
    mOutputQueue,
    mHoldingQueue,
    codec,             \* packets in the codec
    hand,              \* the frame that extract_decoder() is about to push
    mRunning,
    bInputEOS,
    bSendEOS2Decoder,
    bDecoderEOS,
    bHolding,
    bNeedKeyFrame,
    mMutex,            \* holdOn() holds it
    mode, busy,        \* the decode thread
    parkWanted,        \* prePause() was called: the thread parks itself
    dpc,               \* where it is in decode_func()
    extracting,        \* what it does when extract_decoder() returns
    valid,             \* DecoderHandle::valid
    apc,               \* where the main thread is
    wasRunning,        \* flush(): the local variable running
    sent,              \* packets sent since the player last started anew
    epoch,             \* history: how often it started anew
    owed,              \* history: packets accepted whose frame is not out yet
    held,              \* history: holdOn() was called since
    fresh,             \* history: the codec got no packet since it was flushed
    cut,               \* history: extraction stopped short after the end was declared
    eosSeen            \* the player was told STATUS_EOS

queueVars == <<mInputQueue, mOutputQueue, mHoldingQueue, codec, hand>>
eosVars == <<bInputEOS, bSendEOS2Decoder, bDecoderEOS>>
threadVars == <<mode, busy, parkWanted, dpc, extracting>>
playerVars == <<valid, apc, wasRunning, sent, epoch>>
historyVars == <<owed, held, fresh, cut, eosSeen>>
flagVars == <<mRunning, bHolding, bNeedKeyFrame, mMutex>>
vars == <<queueVars, eosVars, threadVars, playerVars, historyVars, flagVars>>

DecodeThread == INSTANCE WorkerThread

InCodec == {"dequeue", "enqueue", "enqueueEos"}
DecodeSteps == InCodec \cup {"idle", "loop", "extract", "push", "chkInputEos", "chkEmpty", "end"}
PlayerSteps == {"idle", "chkEos", "flushPause", "reusePause", "holdPause"}

Packet == [epoch : 0 .. MaxEpochs, n : 1 .. MaxPackets, key : BOOLEAN]

Init ==
    /\ mInputQueue = <<>> /\ mOutputQueue = <<>> /\ mHoldingQueue = <<>>
    /\ codec = <<>> /\ hand = <<>>
    /\ mRunning = TRUE
    /\ bInputEOS = FALSE /\ bSendEOS2Decoder = FALSE /\ bDecoderEOS = FALSE
    /\ bHolding = FALSE
    /\ bNeedKeyFrame = TRUE
    /\ mMutex = FALSE
    /\ mode = "running" /\ busy = FALSE
    /\ parkWanted = FALSE
    /\ dpc = "idle" /\ extracting = "end"
    /\ valid = TRUE
    /\ apc = "idle" /\ wasRunning = FALSE
    /\ sent = 0 /\ epoch = 0
    /\ owed = {} /\ held = FALSE /\ fresh = TRUE /\ cut = FALSE
    /\ eosSeen = FALSE

-----------------------------------------------------------------------------
(***************************************************************************)
(* decode_func()                                                           *)
(***************************************************************************)
keepInCall == <<mode, busy, parkWanted>>

DBegin ==
    /\ DecodeThread!Begin
    /\ dpc' = IF bDecoderEOS THEN "end" ELSE "loop"
    /\ UNCHANGED <<queueVars, eosVars, playerVars, historyVars, flagVars, parkWanted, extracting>>

DEnd ==
    /\ dpc = "end"
    /\ DecodeThread!End
    /\ dpc' = "idle"
    /\ UNCHANGED <<queueVars, eosVars, playerVars, historyVars, flagVars, parkWanted, extracting>>

(* The thread parks itself between two calls, when prePause() asked for it.*)
DPark ==
    /\ parkWanted
    /\ DecodeThread!Park
    /\ parkWanted' = FALSE
    /\ UNCHANGED <<queueVars, eosVars, playerVars, historyVars, flagVars, dpc, extracting>>

DLoop ==
    /\ dpc = "loop"
    /\ IF mInputQueue # <<>> /\ Len(mOutputQueue) < maxOutQueueSize /\ mRunning
       THEN dpc' = "extract" /\ extracting' = "enqueue"
       ELSE dpc' = "chkInputEos" /\ UNCHANGED extracting
    /\ UNCHANGED <<queueVars, eosVars, playerVars, historyVars, flagVars, keepInCall>>

(* extract_decoder(): until the output is full or the codec gives nothing. *)
DExtract ==
    LET goesOn == Len(mOutputQueue) < maxOutQueueSize /\ mRunning IN
    /\ dpc = "extract"
    /\ dpc' = IF goesOn THEN "dequeue" ELSE extracting
    /\ cut' = (cut \/ (bDecoderEOS /\ ~ goesOn))
    /\ UNCHANGED <<queueVars, eosVars, playerVars, owed, held, fresh, eosSeen, flagVars,
                   keepInCall, extracting>>

(* dequeue_decoder(): a frame, nothing yet (-EAGAIN), or STATUS_EOS.       *)
DDequeue ==
    /\ dpc = "dequeue"
    /\ \/ /\ codec # <<>>
          /\ hand' = <<Head(codec)>>
          /\ codec' = Tail(codec)
          /\ dpc' = "push"
          /\ UNCHANGED bDecoderEOS
       \/ /\ Len(codec) < CodecSize
          /\ bSendEOS2Decoder => codec = <<>>
          /\ bDecoderEOS' = (bDecoderEOS \/ bSendEOS2Decoder)
          /\ dpc' = extracting
          /\ UNCHANGED <<hand, codec>>
    /\ UNCHANGED <<mInputQueue, mOutputQueue, mHoldingQueue, bInputEOS, bSendEOS2Decoder,
                   playerVars, historyVars, flagVars, keepInCall, extracting>>

DPush ==
    /\ dpc = "push"
    /\ ~ mMutex
    /\ mOutputQueue' = mOutputQueue \o hand
    /\ hand' = <<>>
    /\ dpc' = "extract"
    /\ UNCHANGED <<mInputQueue, mHoldingQueue, codec, eosVars,
                   playerVars, historyVars, flagVars, keepInCall, extracting>>

(* What the codecs answer a packet: taken; refused for now; or failed.     *)
(* decode_func() would take STATUS_EOS for an answer too: none gives it.   *)
PacketAnswers ==
    {"error"} \cup (IF Len(codec) = CodecSize THEN {"EAGAIN"} ELSE {})
              \cup (IF Len(codec) < CodecSize /\ ~ bSendEOS2Decoder THEN {"ok"} ELSE {})

(* A mutant: the packet stays although the codec took it.                  *)
DEnqueueKeep ==
    /\ dpc = "enqueue"
    /\ \E answer \in PacketAnswers :
        codec' = IF answer = "ok" THEN Append(codec, Head(mInputQueue)) ELSE codec
    /\ fresh' = FALSE
    /\ dpc' = "loop"
    /\ UNCHANGED <<mInputQueue, mOutputQueue, mHoldingQueue, hand, eosVars, playerVars, flagVars,
                   owed, held, cut, eosSeen, keepInCall, extracting>>

(* enqueue_decoder() of the first packet, which stays when it is refused   *)
(* for now.  After the null packet the codec ignores it.                   *)
DEnqueue ==
    LET p == Head(mInputQueue) IN
    /\ dpc = "enqueue"
    /\ \E answer \in PacketAnswers :
        /\ mInputQueue' = IF answer = "EAGAIN" THEN mInputQueue ELSE Tail(mInputQueue)
        /\ codec' = IF answer = "ok" THEN Append(codec, p) ELSE codec
        /\ owed' = IF answer = "error" THEN owed \ {p} ELSE owed
        /\ fresh' = (fresh /\ answer = "EAGAIN")
        /\ bDecoderEOS' = (bDecoderEOS \/ answer = "STATUS_EOS")
    /\ dpc' = "loop"
    /\ UNCHANGED <<mOutputQueue, mHoldingQueue, hand, bInputEOS, bSendEOS2Decoder, playerVars,
                   flagVars, held, cut, eosSeen, keepInCall, extracting>>

(* if (bInputEOS && mInputQueue.empty()): two reads, while packets and the *)
(* null packet may be sent.                                                *)
DCheckInputEos ==
    /\ dpc = "chkInputEos"
    /\ dpc' = IF bInputEOS THEN "chkEmpty" ELSE "end"
    /\ UNCHANGED <<queueVars, eosVars, playerVars, historyVars, flagVars, keepInCall, extracting>>

(* A mutant: the end is passed on without looking at the input.            *)
DSkipCheckEmpty ==
    /\ dpc = "chkEmpty"
    /\ dpc' = IF bSendEOS2Decoder THEN "extract" ELSE "enqueueEos"
    /\ extracting' = "end"
    /\ UNCHANGED <<queueVars, eosVars, playerVars, historyVars, flagVars, keepInCall>>

DCheckEmpty ==
    /\ dpc = "chkEmpty"
    /\ dpc' = IF mInputQueue # <<>> THEN "end"
              ELSE IF bSendEOS2Decoder THEN "extract" ELSE "enqueueEos"
    /\ extracting' = "end"
    /\ UNCHANGED <<queueVars, eosVars, playerVars, historyVars, flagVars, keepInCall>>

(* What the codecs answer the null packet: taken, or refused while they are*)
(* full; or, from AFVTBDecoder, always STATUS_EOS, with the frames that it *)
(* reorders still to be dequeued.                                          *)
NullAnswers == {IF Len(codec) < CodecSize THEN "ok" ELSE "EAGAIN", "STATUS_EOS"}

(* A mutant: nothing is extracted after the null packet.                   *)
DEnqueueEosOnly ==
    /\ dpc = "enqueueEos"
    /\ \E answer \in NullAnswers :
        /\ bSendEOS2Decoder' = (answer # "EAGAIN")
        /\ bDecoderEOS' = (bDecoderEOS \/ answer = "STATUS_EOS")
    /\ dpc' = "end"
    /\ UNCHANGED <<queueVars, bInputEOS, playerVars, historyVars, flagVars, keepInCall, extracting>>

(* enqueue_decoder() of the null packet, then extract_decoder().           *)
DEnqueueEos ==
    /\ dpc = "enqueueEos"
    /\ \E answer \in NullAnswers :
        /\ bSendEOS2Decoder' = (answer # "EAGAIN")
        /\ bDecoderEOS' = (bDecoderEOS \/ answer = "STATUS_EOS")
    /\ dpc' = "extract"
    /\ UNCHANGED <<queueVars, bInputEOS, playerVars, historyVars, flagVars, keepInCall, extracting>>

DecodeFunc ==
    \/ DBegin \/ DLoop \/ DExtract \/ DDequeue \/ DPush \/ DEnqueue
    \/ DCheckInputEos \/ DCheckEmpty \/ DEnqueueEos \/ DEnd

-----------------------------------------------------------------------------
(***************************************************************************)
(* The main thread: packets and frames                                     *)
(***************************************************************************)
keepDecoding == <<hand, threadVars, mRunning, mMutex, bHolding,
                  bSendEOS2Decoder, bDecoderEOS>>

NewPacket(key) == [epoch |-> epoch, n |-> sent + 1, key |-> key]

MaySend ==
    /\ apc = "idle" /\ valid /\ ~ bInputEOS
    /\ sent < MaxPackets

(* needDrop(): until the first key after a flush.                          *)
DropPacket ==
    /\ MaySend
    /\ bNeedKeyFrame
    /\ sent' = sent + 1
    /\ UNCHANGED <<queueVars, eosVars, threadVars, historyVars, flagVars,
                   valid, apc, wasRunning, epoch>>

(* When a queue is full (STATUS_RETRY_IN) the player keeps the packet.     *)
SendPacket(key) ==
    /\ MaySend
    /\ bNeedKeyFrame => key
    /\ ~ bHolding
    /\ Len(mInputQueue) < maxInQueueSize /\ Len(mOutputQueue) < maxOutQueueSize
    /\ mInputQueue' = Append(mInputQueue, NewPacket(key))
    /\ owed' = owed \cup {NewPacket(key)}
    /\ bNeedKeyFrame' = FALSE
    /\ sent' = sent + 1
    /\ UNCHANGED <<mOutputQueue, mHoldingQueue, codec, bInputEOS, keepDecoding,
                   held, fresh, cut, eosSeen, valid, apc, wasRunning, epoch>>

(* A mutant: what is held before the key is kept.                          *)
HoldPacketToo(key) ==
    /\ MaySend
    /\ bNeedKeyFrame => key
    /\ bHolding
    /\ mHoldingQueue' = Append(mHoldingQueue, NewPacket(key))
    /\ codec' = IF key THEN <<>> ELSE codec
    /\ fresh' = (fresh \/ key)
    /\ bNeedKeyFrame' = FALSE
    /\ sent' = sent + 1
    /\ UNCHANGED <<mInputQueue, mOutputQueue, bInputEOS, keepDecoding,
                   owed, held, cut, eosSeen, valid, apc, wasRunning, epoch>>

(* While holding, a key replaces all that is held, and flushes the codec.  *)
HoldPacket(key) ==
    /\ MaySend
    /\ bNeedKeyFrame => key
    /\ bHolding
    /\ mHoldingQueue' = Append(IF key THEN <<>> ELSE mHoldingQueue, NewPacket(key))
    /\ codec' = IF key THEN <<>> ELSE codec
    /\ fresh' = (fresh \/ key)
    /\ bNeedKeyFrame' = FALSE
    /\ sent' = sent + 1
    /\ UNCHANGED <<mInputQueue, mOutputQueue, bInputEOS, keepDecoding,
                   owed, held, cut, eosSeen, valid, apc, wasRunning, epoch>>

(* The null packet: the stream has no more.                                *)
SendEos ==
    /\ apc = "idle" /\ valid /\ ~ bInputEOS
    /\ bInputEOS' = TRUE
    /\ UNCHANGED <<queueVars, keepDecoding, bNeedKeyFrame, playerVars, historyVars>>

(* getFrame(): the queue is looked at first, then bDecoderEOS.             *)
GetFrame ==
    /\ apc = "idle" /\ valid /\ ~ eosSeen
    /\ IF mOutputQueue # <<>>
       THEN /\ mOutputQueue' = Tail(mOutputQueue)
            /\ owed' = owed \ {Head(mOutputQueue)}
            /\ UNCHANGED apc
       ELSE /\ apc' = "chkEos"
            /\ UNCHANGED <<mOutputQueue, owed>>
    /\ UNCHANGED <<mInputQueue, mHoldingQueue, codec, bInputEOS, keepDecoding, bNeedKeyFrame,
                   held, fresh, cut, eosSeen, valid, wasRunning, sent, epoch>>

GetFrameEos ==
    /\ apc = "chkEos"
    /\ eosSeen' = bDecoderEOS
    /\ apc' = "idle"
    /\ UNCHANGED <<queueVars, eosVars, threadVars, flagVars,
                   owed, held, fresh, cut, valid, wasRunning, sent, epoch>>

-----------------------------------------------------------------------------
(***************************************************************************)
(* The main thread: flush, invalidate and reuse, hold.  pause() asks the   *)
(* thread to park and waits for it.                                        *)
(***************************************************************************)
Asked == parkWanted' = (mode = "running")

FlushDevice ==
    /\ apc = "idle" /\ valid
    /\ epoch < MaxEpochs
    /\ wasRunning' = (mode = "running")
    /\ mRunning' = FALSE
    /\ Asked
    /\ apc' = "flushPause"
    /\ epoch' = epoch + 1 /\ sent' = 0
    /\ owed' = {} /\ eosSeen' = FALSE
    /\ UNCHANGED <<queueVars, eosVars, mode, busy, dpc, extracting, bHolding, bNeedKeyFrame,
                   mMutex, valid, held, fresh, cut>>

(* All that flush() empties and resets.                                    *)
Flushed ==
    /\ mInputQueue' = <<>> /\ mOutputQueue' = <<>> /\ mHoldingQueue' = <<>>
    /\ codec' = <<>>
    /\ bInputEOS' = FALSE /\ bDecoderEOS' = FALSE /\ bSendEOS2Decoder' = FALSE
    /\ bNeedKeyFrame' = TRUE
    /\ fresh' = TRUE /\ cut' = FALSE
    /\ UNCHANGED hand

Parked == mode # "running"

(* A mutant: whether it was running is looked at when it is parked.        *)
FlushLate ==
    /\ apc = "flushPause" /\ Parked
    /\ Flushed
    /\ held' = bHolding
    /\ apc' = "idle"
    /\ UNCHANGED <<threadVars, mRunning, bHolding, mMutex, valid, wasRunning, sent, epoch,
                   owed, eosSeen>>

Flush ==
    /\ apc = "flushPause" /\ Parked
    /\ Flushed
    /\ mRunning' = (mRunning \/ wasRunning)
    /\ IF wasRunning THEN DecodeThread!Start /\ parkWanted' = FALSE
                     ELSE UNCHANGED <<mode, busy, parkWanted>>
    /\ held' = bHolding
    /\ apc' = "idle"
    /\ UNCHANGED <<dpc, extracting, bHolding, mMutex, valid, wasRunning, sent, epoch,
                   owed, eosSeen>>

(* invalidDevices(): the thread parks when it can; nothing is emptied.     *)
Invalidate ==
    /\ apc = "idle" /\ valid
    /\ epoch < MaxEpochs
    /\ valid' = FALSE
    /\ mRunning' = FALSE
    /\ Asked
    /\ epoch' = epoch + 1 /\ sent' = 0
    /\ owed' = {} /\ eosSeen' = FALSE
    /\ UNCHANGED <<queueVars, eosVars, mode, busy, dpc, extracting, bHolding, bNeedKeyFrame,
                   mMutex, apc, wasRunning, held, fresh, cut>>

(* setUpDecoder(): the decoder of before, flushed; flush() asks the thread *)
(* to park once more.                                                      *)
SetUp ==
    /\ apc = "idle" /\ ~ valid
    /\ wasRunning' = (mode = "running")
    /\ mRunning' = FALSE
    /\ Asked
    /\ valid' = TRUE
    /\ apc' = "reusePause"
    /\ UNCHANGED <<queueVars, eosVars, mode, busy, dpc, extracting, bHolding, bNeedKeyFrame,
                   mMutex, sent, epoch, historyVars>>

(* A mutant: reused as it was.                                             *)
ReuseAsIs ==
    /\ apc = "reusePause" /\ Parked
    /\ mRunning' = TRUE
    /\ DecodeThread!Start /\ parkWanted' = FALSE
    /\ held' = bHolding
    /\ apc' = "idle"
    /\ UNCHANGED <<queueVars, eosVars, bNeedKeyFrame, fresh, cut, dpc, extracting, bHolding, mMutex,
                   valid, wasRunning, sent, epoch, owed, eosSeen>>

(* pause(false) after flush(); when the stream does not match, a decoder   *)
(* is made instead, which holds nothing.                                   *)
Reuse ==
    /\ apc = "reusePause" /\ Parked
    /\ Flushed
    /\ mRunning' = TRUE
    /\ DecodeThread!Start /\ parkWanted' = FALSE
    /\ \E matches \in BOOLEAN : bHolding' = (matches /\ bHolding)
    /\ held' = bHolding'
    /\ apc' = "idle"
    /\ UNCHANGED <<dpc, extracting, mMutex, valid, wasRunning, sent, epoch, owed, eosSeen>>

(* holdOn(true): mMutex is held until the thread is parked.                *)
HoldOn ==
    /\ apc = "idle"
    /\ ~ bHolding
    /\ mMutex' = TRUE
    /\ mRunning' = FALSE
    /\ Asked
    /\ held' = TRUE
    /\ apc' = "holdPause"
    /\ UNCHANGED <<queueVars, eosVars, mode, busy, dpc, extracting, bHolding, bNeedKeyFrame,
                   valid, wasRunning, sent, epoch, owed, fresh, cut, eosSeen>>

(* A mutant: the lock is kept.                                             *)
HoldLocked ==
    /\ apc = "holdPause" /\ Parked
    /\ mHoldingQueue' = mHoldingQueue \o mInputQueue
    /\ mInputQueue' = <<>> /\ mOutputQueue' = <<>>
    /\ bHolding' = TRUE
    /\ mRunning' = TRUE
    /\ DecodeThread!Start /\ parkWanted' = FALSE
    /\ apc' = "idle"
    /\ UNCHANGED <<codec, hand, eosVars, dpc, extracting, bNeedKeyFrame, mMutex,
                   valid, wasRunning, sent, epoch, historyVars>>

(* A mutant: it does not wait for the thread.                              *)
HoldAtOnce ==
    /\ apc = "holdPause"
    /\ mHoldingQueue' = mHoldingQueue \o mInputQueue
    /\ mInputQueue' = <<>> /\ mOutputQueue' = <<>>
    /\ bHolding' = TRUE
    /\ mRunning' = TRUE
    /\ mMutex' = FALSE
    /\ DecodeThread!Start /\ parkWanted' = FALSE
    /\ apc' = "idle"
    /\ UNCHANGED <<codec, hand, eosVars, dpc, extracting, bNeedKeyFrame,
                   valid, wasRunning, sent, epoch, historyVars>>

Hold ==
    /\ apc = "holdPause" /\ Parked
    /\ mHoldingQueue' = mHoldingQueue \o mInputQueue
    /\ mInputQueue' = <<>> /\ mOutputQueue' = <<>>
    /\ bHolding' = TRUE
    /\ mRunning' = TRUE
    /\ mMutex' = FALSE
    /\ DecodeThread!Start /\ parkWanted' = FALSE
    /\ apc' = "idle"
    /\ UNCHANGED <<codec, hand, eosVars, dpc, extracting, bNeedKeyFrame,
                   valid, wasRunning, sent, epoch, historyVars>>

(* holdOn(false): what is held is sent at once, what has no room is lost.  *)
Resume ==
    LET all == mInputQueue \o mHoldingQueue IN
    /\ apc = "idle"
    /\ bHolding
    /\ mInputQueue' = SubSeq(all, 1, IF Len(all) > MAX_INPUT_SIZE THEN MAX_INPUT_SIZE ELSE Len(all))
    /\ mHoldingQueue' = <<>>
    /\ bHolding' = FALSE
    /\ mRunning' = TRUE
    /\ DecodeThread!Start /\ parkWanted' = FALSE
    /\ UNCHANGED <<mOutputQueue, codec, hand, eosVars, dpc, extracting, bNeedKeyFrame, mMutex,
                   playerVars, historyVars>>

-----------------------------------------------------------------------------
PlayerContinues == GetFrameEos \/ Flush \/ Reuse \/ Hold

Next ==
    \/ DecodeFunc \/ DPark
    \/ DropPacket
    \/ \E key \in BOOLEAN : SendPacket(key) \/ HoldPacket(key)
    \/ SendEos \/ GetFrame \/ PlayerContinues
    \/ FlushDevice \/ Invalidate \/ SetUp \/ HoldOn \/ Resume

Spec == Init /\ [][Next]_vars

(* The decode thread runs, it looks between two calls whether it is to     *)
(* park (one more call may begin before it does), pause() returns when it  *)
(* is parked, and the player asks for frames.                              *)
FairSpec ==
    /\ Spec
    /\ WF_vars(DecodeFunc)
    /\ SF_vars(DPark)
    /\ WF_vars(GetFrame)
    /\ WF_vars(PlayerContinues)

-----------------------------------------------------------------------------
(***************************************************************************)
(* Properties                                                              *)
(***************************************************************************)

Flags == {mRunning, bInputEOS, bSendEOS2Decoder, bDecoderEOS, bHolding, bNeedKeyFrame,
          mMutex, busy, parkWanted, valid, wasRunning, held, fresh, cut, eosSeen}

(* The queues hold what they may hold: the output never more than the      *)
(* decode thread leaves room for, the input no more than what was held.    *)
TypeOK ==
    /\ mInputQueue \in Seq(Packet) /\ Len(mInputQueue) <= MAX_INPUT_SIZE
    /\ mOutputQueue \in Seq(Packet) /\ Len(mOutputQueue) <= maxOutQueueSize
    /\ mHoldingQueue \in Seq(Packet)
    /\ codec \in Seq(Packet) /\ Len(codec) <= CodecSize
    /\ hand \in Seq(Packet) /\ Len(hand) <= 1
    /\ Flags \subseteq BOOLEAN
    /\ mode \in {"running", "parked"}
    /\ dpc \in DecodeSteps /\ extracting \in {"enqueue", "end"}
    /\ apc \in PlayerSteps
    /\ sent \in 0 .. MaxPackets /\ epoch \in 0 .. MaxEpochs
    /\ owed \subseteq Packet

Flushing == apc \in {"flushPause", "reusePause"}

Elements(q) == {q[i] : i \in DOMAIN q}

(* Nothing that was sent before a flush or before the decoder was given    *)
(* back is anywhere in it once the player uses it again: not a frame that  *)
(* the decode thread was about to push when flush() emptied the queues.    *)
NoStaleFrame ==
    valid /\ ~ Flushing =>
        \A q \in {mInputQueue, mHoldingQueue, codec, hand, mOutputQueue} :
            \A p \in Elements(q) : p.epoch = epoch

(* A key that comes while holding makes the main thread flush the codec:   *)
(* the decode thread, which runs then too, is not in the codec.            *)
FlushAlone ==
    apc = "idle" /\ valid /\ bHolding /\ ~ bInputEOS => dpc \notin InCodec

(* Every packet that was accepted and whose frame the player did not get   *)
(* is in one of the queues, in the codec or on its way, and only once.     *)
Conservation ==
    valid /\ ~ Flushing /\ ~ held =>
        LET all == mOutputQueue \o hand \o codec \o mInputQueue IN
        /\ Elements(all) = owed
        /\ \A i, j \in DOMAIN all : i < j => all[i].n < all[j].n

(* When the end of the stream is declared no packet is in the input, and   *)
(* what is in the codec is being extracted: it is in the output when       *)
(* extract_decoder() returns.  What remains in the codec for good is what  *)
(* a codec that declares the end early still had when the output was full, *)
(* or when the player stopped the thread.                                  *)
Extracting == dpc \in {"extract", "dequeue", "push"}

EosDrained ==
    bDecoderEOS /\ ~ held =>
        /\ mInputQueue = <<>>
        /\ (codec = <<>> /\ hand = <<>>) \/ (Extracting /\ extracting = "end") \/ cut

(* After a flush the first packet that the codec gets is a key: through    *)
(* needDrop(), and through what is held when the application comes back.   *)
DecodesFromKey ==
    fresh /\ mInputQueue # <<>> => Head(mInputQueue).key

(* The two threads block each other in one case only: holdOn(true) waits,  *)
(* with mMutex, for a thread that waits for mMutex to push a frame.        *)
HoldBlocks == apc = "holdPause" /\ dpc = "push"
OnlyHoldBlocks == ENABLED Next \/ HoldBlocks

(* The player that sent the null packet is told the end of the stream,     *)
(* unless it flushes, gives the decoder back or holds.                     *)
EosArrives ==
    valid /\ bInputEOS /\ ~ bHolding
        ~> eosSeen \/ ~ bInputEOS \/ ~ valid \/ bHolding \/ Flushing \/ HoldBlocks

-----------------------------------------------------------------------------
(* The strengthening that the proofs need.                                 *)
(* What the decode thread does next is for the first packet, or for the    *)
(* null packet; for that one it has seen bInputEOS, then an empty input.   *)
ForPacket == dpc = "enqueue" \/ (Extracting /\ extracting = "enqueue")
PastInput == dpc = "enqueueEos" \/ (Extracting /\ extracting = "end")

(* Where the two threads can be, and what they have with them there.       *)
Places ==
    /\ busy <=> dpc # "idle"
    /\ busy => mode = "running"
    /\ hand # <<>> => dpc = "push"
    /\ ForPacket => mInputQueue # <<>>
    /\ dpc \in {"dequeue", "push"} => Len(mOutputQueue) < maxOutQueueSize
    /\ apc = "holdPause" => ~ bHolding /\ held
    /\ bHolding => mInputQueue = <<>> /\ held
    /\ apc \in {"chkEos", "flushPause", "reusePause"} => valid

(* The steps of the end of the stream come in order, and none is undone    *)
(* while the decode thread is in a call.                                   *)
EosInOrder ==
    /\ dpc = "chkEmpty" \/ PastInput => bInputEOS
    /\ dpc = "enqueueEos" => extracting = "end" /\ ~ bSendEOS2Decoder
    /\ bSendEOS2Decoder => bInputEOS
    /\ bDecoderEOS => bSendEOS2Decoder
    /\ ~ held /\ (PastInput \/ bSendEOS2Decoder) => mInputQueue = <<>>

(* A key that was accepted since the codec was flushed is the first packet *)
(* in line, held or not; held packets go back to the input in their order. *)
KeyInLine ==
    LET line == IF bHolding THEN mHoldingQueue ELSE mInputQueue IN
    /\ ~ bHolding => mHoldingQueue = <<>>
    /\ bNeedKeyFrame => mInputQueue = <<>> /\ mHoldingQueue = <<>>
    /\ fresh /\ ~ bNeedKeyFrame => line # <<>> /\ Head(line).key

(* What is owed is on its way, in the order in which it was sent: the      *)
(* condition on the whole way in terms of its four parts.                  *)
InOrder(q) == \A i, j \in DOMAIN q : i < j => q[i].n < q[j].n
Before(q, r) == \A a \in Elements(q), b \in Elements(r) : a.n < b.n

OnItsWay ==
    /\ owed = Elements(mOutputQueue) \cup Elements(hand) \cup Elements(codec) \cup Elements(mInputQueue)
    /\ \A p \in owed : p.n <= sent
    /\ InOrder(mOutputQueue) /\ InOrder(hand) /\ InOrder(codec) /\ InOrder(mInputQueue)
    /\ Before(mOutputQueue, hand) /\ Before(mOutputQueue, codec) /\ Before(mOutputQueue, mInputQueue)
    /\ Before(hand, codec) /\ Before(hand, mInputQueue) /\ Before(codec, mInputQueue)

Owing ==
    /\ Flushing \/ ~ valid => owed = {}
    /\ valid /\ ~ Flushing /\ ~ held => OnItsWay
=============================================================================
