--------------------------- MODULE PlayerControl ---------------------------
(***************************************************************************)
(* SuperMediaPlayer's control plane: API threads that put messages and     *)
(* write the shared flags, and the main thread whose function              *)
(* mainService() takes the messages that are not padded, handles them one  *)
(* by one and otherwise runs one pass of ProcessVideoLoop().               *)
(*                                                                         *)
(* The mailbox is MessageQueue; the main thread keeps the contract of      *)
(* WorkerThread: it is parked only between two calls of mainService().     *)
(*                                                                         *)
(* Media data is abstracted to what the control tests: how much is         *)
(* buffered in front of the decoders' output, whether a decoded frame      *)
(* waits to be rendered, and whether the demuxer has reported its end.     *)
(***************************************************************************)
EXTENDS MessageQueue

CONSTANTS
    Callers,     \* threads that call the API
    Positions,   \* positions the application seeks to
    None,        \* INT64_MIN: mSeekPos holds no position
    Nobody,      \* mPlayerMutex is free
    Durations,   \* durations the demuxer may report; 0: a live stream
    MaxMessages  \* bound: messages held when the application calls

ASSUME NoneAssumption == None \in Int /\ None < 0
ASSUME PositionsAssumption == Positions \subseteq Nat
ASSUME DurationsAssumption == Durations \subseteq Nat
ASSUME NobodyAssumption == Nobody \notin Callers

VARIABLES
    mPlayStatus,
    mMsgQueue,
    processQueue,     \* the messages collected and not handled yet
    waitingForStart,
    mCanceled,
    url,              \* a data source was set
    mSeekPos,
    mSeekFlag,
    mDuration,
    mEof,
    mBufferingFlag,
    packets,          \* something is buffered in front of the decoders' output
    frames,           \* a decoded frame waits to be rendered
    mApsaraThread,    \* "idle", "running" or "paused"
    mpc,              \* where the main thread is in mainService()
    mPlayerMutex,     \* the API thread that holds it
    pc,               \* pc[c]: where API thread c is
    seekPos,          \* seekPos[c]: the argument of c's SeekTo()
    preparing,        \* the callers whose Stop() was called by Prepare()
    seekOpen          \* history: Seeking was notified, SeekEnd was not yet

queueVars == <<mMsgQueue, processQueue>>
seekVars  == <<mSeekPos, mSeekFlag, seekOpen>>
dataVars  == <<mDuration, mEof, packets, frames>>
playVars  == <<mPlayStatus, mBufferingFlag>>
flagVars  == <<waitingForStart, mCanceled, url>>
apiVars   == <<mPlayerMutex, pc, seekPos, preparing>>
vars == <<queueVars, seekVars, dataVars, playVars, flagVars, apiVars,
          mApsaraThread, mpc>>

Statuses == {"IDLE", "INITIALZED", "PREPARINIT", "PREPARING", "PREPARED",
             "PLAYING", "PAUSED", "STOPPED", "COMPLETION", "ERROR"}

(* The statuses in which ProcessVideoLoop() works on the stream.           *)
Working == {"PREPARING", "PREPARED", "PLAYING", "PAUSED", "COMPLETION"}

ApiSteps == {"idle", "startPut", "pausePut", "seekMark", "preparePut",
             "stop", "stopLock", "stopPark", "stopClear", "stopReset"}

MainSteps == {"top", "handle", "open", "seekBeforePrepare", "initOpen",
              "read", "decode", "checkBuffer", "prepared", "autoStart",
              "autoStarted", "render", "endSeek", "checkEOS", "completed",
              "completedSeek", "finish"}

Init ==
    /\ mPlayStatus = "IDLE"
    /\ mMsgQueue = {} /\ processQueue = {}
    /\ waitingForStart = FALSE /\ mCanceled = FALSE /\ url = FALSE
    /\ mSeekPos = None /\ mSeekFlag = FALSE
    /\ mDuration = None /\ mEof = FALSE
    /\ mBufferingFlag = FALSE
    /\ packets = FALSE /\ frames = FALSE
    /\ mApsaraThread = "idle" /\ mpc = "top"
    /\ mPlayerMutex = Nobody
    /\ pc = [c \in Callers |-> "idle"]
    /\ seekPos = [c \in Callers |-> None]
    /\ preparing = {} /\ seekOpen = FALSE

-----------------------------------------------------------------------------
(***************************************************************************)
(* The mailbox, as PlayerMessageControl has it.  A ticket is the index of  *)
(* the message in its deque, and a seek is stamped with the time elapsed   *)
(* since the newest seek that is queued: nothing else depends on either.   *)
(***************************************************************************)
Indexed(ms) ==
    {[type |-> m.type, time |-> 0, pos |-> m.pos, ticket |-> Cardinality(InFrontOf(ms, m))] :
       m \in ms}

Erasures(type, elapsed) ==
    CASE type \in ReplaceAllTypes  -> {ErasedByAll(mMsgQueue, type)}
      [] type \in ReplaceLastTypes -> {ErasedByLast(mMsgQueue, type)}
      [] type = "MSG_SEEKTO"       -> ErasedBySeek(mMsgQueue, elapsed)

putMsg(type, pos, elapsed) ==
    /\ \E erased \in Erasures(type, elapsed) :
          mMsgQueue' = Indexed((mMsgQueue \ erased)
             \cup {[type |-> type, time |-> elapsed, pos |-> pos,
                    ticket |-> Cardinality(mMsgQueue)]})
    /\ UNCHANGED processQueue

SeekQueued == Queued(mMsgQueue, "MSG_SEEKTO") # {}

(* OnPlayerMsgIsPadding().                                                 *)
Padded == IF mSeekFlag THEN {"MSG_SEEKTO"} ELSE {}

-----------------------------------------------------------------------------
(***************************************************************************)
(* The API                                                                 *)
(***************************************************************************)
Goto(c, step) == pc' = [pc EXCEPT ![c] = step]

(* The bound MaxMessages on the messages in flight.                        *)
MayPut == Cardinality(mMsgQueue) + Cardinality(processQueue) < MaxMessages

SetDataSource(c) ==
    /\ pc[c] = "idle" /\ MayPut
    /\ putMsg("MSG_SETDATASOURCE", None, 0)
    /\ UNCHANGED <<seekVars, dataVars, playVars, flagVars, apiVars, mApsaraThread, mpc>>

Start(c) ==
    /\ pc[c] = "idle" /\ MayPut
    /\ waitingForStart' = \/ waitingForStart
                          \/ mPlayStatus \in {"INITIALZED", "PREPARING", "PREPARINIT"}
    /\ Goto(c, "startPut")
    /\ UNCHANGED <<queueVars, seekVars, dataVars, playVars, mCanceled, url,
                   mPlayerMutex, seekPos, preparing, mApsaraThread, mpc>>

StartPut(c) ==
    /\ pc[c] = "startPut"
    /\ putMsg("MSG_START", None, 0)
    /\ Goto(c, "idle")
    /\ UNCHANGED <<seekVars, dataVars, playVars, flagVars, mPlayerMutex, seekPos,
                   preparing, mApsaraThread, mpc>>

Pause(c) ==
    /\ pc[c] = "idle" /\ MayPut
    /\ waitingForStart' = FALSE
    /\ Goto(c, "pausePut")
    /\ UNCHANGED <<queueVars, seekVars, dataVars, playVars, mCanceled, url,
                   mPlayerMutex, seekPos, preparing, mApsaraThread, mpc>>

PausePut(c) ==
    /\ pc[c] = "pausePut"
    /\ putMsg("MSG_PAUSE", None, 0)
    /\ Goto(c, "idle")
    /\ UNCHANGED <<seekVars, dataVars, playVars, flagVars, mPlayerMutex, seekPos,
                   preparing, mApsaraThread, mpc>>

(* The message first, and only then the position isSeeking() looks at.     *)
SeekTo(c, pos) ==
    /\ pc[c] = "idle" /\ MayPut
    /\ \E elapsed \in {0, SEEK_REPEAT_TIME} : putMsg("MSG_SEEKTO", pos, elapsed)
    /\ seekPos' = [seekPos EXCEPT ![c] = pos]
    /\ Goto(c, "seekMark")
    /\ UNCHANGED <<seekVars, dataVars, playVars, flagVars, mPlayerMutex, preparing,
                   mApsaraThread, mpc>>

SeekMark(c) ==
    /\ pc[c] = "seekMark"
    /\ mSeekPos' = seekPos[c]
    /\ seekPos' = [seekPos EXCEPT ![c] = None]
    /\ Goto(c, "idle")
    /\ UNCHANGED <<queueVars, mSeekFlag, seekOpen, dataVars, playVars, flagVars,
                   mPlayerMutex, preparing, mApsaraThread, mpc>>

(* Prepare() stops a player that is not ready for it, in its own thread.   *)
Prepare(c) ==
    /\ pc[c] = "idle" /\ MayPut
    /\ Goto(c, IF mPlayStatus \in {"INITIALZED", "STOPPED"} THEN "preparePut" ELSE "stop")
    /\ preparing' = preparing \cup {c}
    /\ UNCHANGED <<queueVars, seekVars, dataVars, playVars, flagVars, mPlayerMutex,
                   seekPos, mApsaraThread, mpc>>

(* A mutant: Prepare() does not take mPlayerMutex.                         *)
PrepareUnlocked(c) ==
    /\ pc[c] = "preparePut"
    /\ putMsg("MSG_PREPARE", None, 0)
    /\ mApsaraThread' = "running"
    /\ preparing' = preparing \ {c}
    /\ Goto(c, "idle")
    /\ UNCHANGED <<seekVars, dataVars, playVars, flagVars, mPlayerMutex, seekPos, mpc>>

PreparePut(c) ==
    /\ pc[c] = "preparePut"
    /\ mPlayerMutex = Nobody
    /\ putMsg("MSG_PREPARE", None, 0)
    /\ mApsaraThread' = "running"
    /\ preparing' = preparing \ {c}
    /\ Goto(c, "idle")
    /\ UNCHANGED <<seekVars, dataVars, playVars, flagVars, mPlayerMutex, seekPos, mpc>>

-----------------------------------------------------------------------------
(* Stop()                                                                  *)
StopReturns(c) == Goto(c, IF c \in preparing THEN "preparePut" ELSE "idle")

Stop(c) ==
    /\ pc[c] = "idle"
    /\ Goto(c, "stop")
    /\ UNCHANGED <<queueVars, seekVars, dataVars, playVars, flagVars, mPlayerMutex,
                   seekPos, preparing, mApsaraThread, mpc>>

StopNothing(c) ==
    /\ pc[c] = "stop"
    /\ mApsaraThread # "running" /\ mPlayStatus \in {"IDLE", "STOPPED"}
    /\ StopReturns(c)
    /\ UNCHANGED <<queueVars, seekVars, dataVars, playVars, flagVars, mPlayerMutex,
                   seekPos, preparing, mApsaraThread, mpc>>

StopLock(c) ==
    /\ pc[c] = "stop"
    /\ ~ (mApsaraThread # "running" /\ mPlayStatus \in {"IDLE", "STOPPED"})
    /\ Goto(c, "stopLock")
    /\ UNCHANGED <<queueVars, seekVars, dataVars, playVars, flagVars, mPlayerMutex,
                   seekPos, preparing, mApsaraThread, mpc>>

(* A mutant: the source is not interrupted.                                *)
StopUncancelled(c) ==
    /\ pc[c] = "stopLock"
    /\ mPlayerMutex = Nobody
    /\ mPlayerMutex' = c
    /\ waitingForStart' = FALSE
    /\ Goto(c, "stopPark")
    /\ UNCHANGED <<queueVars, seekVars, dataVars, playVars, mCanceled, url, seekPos,
                   preparing, mApsaraThread, mpc>>

StopCancel(c) ==
    /\ pc[c] = "stopLock"
    /\ mPlayerMutex = Nobody
    /\ mPlayerMutex' = c
    /\ waitingForStart' = FALSE
    /\ mCanceled' = TRUE
    /\ Goto(c, "stopPark")
    /\ UNCHANGED <<queueVars, seekVars, dataVars, playVars, url, seekPos, preparing,
                   mApsaraThread, mpc>>

(* A mutant: prePause(), which does not wait.                              *)
StopPrePark(c) ==
    /\ pc[c] = "stopPark"
    /\ mApsaraThread' = IF mApsaraThread = "running" THEN "paused" ELSE mApsaraThread
    /\ Goto(c, "stopClear")
    /\ UNCHANGED <<queueVars, seekVars, dataVars, playVars, flagVars, mPlayerMutex,
                   seekPos, preparing, mpc>>

(* mApsaraThread->pause() returns when mainService() is not being called.  *)
StopPark(c) ==
    /\ pc[c] = "stopPark"
    /\ mApsaraThread = "running" => mpc = "top"
    /\ mApsaraThread' = IF mApsaraThread = "running" THEN "paused" ELSE mApsaraThread
    /\ Goto(c, "stopClear")
    /\ UNCHANGED <<queueVars, seekVars, dataVars, playVars, flagVars, mPlayerMutex,
                   seekPos, preparing, mpc>>

StopClear(c) ==
    /\ pc[c] = "stopClear"
    /\ mPlayStatus' = "STOPPED"
    /\ packets' = FALSE /\ frames' = FALSE
    /\ mMsgQueue' = {}
    /\ Goto(c, "stopReset")
    /\ UNCHANGED <<processQueue, seekVars, mDuration, mEof,
                   mBufferingFlag, flagVars, mPlayerMutex, seekPos, preparing,
                   mApsaraThread, mpc>>

(* Reset(), and the release of mPlayerMutex.  Clean() dropped a Seeking    *)
(* notification that had no end.                                           *)
StopReset(c) ==
    /\ pc[c] = "stopReset"
    /\ mDuration' = None /\ mEof' = FALSE
    /\ mSeekPos' = None /\ mSeekFlag' = FALSE /\ seekOpen' = FALSE
    /\ mBufferingFlag' = FALSE
    /\ mCanceled' = FALSE
    /\ mPlayerMutex' = Nobody
    /\ StopReturns(c)
    /\ UNCHANGED <<queueVars, packets, frames, mPlayStatus, waitingForStart, url,
                   seekPos, preparing, mApsaraThread, mpc>>

-----------------------------------------------------------------------------
(***************************************************************************)
(* The main thread: mainService()                                          *)
(***************************************************************************)
Main(from, to) ==
    /\ mpc = from
    /\ mpc' = to
    /\ UNCHANGED <<apiVars, mApsaraThread>>

(* processMsg() collects what is not padded; with nothing to handle the    *)
(* pass over the stream runs instead, if the status has one.               *)
Collect ==
    LET taken == {m \in mMsgQueue : m.type \notin Padded} IN
    /\ mApsaraThread = "running" /\ ~ mCanceled
    /\ processQueue' = Indexed(taken)
    /\ mMsgQueue' = Indexed(mMsgQueue \ taken)
    /\ taken = {} => mPlayStatus \in Working
    /\ Main("top", IF taken = {} THEN "read" ELSE "handle")
    /\ UNCHANGED <<seekVars, dataVars, playVars, flagVars>>

Handled == OldestOf(processQueue)
Rest == Indexed(processQueue \ {Handled})
AfterHandled == IF Rest = {} THEN "top" ELSE "handle"

(* The end of a handler: the next message, or back from mainService().     *)
Handle(type, to) ==
    /\ mpc = "handle"
    /\ Handled.type = type
    /\ processQueue' = Rest
    /\ Main("handle", to)
    /\ UNCHANGED mMsgQueue

HandleSetDataSource ==
    /\ Handle("MSG_SETDATASOURCE", AfterHandled)
    /\ IF mPlayStatus \in {"IDLE", "STOPPED"}
       THEN url' = TRUE /\ mPlayStatus' = "INITIALZED"
       ELSE UNCHANGED <<url, mPlayStatus>>
    /\ UNCHANGED <<seekVars, dataVars, mBufferingFlag, waitingForStart, mCanceled>>

HandleStart ==
    /\ Handle("MSG_START", AfterHandled)
    /\ mPlayStatus' = IF mPlayStatus \in {"PAUSED", "PREPARED", "COMPLETION"}
                      THEN "PLAYING" ELSE mPlayStatus
    /\ UNCHANGED <<seekVars, dataVars, mBufferingFlag, flagVars>>

HandlePause ==
    /\ Handle("MSG_PAUSE", AfterHandled)
    /\ mPlayStatus' = IF mPlayStatus = "PLAYING" THEN "PAUSED" ELSE mPlayStatus
    /\ UNCHANGED <<seekVars, dataVars, mBufferingFlag, flagVars>>

(***************************************************************************)
(* ProcessSeekToMsg().  A seek in the cache moves the packet queues to a   *)
(* key frame they hold, perhaps one already played; the others empty them  *)
(* and reposition the demuxer, which may fail.                             *)
(***************************************************************************)
KeepSeek(pos) ==
    /\ mPlayStatus \in {"IDLE", "INITIALZED", "PREPARINIT", "STOPPED"}
    /\ mSeekPos' = pos
    /\ UNCHANGED <<mSeekFlag, seekOpen, dataVars, playVars>>

RefuseSeek ==
    /\ mPlayStatus \in Working \cup {"ERROR"}
    /\ mDuration <= 0 \/ mPlayStatus = "ERROR"
    /\ mSeekPos' = None
    /\ UNCHANGED <<mSeekFlag, seekOpen, dataVars, playVars>>

BeginSeek(pos) ==
    /\ mPlayStatus \in Working /\ mDuration > 0
    /\ mSeekPos' = pos
    /\ mSeekFlag' = TRUE
    /\ seekOpen' = TRUE
    /\ frames' = FALSE
    /\ \/ /\ packets \/ mPlayStatus # "PREPARING"
          /\ packets' = TRUE
          /\ UNCHANGED <<mEof, mPlayStatus>>
       \/ /\ packets' = FALSE
          /\ mEof' = FALSE
          /\ mPlayStatus' \in {mPlayStatus, "ERROR"}
    /\ UNCHANGED <<mDuration, mBufferingFlag>>

ProcessSeekToMsg(pos) == KeepSeek(pos) \/ RefuseSeek \/ BeginSeek(pos)

HandleSeek ==
    /\ Handle("MSG_SEEKTO", AfterHandled)
    /\ ProcessSeekToMsg(Handled.pos)
    /\ UNCHANGED flagVars

-----------------------------------------------------------------------------
(***************************************************************************)
(* ProcessPrepareMsg()                                                     *)
(***************************************************************************)
HandlePrepare ==
    LET opens == url /\ mPlayStatus \in {"INITIALZED", "STOPPED"} IN
    /\ Handle("MSG_PREPARE", IF opens THEN "open" ELSE AfterHandled)
    /\ mPlayStatus' = CASE opens -> "PREPARINIT"
                        [] ~ url -> "ERROR"
                        [] OTHER -> mPlayStatus
    /\ UNCHANGED <<seekVars, dataVars, mBufferingFlag, flagVars>>

NextMsg == IF processQueue = {} THEN "top" ELSE "handle"

(* openUrl() is interrupted, fails, or opens the source; a Stop() in       *)
(* progress is noticed either way.                                         *)
OpenUrl ==
    /\ \/ /\ Main("open", IF mCanceled THEN NextMsg ELSE "seekBeforePrepare")
          /\ UNCHANGED mPlayStatus
       \/ /\ Main("open", NextMsg)
          /\ mPlayStatus' = "ERROR"
    /\ UNCHANGED <<queueVars, seekVars, dataVars,
                   mBufferingFlag, flagVars>>

(* A mutant: Seeking is not notified.                                      *)
SeekSilently ==
    /\ Main("seekBeforePrepare", "initOpen")
    /\ mSeekFlag' = (mSeekFlag \/ mSeekPos > 0)
    /\ mSeekPos' = IF mSeekPos > 0 THEN mSeekPos ELSE None
    /\ UNCHANGED <<queueVars, seekOpen, dataVars, playVars, flagVars>>

(* A position kept from a seek before prepare() is where to begin.         *)
SeekBeforePrepare ==
    /\ Main("seekBeforePrepare", "initOpen")
    /\ IF mSeekPos > 0
       THEN mSeekFlag' = TRUE /\ seekOpen' = TRUE /\ UNCHANGED mSeekPos
       ELSE mSeekPos' = None /\ UNCHANGED <<mSeekFlag, seekOpen>>
    /\ UNCHANGED <<queueVars, dataVars, playVars, flagVars>>

(* initOpen() and the opening of the streams.                              *)
InitOpen ==
    /\ Main("initOpen", NextMsg)
    /\ \/ mDuration' \in Durations /\ mPlayStatus' \in {"PREPARING", "ERROR"}
       \/ mPlayStatus' = (IF mCanceled THEN mPlayStatus ELSE "ERROR") /\ UNCHANGED mDuration
    /\ UNCHANGED <<queueVars, seekVars, mEof, packets, frames,
                   mBufferingFlag, flagVars>>

-----------------------------------------------------------------------------
(***************************************************************************)
(* ProcessVideoLoop(): doReadPacket(), doDeCode(), DoCheckBufferPass(),    *)
(* doRender(), checkEOS()                                                  *)
(***************************************************************************)
Loop(from, to) ==
    /\ Main(from, to)
    /\ UNCHANGED <<queueVars, mDuration, flagVars>>

(* It reads until it would block, reaches the end, or meets an error it    *)
(* reports.                                                                *)
ReadPackets ==
    /\ Loop("read", "decode")
    /\ IF mEof
       THEN UNCHANGED <<mEof, packets, mPlayStatus>>
       ELSE /\ packets' \in {packets, TRUE}
            /\ \/ mEof' \in BOOLEAN /\ UNCHANGED mPlayStatus
               \/ mPlayStatus' = "ERROR" /\ UNCHANGED mEof
    /\ UNCHANGED <<seekVars, frames, mBufferingFlag>>

(* Packets become frames, or are dropped, or stay for a full decoder; too  *)
(* many bad packets are an error.                                          *)
Decode ==
    /\ Loop("decode", IF mCanceled THEN "top" ELSE "checkBuffer")
    /\ packets' \in {packets, FALSE}
    /\ frames' \in {frames, packets \/ frames}
    /\ mPlayStatus' \in IF ~ packets' /\ ~ frames' THEN {mPlayStatus}
                        ELSE {mPlayStatus, "ERROR"}
    /\ UNCHANGED <<seekVars, mEof, mBufferingFlag>>

(* DoCheckBufferPass() while PREPARING: not ready yet, ready, at the end   *)
(* of the stream after a seek before prepare(), or nothing to play.        *)
NotReady ==
    /\ mPlayStatus = "PREPARING" /\ ~ mEof
    /\ Loop("checkBuffer", "render")
    /\ UNCHANGED <<seekVars, mEof, packets, frames, playVars>>

Ready ==
    /\ mPlayStatus = "PREPARING"
    /\ packets
    /\ mPlayStatus' = "PREPARED"
    /\ Loop("checkBuffer", "prepared")
    /\ UNCHANGED <<seekVars, mEof, packets, frames, mBufferingFlag>>

SoughtToEnd ==
    /\ mPlayStatus = "PREPARING" /\ mEof /\ ~ packets /\ mSeekPos > 0
    /\ Loop("checkBuffer", "completed")
    /\ UNCHANGED <<seekVars, mEof, packets, frames, playVars>>

NothingToPlay ==
    /\ mPlayStatus = "PREPARING" /\ mEof /\ ~ packets /\ mSeekPos <= 0
    /\ mPlayStatus' = "ERROR"
    /\ Loop("checkBuffer", "render")
    /\ UNCHANGED <<seekVars, mEof, packets, frames, mBufferingFlag>>

(* notifyPreparedCallback(): a pending start is put as a message.          *)
NotifyPrepared ==
    /\ Loop("prepared", IF waitingForStart THEN "autoStart" ELSE "render")
    /\ UNCHANGED <<seekVars, mEof, packets, frames, playVars>>

AutoStart ==
    /\ mpc = "autoStart" /\ mpc' = "autoStarted"
    /\ putMsg("MSG_START", None, 0)
    /\ UNCHANGED <<seekVars, dataVars, playVars, flagVars, apiVars, mApsaraThread>>

AutoStarted ==
    /\ Main("autoStarted", "render")
    /\ waitingForStart' = FALSE
    /\ UNCHANGED <<queueVars, seekVars, dataVars, playVars,
                   mCanceled, url>>

(* The rest of DoCheckBufferPass(): loading begins, ends, or goes on.      *)
LoadingBegins == /\ ~ mEof /\ ~ packets /\ ~ mBufferingFlag
                 /\ mPlayStatus \in {"PLAYING", "PAUSED"}

BeginLoading ==
    /\ LoadingBegins
    /\ mBufferingFlag' = TRUE
    /\ Loop("checkBuffer", "top")
    /\ UNCHANGED <<seekVars, mEof, packets, frames, mPlayStatus>>

EndLoading ==
    /\ mPlayStatus # "PREPARING" /\ mBufferingFlag
    /\ mEof \/ (packets /\ ~ mSeekFlag)
    /\ mBufferingFlag' = FALSE
    /\ Loop("checkBuffer", "render")
    /\ UNCHANGED <<seekVars, mEof, packets, frames, mPlayStatus>>

(* A mutant: loading does not end with the stream.                         *)
LoadForEver ==
    /\ mPlayStatus # "PREPARING" /\ ~ LoadingBegins
    /\ Loop("checkBuffer", "render")
    /\ UNCHANGED <<seekVars, mEof, packets, frames, playVars>>

KeepLoading ==
    /\ mPlayStatus # "PREPARING" /\ ~ LoadingBegins
    /\ ~ (mBufferingFlag /\ mEof)
    /\ Loop("checkBuffer", "render")
    /\ UNCHANGED <<seekVars, mEof, packets, frames, playVars>>

(***************************************************************************)
(* doRender().  The first frame rendered after a seek ends it, unless a    *)
(* newer seek is already queued.  The question is asked of the queue under *)
(* its lock; the answer is acted upon without it.                          *)
(***************************************************************************)
Renders ==
    /\ frames
    /\ \/ mSeekFlag /\ mPlayStatus # "PREPARING"
       \/ mPlayStatus = "PLAYING" /\ ~ mBufferingFlag

(* A mutant: the rendered frame leaves mSeekFlag.                          *)
RenderOnly ==
    /\ Renders
    /\ frames' \in BOOLEAN
    /\ Loop("render", IF mSeekFlag /\ ~ SeekQueued THEN "endSeek" ELSE "checkEOS")
    /\ UNCHANGED <<seekVars, mEof, packets, playVars>>

Render ==
    /\ Renders
    /\ mSeekFlag' = FALSE
    /\ frames' \in BOOLEAN
    /\ Loop("render", IF mSeekFlag /\ ~ SeekQueued THEN "endSeek" ELSE "checkEOS")
    /\ UNCHANGED <<mSeekPos, seekOpen, mEof, packets, playVars>>

RenderNothing ==
    /\ Loop("render", "checkEOS")
    /\ UNCHANGED <<seekVars, mEof, packets, frames, playVars>>

(* ResetSeekStatus() and NotifySeekEnd().                                  *)
EndSeek(from, to) ==
    /\ mSeekPos' = None
    /\ seekOpen' = FALSE
    /\ Loop(from, to)
    /\ UNCHANGED <<mSeekFlag, mEof, packets, frames, playVars>>

Drained == mEof /\ ~ packets /\ ~ frames

CheckEOS ==
    /\ Loop("checkEOS", IF Drained /\ mPlayStatus # "COMPLETION" THEN "completed" ELSE "top")
    /\ UNCHANGED <<seekVars, mEof, packets, frames, playVars>>

(* A mutant: a seek to the end goes on.                                    *)
CompletedOnly ==
    /\ Loop("completed", "finish")
    /\ UNCHANGED <<seekVars, mEof, packets, frames, playVars>>

(* playCompleted(): a seek to the end is over too; then the stream is      *)
(* played again or completed.                                              *)
Completed ==
    /\ mSeekFlag' = FALSE
    /\ Loop("completed", IF mSeekFlag /\ ~ SeekQueued THEN "completedSeek" ELSE "finish")
    /\ UNCHANGED <<mSeekPos, seekOpen, mEof, packets, frames, playVars>>

PlayAgain ==
    /\ mDuration > 0
    /\ ProcessSeekToMsg(0)
    /\ Main("finish", "top")
    /\ UNCHANGED <<queueVars, flagVars>>

Complete ==
    /\ mPlayStatus' = "COMPLETION"
    /\ Loop("finish", "top")
    /\ UNCHANGED <<seekVars, mEof, packets, frames, mBufferingFlag>>

-----------------------------------------------------------------------------
Call(c) ==
    \/ SetDataSource(c) \/ Start(c) \/ Pause(c) \/ Prepare(c) \/ Stop(c)
    \/ \E pos \in Positions : SeekTo(c, pos)

Proceed(c) ==
    \/ StartPut(c) \/ PausePut(c) \/ SeekMark(c) \/ PreparePut(c)
    \/ StopNothing(c) \/ StopLock(c) \/ StopCancel(c)
    \/ StopPark(c) \/ StopClear(c) \/ StopReset(c)

Handlers ==
    \/ HandleSetDataSource \/ HandleStart \/ HandlePause \/ HandleSeek
    \/ HandlePrepare \/ OpenUrl \/ SeekBeforePrepare \/ InitOpen

ProcessVideoLoop ==
    \/ ReadPackets \/ Decode
    \/ NotReady \/ Ready \/ SoughtToEnd \/ NothingToPlay
    \/ NotifyPrepared \/ AutoStart \/ AutoStarted
    \/ BeginLoading \/ EndLoading \/ KeepLoading
    \/ Render \/ RenderNothing
    \/ EndSeek("endSeek", "checkEOS") \/ EndSeek("completedSeek", "finish")
    \/ CheckEOS \/ Completed \/ PlayAgain \/ Complete

MainService == Collect \/ Handlers \/ ProcessVideoLoop

Next == MainService \/ \E c \in Callers : Call(c) \/ Proceed(c)

(***************************************************************************)
(* Fairness: an API call that has begun goes on.  Nothing obliges the      *)
(* application to call, and the main thread may wait for the source as     *)
(* long as it likes, until Stop() interrupts it.                           *)
(***************************************************************************)
Fairness ==
    /\ WF_vars(MainService /\ mCanceled)
    /\ \A c \in Callers : WF_vars(Proceed(c))

Spec == Init /\ [][Next]_vars
FairSpec == Spec /\ Fairness

-----------------------------------------------------------------------------
PlayMsgType == {"MSG_SETDATASOURCE", "MSG_PREPARE", "MSG_START", "MSG_PAUSE", "MSG_SEEKTO"}

Flags == {waitingForStart, mCanceled, url, mSeekFlag, mEof, mBufferingFlag, packets, frames,
          seekOpen}

Message == [type : PlayMsgType, time : Nat, pos : Positions \cup {None}, ticket : Nat]

TypeOK ==
    /\ mPlayStatus \in Statuses
    /\ mMsgQueue \subseteq Message /\ processQueue \subseteq Message
    /\ Flags \subseteq BOOLEAN
    /\ mSeekPos \in Positions \cup {0, None}
    /\ mDuration \in Durations \cup {None}
    /\ mApsaraThread \in {"idle", "running", "paused"} /\ mpc \in MainSteps
    /\ mPlayerMutex \in Callers \cup {Nobody} /\ pc \in [Callers -> ApiSteps]
    /\ seekPos \in [Callers -> Positions \cup {None}]
    /\ preparing \subseteq Callers

(* From the moment Stop() clears the player until it returns, the main     *)
(* thread is between two calls of mainService() and holds no message, and  *)
(* no other Stop() or Prepare() is past mPlayerMutex.                      *)
StopOwnsPlayer ==
    \A c \in Callers : pc[c] \in {"stopClear", "stopReset"} =>
        /\ mApsaraThread # "running" /\ mpc = "top" /\ processQueue = {}
        /\ \A d \in Callers \ {c} : pc[d] \notin {"stopPark", "stopClear", "stopReset"}

(* SeekEnd is notified only for a seek that was notified as Seeking.       *)
SeekEndMatched == mpc \in {"endSeek", "completedSeek"} => seekOpen

(* While a seek in an on-demand stream is in progress isSeeking() holds,   *)
(* whatever API threads write to mSeekPos: OnTimer() does not report the   *)
(* old position.  (A live stream refuses a seek after it accepted one that *)
(* came before prepare(), and mSeekPos is gone while mSeekFlag is set.)    *)
SeekingHeld == mSeekFlag /\ mPlayStatus \in Working /\ mDuration > 0 => mSeekPos # None

(* A completed player is not loading.                                      *)
CompletedNotLoading == mPlayStatus = "COMPLETION" => ~ mBufferingFlag

(* The player uses its thread as WorkerThread allows.                      *)
ThreadMode ==
    CASE mApsaraThread = "idle" -> "off"
      [] mApsaraThread = "running" -> "running"
      [] mApsaraThread = "paused" -> "parked"

Thread == INSTANCE WorkerThread WITH mode <- ThreadMode, busy <- mpc # "top"

UsesWorkerThread == Thread!Spec

(* A Stop() that got mPlayerMutex returns: mCanceled holds the main thread *)
(* where it can be parked.                                                 *)
StopFinishes ==
    \A c \in Callers : pc[c] = "stopPark" ~> pc[c] \notin {"stopPark", "stopClear", "stopReset"}

(* A seek beyond the last frame is ended by playCompleted() when the       *)
(* player was prepared, playing or paused, provided that the messages      *)
(* leave mainService() time for the stream.                                *)
SeekPastEndEnds ==
    []<><<ReadPackets>>_vars =>
        (mSeekFlag /\ Drained /\ mPlayStatus \in {"PREPARED", "PLAYING", "PAUSED"} ~> ~ mSeekFlag)

-----------------------------------------------------------------------------
(* What the repository says, and the code does not do: see the README.     *)

(* CicadaPlayer.java, prepare(): a failure is an error, and completion     *)
(* means the media was played: an error is left only by Stop().            *)
ErrorIsFinal ==
    [][mPlayStatus = "ERROR" => mPlayStatus' \in {"ERROR", "STOPPED"}]_vars

(* playCompleted(): a seek to the end is notified as completed.            *)
SeekToEndEnds ==
    []<><<ReadPackets>>_vars => (mSeekFlag /\ Drained /\ mPlayStatus \in Working ~> ~ mSeekFlag)

-----------------------------------------------------------------------------
(* The strengthening that the proofs need.                                 *)
Handling == {"handle", "open", "seekBeforePrepare", "initOpen"}

(* Whose the player is: the main thread's, in a call of mainService(), or  *)
(* that of the Stop() that holds mPlayerMutex and has parked it.           *)
Ownership ==
    /\ mApsaraThread # "running" => mpc = "top"
    /\ mpc \notin Handling => processQueue = {}
    /\ mpc = "handle" => processQueue # {}
    /\ \A c \in Callers :
         /\ mPlayerMutex = c <=> pc[c] \in {"stopPark", "stopClear", "stopReset"}
         /\ pc[c] \in {"stopClear", "stopReset"} => mApsaraThread # "running"
         /\ pc[c] = "stopReset" => mPlayStatus = "STOPPED"

BeingReset == \E c \in Callers : pc[c] = "stopReset"

(* Where a seek can be in progress, and where it has its position.         *)
SeekSteps ==
    /\ mSeekFlag => seekOpen
    /\ mpc \in {"endSeek", "completedSeek"} => seekOpen /\ ~ mSeekFlag
    /\ mpc \in {"open", "seekBeforePrepare", "finish"} => ~ mSeekFlag
    /\ mpc = "initOpen" /\ mSeekFlag => mSeekPos # None
    /\ mpc \in {"open", "seekBeforePrepare", "initOpen"} => mPlayStatus = "PREPARINIT"
    /\ mPlayStatus \in {"IDLE", "INITIALZED", "STOPPED"} /\ mSeekFlag => BeingReset
    /\ \A c \in Callers : pc[c] = "seekMark" => seekPos[c] # None
    /\ \A m \in mMsgQueue \cup processQueue : m.type = "MSG_SEEKTO" => m.pos # None

(* Where the player can be loading.                                        *)
LoadSteps ==
    /\ mBufferingFlag => mPlayStatus \in {"PLAYING", "PAUSED", "ERROR"} \/ BeingReset
    /\ mpc \in {"prepared", "autoStart", "autoStarted", "render", "endSeek", "checkEOS"}
            => ~ (mEof /\ mBufferingFlag)
    /\ mpc \in {"open", "seekBeforePrepare", "initOpen", "completed", "completedSeek", "finish"}
            => ~ mBufferingFlag
=============================================================================
