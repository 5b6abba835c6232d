----------------------- MODULE PlayerControlTheorems -----------------------
(***************************************************************************)
(* The control plane for any number of API threads, positions, durations   *)
(* and messages: the inductive invariant IInv, and what follows from it.   *)
(***************************************************************************)
EXTENDS PlayerControl, FiniteSetTheorems, WellFoundedInduction, TLAPS

-----------------------------------------------------------------------------
(* The messages: what queues hold, and that each seek has its position.    *)
Positioned(ms) == \A m \in ms : m.type = "MSG_SEEKTO" => m.pos # None

IsMessages(ms) == ms \subseteq Message /\ IsFiniteSet(ms) /\ Positioned(ms)

Messages == IsMessages(mMsgQueue) /\ IsMessages(processQueue)

LEMMA IndexedMessages ==
  ASSUME NEW ms, IsMessages(ms)
  PROVE  IsMessages(Indexed(ms)) /\ (Indexed(ms) = {} <=> ms = {})
<1> DEFINE index(m) == [type |-> m.type, time |-> 0, pos |-> m.pos,
                        ticket |-> Cardinality(InFrontOf(ms, m))]
<1>1. Indexed(ms) = {index(m) : m \in ms}
  BY DEF Indexed
<1>2. IsFiniteSet({index(m) : m \in ms})
  <2> DEFINE f == [m \in ms |-> index(m)]
  <2> HIDE DEF index
  <2>1. f \in Surjection(ms, {index(m) : m \in ms})
    BY DEF Surjection
  <2>. QED  BY <2>1, FS_Surjection DEF IsMessages
<1>3. ASSUME NEW m \in ms
      PROVE  /\ index(m) \in Message
             /\ index(m).type = m.type /\ index(m).pos = m.pos
  <2>1. Cardinality(InFrontOf(ms, m)) \in Nat
    BY FS_Subset, FS_CardinalityType DEF InFrontOf, IsMessages
  <2>2. m \in Message
    BY DEF IsMessages
  <2>. QED  BY <2>1, <2>2 DEF Message
<1> HIDE DEF index
<1>. QED  BY <1>1, <1>2, <1>3 DEF IsMessages, Positioned

LEMMA SomeMessages ==
  ASSUME NEW ms, IsMessages(ms), NEW some \in SUBSET ms
  PROVE  IsMessages(some)
BY FS_Subset DEF IsMessages, Positioned

(* putMsg() changes nothing but mMsgQueue.                                 *)
LEMMA PutMessages ==
  ASSUME IsMessages(mMsgQueue), NEW type \in PlayMsgType, NEW pos \in Positions \cup {None},
         NEW elapsed \in Nat, type = "MSG_SEEKTO" => pos # None,
         putMsg(type, pos, elapsed)
  PROVE  IsMessages(mMsgQueue')
<1>1. PICK erased \in Erasures(type, elapsed) :
         mMsgQueue' = Indexed((mMsgQueue \ erased)
             \cup {[type |-> type, time |-> elapsed, pos |-> pos,
                    ticket |-> Cardinality(mMsgQueue)]})
  BY DEF putMsg
<1> DEFINE kept == mMsgQueue \ erased
           new == [type |-> type, time |-> elapsed, pos |-> pos, ticket |-> Cardinality(mMsgQueue)]
<1>2. IsMessages(kept)
  BY SomeMessages
<1>3. new \in Message /\ new.type = type /\ new.pos = pos
  BY FS_CardinalityType DEF IsMessages, Message
<1>4. IsMessages(kept \cup {new})
  <2> HIDE DEF kept, new
  <2>1. IsFiniteSet(kept \cup {new})
    BY <1>2, FS_AddElement DEF IsMessages
  <2>. QED  BY <1>2, <1>3, <2>1 DEF IsMessages, Positioned
<1>. QED  BY <1>1, <1>4, IndexedMessages

(* A set of numbers has a least element.                                   *)
LEMMA LeastNatural ==
  ASSUME NEW T \in SUBSET Nat, T # {}
  PROVE  \E x \in T : \A y \in T : x <= y
<1> DEFINE R == {ss \in Nat \X Nat : ss[1] < ss[2]}
<1>1. IsWellFoundedOn(R, Nat)
  BY NatLessThanWellFounded DEF OpToRel
<1> HIDE DEF R
<1>2. \E x \in T : \A y \in T : ~ (<<y, x>> \in R)
  BY <1>1, WFMin
<1>3. \A x, y \in Nat : ~ (<<y, x>> \in R) => x <= y
  BY DEF R
<1>. QED  BY <1>2, <1>3

(* OldestOf returns the front of a non-empty set of messages.              *)
LEMMA OldestOfIsOldest ==
  ASSUME NEW ms, ms # {}, \A m \in ms : m.ticket \in Nat
  PROVE  /\ OldestOf(ms) \in ms
         /\ \A n \in ms : OldestOf(ms).ticket <= n.ticket
<1> DEFINE T == {m.ticket : m \in ms}
<1>1. T \in SUBSET Nat /\ T # {}
  OBVIOUS
<1>2. PICK x \in T : \A y \in T : x <= y
  <2> HIDE DEF T
  <2>. QED  BY <1>1, LeastNatural
<1>3. \E m \in ms : \A n \in ms : m.ticket <= n.ticket
  BY <1>2
<1>. QED  BY <1>3 DEF OldestOf

(* The message that is handled is one of those collected.                  *)
LEMMA HandledMessage ==
  ASSUME IsMessages(processQueue), processQueue # {}
  PROVE  /\ Handled \in processQueue /\ Handled \in Message
         /\ Handled.type = "MSG_SEEKTO" => Handled.pos # None
<1>1. \A m \in processQueue : m.ticket \in Nat
  BY DEF IsMessages, Message
<1>2. Handled \in processQueue
  BY <1>1, OldestOfIsOldest DEF Handled
<1>. QED  BY <1>2 DEF IsMessages, Positioned

LEMMA RestMessages ==
  ASSUME IsMessages(processQueue)
  PROVE  IsMessages(Rest)
BY SomeMessages, IndexedMessages DEF Rest
(* The inductive invariant.                                                *)
IInv ==
    /\ TypeOK
    /\ IsFiniteSet(mMsgQueue) /\ IsFiniteSet(processQueue)
    /\ Ownership /\ SeekSteps /\ LoadSteps /\ SeekingHeld

LEMMA MessagesHeld == IInv => Messages
BY DEF IInv, TypeOK, SeekSteps, Messages, IsMessages, Positioned

LEMMA InitInvariant == Init => IInv
<1> SUFFICES ASSUME Init
             PROVE  IInv
  OBVIOUS
<1>1. TypeOK
  <2>1. Flags \subseteq BOOLEAN
    BY Zenon DEF Init, Flags
  <2>. QED  BY <2>1 DEF Init, TypeOK, Statuses, MainSteps, ApiSteps
<1>2. IsFiniteSet(mMsgQueue) /\ IsFiniteSet(processQueue)
  BY FS_EmptySet DEF Init
<1>. QED  BY <1>1, <1>2, NobodyAssumption
          DEF Init, IInv, Ownership, Handling, SeekSteps, LoadSteps, SeekingHeld

LEMMA MessagesStep ==
  ASSUME Messages, [Next]_vars
  PROVE  Messages'
<1> USE DEF Messages, queueVars
<1>1. ASSUME NEW c \in Callers, SetDataSource(c) \/ StartPut(c) \/ PausePut(c) \/ PreparePut(c)
      PROVE  Messages'
  <2>1. PICK type \in PlayMsgType \ {"MSG_SEEKTO"} : putMsg(type, None, 0)
    BY <1>1 DEF SetDataSource, StartPut, PausePut, PreparePut, PlayMsgType
  <2>2. processQueue' = processQueue
    BY <2>1 DEF putMsg
  <2>. QED  BY <2>1, <2>2, PutMessages
<1>2. ASSUME NEW c \in Callers, NEW pos \in Positions, SeekTo(c, pos)
      PROVE  Messages'
  <2>1. PICK elapsed \in {0, SEEK_REPEAT_TIME} : putMsg("MSG_SEEKTO", pos, elapsed)
    BY <1>2 DEF SeekTo
  <2>2. processQueue' = processQueue
    BY <2>1 DEF putMsg
  <2>3. "MSG_SEEKTO" \in PlayMsgType /\ pos # None /\ elapsed \in Nat
    BY NoneAssumption, PositionsAssumption, RepeatTimeAssumption DEF PlayMsgType
  <2>. QED  BY <2>1, <2>2, <2>3, PutMessages
<1>3. ASSUME NEW c \in Callers, StopClear(c)
      PROVE  Messages'
  BY <1>3, FS_EmptySet DEF StopClear, IsMessages, Positioned
<1>4. ASSUME NEW c \in Callers,
             \/ Start(c) \/ Pause(c) \/ SeekMark(c) \/ Prepare(c) \/ Stop(c)
             \/ StopNothing(c) \/ StopLock(c) \/ StopCancel(c) \/ StopPark(c) \/ StopReset(c)
      PROVE  Messages'
  BY <1>4 DEF Start, Pause, SeekMark, Prepare, Stop, StopNothing, StopLock, StopCancel,
              StopPark, StopReset
<1>5. CASE Collect
  BY <1>5, SomeMessages, IndexedMessages DEF Collect
<1>6. CASE HandleSetDataSource \/ HandleStart \/ HandlePause \/ HandleSeek \/ HandlePrepare
  <2>1. processQueue' = Rest /\ mMsgQueue' = mMsgQueue
    BY <1>6 DEF HandleSetDataSource, HandleStart, HandlePause, HandleSeek, HandlePrepare, Handle
  <2>. QED  BY <2>1, RestMessages
<1>7. CASE AutoStart
  <2>1. putMsg("MSG_START", None, 0) /\ "MSG_START" \in PlayMsgType
    BY <1>7 DEF AutoStart, PlayMsgType
  <2>2. processQueue' = processQueue
    BY <2>1 DEF putMsg
  <2>. QED  BY <2>1, <2>2, PutMessages
<1>8. CASE \/ OpenUrl \/ SeekBeforePrepare \/ InitOpen \/ AutoStarted
           \/ \E from, to : Loop(from, to)
           \/ PlayAgain
  BY <1>8 DEF OpenUrl, SeekBeforePrepare, InitOpen, AutoStarted, Loop, PlayAgain
<1>9. CASE UNCHANGED vars
  BY <1>9 DEF vars
<1>10. ASSUME ProcessVideoLoop
       PROVE  AutoStart \/ AutoStarted \/ PlayAgain \/ \E from, to : Loop(from, to)
  BY <1>10, Zenon DEF ProcessVideoLoop, ReadPackets, Decode, NotReady, Ready, SoughtToEnd, NothingToPlay,
     NotifyPrepared, BeginLoading, EndLoading, KeepLoading, Render, RenderNothing, EndSeek,
     CheckEOS, Completed, Complete
<1>. QED  BY <1>1, <1>2, <1>3, <1>4, <1>5, <1>6, <1>7, <1>8, <1>9, <1>10
          DEF Next, Call, Proceed, MainService, Handlers

(* The Boolean variables, apart from the rest of TypeOK.                   *)
LEMMA ApiFlags ==
  ASSUME Flags \subseteq BOOLEAN, NEW c \in Callers, Call(c) \/ Proceed(c)
  PROVE  (Flags \subseteq BOOLEAN)'
<1> USE DEF Flags, queueVars, seekVars, dataVars, playVars, flagVars
<1>1. CASE SetDataSource(c)
  BY <1>1, ZenonT(90) DEF SetDataSource
<1>2. CASE Start(c)
  BY <1>2, ZenonT(90) DEF Start, Goto
<1>3. CASE Pause(c)
  BY <1>3, ZenonT(90) DEF Pause, Goto
<1>4. CASE Prepare(c)
  BY <1>4, ZenonT(90) DEF Prepare, Goto
<1>5. CASE Stop(c)
  BY <1>5, ZenonT(90) DEF Stop, Goto
<1>6. ASSUME NEW pos \in Positions, SeekTo(c, pos)
      PROVE  (Flags \subseteq BOOLEAN)'
  BY <1>6, ZenonT(90) DEF SeekTo, Goto
<1>7. CASE StartPut(c)
  BY <1>7, ZenonT(90) DEF StartPut, Goto
<1>8. CASE PausePut(c)
  BY <1>8, ZenonT(90) DEF PausePut, Goto
<1>9. CASE SeekMark(c)
  BY <1>9, ZenonT(90) DEF SeekMark, Goto
<1>10. CASE PreparePut(c)
  BY <1>10, ZenonT(90) DEF PreparePut, Goto
<1>11. CASE StopNothing(c)
  BY <1>11, ZenonT(90) DEF StopNothing, Goto, StopReturns
<1>12. CASE StopLock(c)
  BY <1>12, ZenonT(90) DEF StopLock, Goto
<1>13. CASE StopCancel(c)
  BY <1>13, ZenonT(90) DEF StopCancel, Goto
<1>14. CASE StopPark(c)
  BY <1>14, ZenonT(90) DEF StopPark, Goto
<1>15. CASE StopClear(c)
  BY <1>15, ZenonT(90) DEF StopClear, Goto
<1>16. CASE StopReset(c)
  BY <1>16, ZenonT(90) DEF StopReset, Goto, StopReturns
<1>. QED  BY <1>1, <1>2, <1>3, <1>4, <1>5, <1>6, <1>7, <1>8, <1>9, <1>10, <1>11, <1>12,
          <1>13, <1>14, <1>15, <1>16
          DEF Call, Proceed

LEMMA MainFlags ==
  ASSUME Flags \subseteq BOOLEAN, MainService
  PROVE  (Flags \subseteq BOOLEAN)'
<1> USE DEF Flags, queueVars, seekVars, dataVars, playVars, flagVars
<1>1. CASE Collect
  BY <1>1, ZenonT(90) DEF Collect
<1>2. CASE HandleSetDataSource
  BY <1>2, ZenonT(90) DEF HandleSetDataSource, Handle, Main
<1>3. CASE HandleStart
  BY <1>3, ZenonT(90) DEF HandleStart, Handle, Main
<1>4. CASE HandlePause
  BY <1>4, ZenonT(90) DEF HandlePause, Handle, Main
<1>5. CASE HandleSeek
  BY <1>5, ZenonT(90) DEF HandleSeek, Handle, Main, ProcessSeekToMsg, KeepSeek, RefuseSeek, BeginSeek
<1>6. CASE HandlePrepare
  BY <1>6, ZenonT(90) DEF HandlePrepare, Handle, Main
<1>7. CASE OpenUrl
  BY <1>7, ZenonT(90) DEF OpenUrl, Main
<1>8. CASE SeekBeforePrepare
  BY <1>8, ZenonT(90) DEF SeekBeforePrepare, Main
<1>9. CASE InitOpen
  BY <1>9, ZenonT(90) DEF InitOpen, Main
<1>10. CASE ReadPackets
  BY <1>10, ZenonT(90) DEF ReadPackets, Loop, Main
<1>11. CASE Decode
  BY <1>11, ZenonT(90) DEF Decode, Loop, Main
<1>12. CASE NotReady
  BY <1>12, ZenonT(90) DEF NotReady, Loop, Main
<1>13. CASE Ready
  BY <1>13, ZenonT(90) DEF Ready, Loop, Main
<1>14. CASE SoughtToEnd
  BY <1>14, ZenonT(90) DEF SoughtToEnd, Loop, Main
<1>15. CASE NothingToPlay
  BY <1>15, ZenonT(90) DEF NothingToPlay, Loop, Main
<1>16. CASE NotifyPrepared
  BY <1>16, ZenonT(90) DEF NotifyPrepared, Loop, Main
<1>17. CASE AutoStarted
  BY <1>17, ZenonT(90) DEF AutoStarted, Loop, Main
<1>18. CASE BeginLoading
  BY <1>18, ZenonT(90) DEF BeginLoading, Loop, Main
<1>19. CASE EndLoading
  BY <1>19, ZenonT(90) DEF EndLoading, Loop, Main
<1>20. CASE KeepLoading
  BY <1>20, ZenonT(90) DEF KeepLoading, Loop, Main
<1>21. CASE Render
  BY <1>21, ZenonT(90) DEF Render, Loop, Main
<1>22. CASE RenderNothing
  BY <1>22, ZenonT(90) DEF RenderNothing, Loop, Main
<1>23. CASE CheckEOS
  BY <1>23, ZenonT(90) DEF CheckEOS, Loop, Main
<1>24. CASE Completed
  BY <1>24, ZenonT(90) DEF Completed, Loop, Main
<1>25. CASE PlayAgain
  BY <1>25, ZenonT(90) DEF PlayAgain, Main, ProcessSeekToMsg, KeepSeek, RefuseSeek, BeginSeek
<1>26. CASE Complete
  BY <1>26, ZenonT(90) DEF Complete, Loop, Main
<1>27. ASSUME NEW from, NEW to, EndSeek(from, to)
      PROVE  (Flags \subseteq BOOLEAN)'
  BY <1>27, ZenonT(90) DEF EndSeek, Loop, Main
<1>28. CASE AutoStart
  BY <1>28, ZenonT(90) DEF AutoStart, putMsg
<1>. QED  BY <1>1, <1>2, <1>3, <1>4, <1>5, <1>6, <1>7, <1>8, <1>9, <1>10, <1>11, <1>12,
          <1>13, <1>14, <1>15, <1>16, <1>17, <1>18, <1>19, <1>20, <1>21, <1>22, <1>23,
          <1>24, <1>25, <1>26, <1>27, <1>28
          DEF MainService, Handlers, ProcessVideoLoop

(* TypeOK without the queues and the Boolean variables.                    *)
Typed ==
    /\ mPlayStatus \in Statuses
    /\ mSeekPos \in Positions \cup {0, None}
    /\ mDuration \in Durations \cup {None}
    /\ mApsaraThread \in {"idle", "running", "paused"} /\ mpc \in MainSteps
    /\ mPlayerMutex \in Callers \cup {Nobody} /\ pc \in [Callers -> ApiSteps]
    /\ seekPos \in [Callers -> Positions \cup {None}]
    /\ preparing \subseteq Callers

LEMMA ApiTypes ==
  ASSUME Typed, NEW c \in Callers, Call(c) \/ Proceed(c)
  PROVE  Typed'
<1> USE DEF Typed, Goto, ApiSteps, seekVars, dataVars, playVars, apiVars
<1>1. CASE SetDataSource(c) \/ Start(c) \/ Pause(c) \/ Prepare(c) \/ Stop(c)
  BY <1>1 DEF SetDataSource, Start, Pause, Prepare, Stop
<1>2. ASSUME NEW pos \in Positions, SeekTo(c, pos)
      PROVE  Typed'
  BY <1>2 DEF SeekTo
<1>3. CASE StartPut(c) \/ PausePut(c) \/ SeekMark(c) \/ PreparePut(c)
  BY <1>3 DEF StartPut, PausePut, SeekMark, PreparePut
<1>4. CASE StopNothing(c) \/ StopLock(c) \/ StopCancel(c) \/ StopPark(c)
  BY <1>4 DEF StopNothing, StopLock, StopCancel, StopPark, StopReturns
<1>5. CASE StopClear(c) \/ StopReset(c)
  BY <1>5 DEF StopClear, StopReset, StopReturns, Statuses
<1>. QED  BY <1>1, <1>2, <1>3, <1>4, <1>5 DEF Call, Proceed

LEMMA SeekTypes ==
  ASSUME Typed, NEW pos \in Positions \cup {0, None}, ProcessSeekToMsg(pos)
  PROVE  /\ mSeekPos' \in Positions \cup {0, None}
         /\ mPlayStatus' \in Statuses
         /\ mDuration' = mDuration
BY DEF Typed, ProcessSeekToMsg, KeepSeek, RefuseSeek, BeginSeek, Statuses, dataVars, playVars

LEMMA MainTypes ==
  ASSUME Typed, Messages, mpc = "handle" => processQueue # {}, MainService
  PROVE  Typed'
<1> USE DEF Typed, seekVars, dataVars, playVars, apiVars, Statuses, MainSteps
<1>1. CASE Collect
  BY <1>1 DEF Collect, Main
<1>2. CASE HandleSetDataSource \/ HandleStart \/ HandlePause \/ HandlePrepare
  BY <1>2 DEF HandleSetDataSource, HandleStart, HandlePause, HandlePrepare, Handle, Main,
              AfterHandled
<1>3. CASE HandleSeek
  <2>1. Handled.pos \in Positions \cup {None}
    BY <1>3, HandledMessage DEF HandleSeek, Handle, Messages, Message
  <2>2. ProcessSeekToMsg(Handled.pos)
    BY <1>3 DEF HandleSeek
  <2>. QED  BY <1>3, <2>1, <2>2, SeekTypes DEF HandleSeek, Handle, Main, AfterHandled
<1>4. CASE OpenUrl \/ SeekBeforePrepare \/ InitOpen
  BY <1>4 DEF OpenUrl, SeekBeforePrepare, InitOpen, Main, NextMsg
<1>5. CASE ReadPackets \/ Decode
  BY <1>5 DEF ReadPackets, Decode, Loop, Main
<1>6. CASE NotReady \/ Ready \/ SoughtToEnd \/ NothingToPlay
  BY <1>6 DEF NotReady, Ready, SoughtToEnd, NothingToPlay, Loop, Main
<1>7. CASE NotifyPrepared \/ AutoStart \/ AutoStarted
  BY <1>7 DEF NotifyPrepared, AutoStart, AutoStarted, Loop, Main
<1>8. CASE BeginLoading \/ EndLoading \/ KeepLoading
  BY <1>8 DEF BeginLoading, EndLoading, KeepLoading, Loop, Main
<1>9. CASE \/ Render \/ RenderNothing
           \/ EndSeek("endSeek", "checkEOS") \/ EndSeek("completedSeek", "finish")
  BY <1>9 DEF Render, RenderNothing, EndSeek, Loop, Main
<1>10. CASE CheckEOS \/ Completed \/ Complete
  BY <1>10 DEF CheckEOS, Completed, Complete, Loop, Main
<1>11. CASE PlayAgain
  <2>1. ProcessSeekToMsg(0)
    BY <1>11 DEF PlayAgain
  <2>. QED  BY <1>11, <2>1, SeekTypes DEF PlayAgain, Main
<1>. QED  BY <1>1, <1>2, <1>3, <1>4, <1>5, <1>6, <1>7, <1>8, <1>9, <1>10, <1>11
          DEF MainService, Handlers, ProcessVideoLoop

LEMMA TypesStep ==
  ASSUME IInv, [Next]_vars
  PROVE  TypeOK'
<1>1. Typed /\ Messages /\ Flags \subseteq BOOLEAN /\ (mpc = "handle" => processQueue # {})
  BY MessagesHeld DEF IInv, TypeOK, Typed, Ownership
<1>2. Typed'
  <2>1. CASE UNCHANGED vars
    BY <1>1, <2>1 DEF Typed, vars, seekVars, dataVars, playVars, apiVars
  <2>. QED  BY <1>1, <2>1, ApiTypes, MainTypes DEF Next
<1>3. (Flags \subseteq BOOLEAN)'
  <2>1. CASE UNCHANGED vars
    BY <1>1, <2>1, ZenonT(90) DEF Flags, vars, seekVars, dataVars, playVars, flagVars
  <2>. QED  BY <1>1, <2>1, ApiFlags, MainFlags DEF Next
<1>4. Messages'
  BY <1>1, MessagesStep
<1>. QED  BY <1>2, <1>3, <1>4 DEF TypeOK, Typed, Messages, IsMessages

(***************************************************************************)
(* Ownership is inductive by itself: a caller past mPlayerMutex excludes   *)
(* the others, the main thread leaves "top" only while it is running, and  *)
(* only PreparePut, which needs the mutex, sets it running.                *)
(***************************************************************************)
LEMMA ApiOwnership ==
  ASSUME TypeOK, Ownership, NEW c \in Callers, Call(c) \/ Proceed(c)
  PROVE  Ownership'
<1> USE NobodyAssumption DEF TypeOK, Ownership, Goto, ApiSteps, queueVars, playVars, apiVars
<1>1. CASE SetDataSource(c) \/ Start(c) \/ Pause(c) \/ Prepare(c) \/ Stop(c)
  BY <1>1 DEF SetDataSource, Start, Pause, Prepare, Stop, putMsg
<1>2. ASSUME NEW pos \in Positions, SeekTo(c, pos)
      PROVE  Ownership'
  BY <1>2 DEF SeekTo, putMsg
<1>3. CASE StartPut(c) \/ PausePut(c) \/ SeekMark(c)
  BY <1>3 DEF StartPut, PausePut, SeekMark, putMsg
<1>4. CASE PreparePut(c)
  BY <1>4 DEF PreparePut, putMsg
<1>5. CASE StopNothing(c) \/ StopLock(c)
  BY <1>5 DEF StopNothing, StopLock, StopReturns
<1>6. CASE StopCancel(c)
  BY <1>6 DEF StopCancel
<1>7. CASE StopPark(c)
  BY <1>7 DEF StopPark
<1>8. CASE StopClear(c)
  BY <1>8 DEF StopClear
<1>9. CASE StopReset(c)
  BY <1>9 DEF StopReset, StopReturns
<1>. QED  BY <1>1, <1>2, <1>3, <1>4, <1>5, <1>6, <1>7, <1>8, <1>9 DEF Call, Proceed

LEMMA MainRuns ==
  ASSUME Ownership, MainService
  PROVE  mApsaraThread = "running" /\ UNCHANGED apiVars /\ UNCHANGED mApsaraThread
<1> USE DEF Ownership, apiVars
<1>1. CASE Collect
  BY <1>1 DEF Collect, Main
<1>2. CASE Handlers
  BY <1>2 DEF Handlers, HandleSetDataSource, HandleStart, HandlePause, HandleSeek,
              HandlePrepare, Handle, OpenUrl, SeekBeforePrepare, InitOpen, Main
<1>3. CASE ProcessVideoLoop
  BY <1>3 DEF ProcessVideoLoop, ReadPackets, Decode, NotReady, Ready, SoughtToEnd,
              NothingToPlay, NotifyPrepared, AutoStart, AutoStarted, BeginLoading, EndLoading,
              KeepLoading, Render, RenderNothing, EndSeek, CheckEOS, Completed, PlayAgain,
              Complete, Loop, Main
<1>. QED  BY <1>1, <1>2, <1>3 DEF MainService

LEMMA MainQueues ==
  ASSUME Messages, Ownership, MainService
  PROVE  /\ mpc' \notin Handling => processQueue' = {}
         /\ mpc' = "handle" => processQueue' # {}
<1> USE DEF Ownership, Handling, queueVars
<1>1. CASE Collect
  <2> DEFINE taken == {m \in mMsgQueue : m.type \notin Padded}
  <2>1. IsMessages(taken)
    BY SomeMessages DEF Messages
  <2>2. processQueue' = Indexed(taken) /\ mpc' = IF taken = {} THEN "read" ELSE "handle"
    BY <1>1 DEF Collect, Main
  <2> HIDE DEF taken
  <2>. QED  BY <2>1, <2>2, IndexedMessages
<1>2. CASE HandleSetDataSource \/ HandleStart \/ HandlePause \/ HandleSeek \/ HandlePrepare
  <2>1. processQueue' = Rest /\ mpc' \in {AfterHandled, "open"}
    BY <1>2 DEF HandleSetDataSource, HandleStart, HandlePause, HandleSeek, HandlePrepare,
                Handle, Main
  <2>. QED  BY <2>1 DEF AfterHandled
<1>3. CASE OpenUrl \/ SeekBeforePrepare \/ InitOpen
  BY <1>3 DEF OpenUrl, SeekBeforePrepare, InitOpen, Main, NextMsg
<1>4. CASE ProcessVideoLoop
  BY <1>4 DEF ProcessVideoLoop, ReadPackets, Decode, NotReady, Ready, SoughtToEnd,
              NothingToPlay, NotifyPrepared, AutoStart, AutoStarted, BeginLoading, EndLoading,
              KeepLoading, Render, RenderNothing, EndSeek, CheckEOS, Completed, PlayAgain,
              Complete, Loop, Main, putMsg
<1>. QED  BY <1>1, <1>2, <1>3, <1>4 DEF MainService, Handlers

LEMMA OwnershipStep ==
  ASSUME IInv, [Next]_vars
  PROVE  Ownership'
<1>1. TypeOK /\ Ownership /\ Messages
  BY MessagesHeld DEF IInv
<1>2. CASE MainService
  <2>1. \A c \in Callers : pc[c] \notin {"stopClear", "stopReset"}
    BY <1>1, <1>2, MainRuns DEF Ownership
  <2>. QED  BY <1>1, <1>2, <2>1, MainRuns, MainQueues DEF Ownership, apiVars
<1>3. CASE UNCHANGED vars
  BY <1>1, <1>3 DEF Ownership, vars, queueVars, playVars, apiVars
<1>. QED  BY <1>1, <1>2, <1>3, ApiOwnership DEF Next

(***************************************************************************)
(* Where a seek is in progress.  The positions of the queued seeks are in  *)
(* Messages; the rest of SeekSteps depends on who is being reset.          *)
(***************************************************************************)
SeekPlaces ==
    /\ mSeekFlag => seekOpen
    /\ mpc \in {"endSeek", "completedSeek"} => seekOpen /\ ~ mSeekFlag
    /\ mpc \in {"open", "seekBeforePrepare", "finish"} => ~ mSeekFlag
    /\ mpc = "initOpen" /\ mSeekFlag => mSeekPos # None
    /\ mpc \in {"open", "seekBeforePrepare", "initOpen"} => mPlayStatus = "PREPARINIT"
    /\ mPlayStatus \in {"IDLE", "INITIALZED", "STOPPED"} /\ mSeekFlag => BeingReset
    /\ \A c \in Callers : pc[c] = "seekMark" => seekPos[c] # None

LEMMA ApiSeekPlaces ==
  ASSUME TypeOK, Ownership, SeekPlaces, SeekingHeld, NEW c \in Callers, Call(c) \/ Proceed(c)
  PROVE  SeekPlaces' /\ SeekingHeld'
<1> USE NoneAssumption, PositionsAssumption
    DEF TypeOK, ApiSteps, SeekPlaces, SeekingHeld, BeingReset, Goto, Working,
        seekVars, dataVars, playVars, apiVars
<1>1. CASE SetDataSource(c) \/ Start(c) \/ Pause(c) \/ Prepare(c) \/ Stop(c)
  <2>1. \E step \in {"idle", "startPut", "pausePut", "preparePut", "stop"} :
           pc[c] = "idle" /\ pc' = [pc EXCEPT ![c] = step]
    BY <1>1 DEF SetDataSource, Start, Pause, Prepare, Stop
  <2>2. UNCHANGED <<seekVars, dataVars, playVars, seekPos, mpc>>
    BY <1>1, Zenon DEF SetDataSource, Start, Pause, Prepare, Stop
  <2>. QED  BY <2>1, <2>2
<1>2. ASSUME NEW pos \in Positions, SeekTo(c, pos)
      PROVE  SeekPlaces' /\ SeekingHeld'
  BY <1>2 DEF SeekTo
<1>3. CASE StartPut(c) \/ PausePut(c) \/ PreparePut(c)
  BY <1>3 DEF StartPut, PausePut, PreparePut
<1>4. CASE SeekMark(c)
  BY <1>4 DEF SeekMark
<1>5. CASE StopNothing(c) \/ StopLock(c) \/ StopCancel(c) \/ StopPark(c)
  BY <1>5 DEF StopNothing, StopLock, StopCancel, StopPark, StopReturns
<1>6. CASE StopClear(c)
  BY <1>6 DEF StopClear, Ownership
<1>7. CASE StopReset(c)
  BY <1>7 DEF StopReset, StopReturns, Ownership
<1>. QED  BY <1>1, <1>2, <1>3, <1>4, <1>5, <1>6, <1>7 DEF Call, Proceed

LEMMA MainSeekPlaces ==
  ASSUME TypeOK, Ownership, Messages, SeekPlaces, SeekingHeld, MainService
  PROVE  SeekPlaces' /\ SeekingHeld'
<1>0. mDuration \in Int
  BY NoneAssumption, DurationsAssumption DEF TypeOK
<1>1. UNCHANGED apiVars /\ ~ BeingReset
  BY MainRuns DEF Ownership, BeingReset
<1>2. ~ BeingReset' /\ (\A c \in Callers : pc'[c] = "seekMark" => seekPos'[c] # None)
  BY <1>1 DEF BeingReset, SeekPlaces, apiVars
<1> USE <1>1, <1>2, NoneAssumption, PositionsAssumption, DurationsAssumption
    DEF TypeOK, SeekPlaces, SeekingHeld, Working, seekVars, dataVars, playVars
<1>3. CASE Collect
  BY <1>3 DEF Collect, Main
<1>4. CASE HandleSetDataSource \/ HandleStart \/ HandlePause
  BY <1>4 DEF HandleSetDataSource, HandleStart, HandlePause, Handle, Main, AfterHandled
<1>5. CASE HandleSeek
  <2>1. Handled.pos \in Positions /\ processQueue # {}
    BY <1>5, HandledMessage DEF HandleSeek, Handle, Messages, Message, Ownership
  <2>2. mpc' \in {"top", "handle"}
    BY <1>5 DEF HandleSeek, Handle, Main, AfterHandled
  <2>3. CASE KeepSeek(Handled.pos)
    BY <2>1, <2>2, <2>3 DEF KeepSeek
  <2>4. CASE RefuseSeek
    <3>1. ~ (mPlayStatus' \in Working /\ mDuration' > 0)
      BY <1>0, <2>4 DEF RefuseSeek
    <3>2. mPlayStatus' = mPlayStatus /\ mSeekFlag' = mSeekFlag /\ seekOpen' = seekOpen
      BY <2>4 DEF RefuseSeek
    <3>. QED  BY <2>2, <3>1, <3>2
  <2>5. CASE BeginSeek(Handled.pos)
    BY <2>1, <2>2, <2>5 DEF BeginSeek
  <2>. QED  BY <1>5, <2>3, <2>4, <2>5 DEF HandleSeek, ProcessSeekToMsg
<1>6. CASE HandlePrepare
  BY <1>6 DEF HandlePrepare, Handle, Main, AfterHandled
<1>7. CASE OpenUrl
  BY <1>7 DEF OpenUrl, Main, NextMsg
<1>8. CASE SeekBeforePrepare
  BY <1>8 DEF SeekBeforePrepare, Main
<1>9. CASE InitOpen
  BY <1>9 DEF InitOpen, Main, NextMsg
<1>10. CASE ReadPackets \/ Decode
  <2>1. /\ mPlayStatus' \in {mPlayStatus, "ERROR"}
        /\ mpc' \in {"decode", "top", "checkBuffer"}
        /\ UNCHANGED <<seekVars, mDuration>>
    BY <1>10, Zenon DEF ReadPackets, Decode, Loop, Main
  <2>. QED  BY <2>1
<1>11. CASE NotReady \/ Ready \/ SoughtToEnd \/ NothingToPlay
  BY <1>11 DEF NotReady, Ready, SoughtToEnd, NothingToPlay, Loop, Main
<1>12. CASE NotifyPrepared \/ AutoStart \/ AutoStarted
  BY <1>12 DEF NotifyPrepared, AutoStart, AutoStarted, Loop, Main
<1>13. CASE BeginLoading \/ EndLoading \/ KeepLoading
  BY <1>13 DEF BeginLoading, EndLoading, KeepLoading, Loop, Main
<1>14. CASE Render \/ RenderNothing
  BY <1>14 DEF Render, RenderNothing, Loop, Main
<1>15. CASE EndSeek("endSeek", "checkEOS") \/ EndSeek("completedSeek", "finish")
  BY <1>15 DEF EndSeek, Loop, Main
<1>16. CASE CheckEOS \/ Completed \/ Complete
  BY <1>16 DEF CheckEOS, Completed, Complete, Loop, Main
<1>17. CASE PlayAgain
  BY <1>17 DEF PlayAgain, Main, ProcessSeekToMsg, KeepSeek, RefuseSeek, BeginSeek
<1>. QED  BY <1>3, <1>4, <1>5, <1>6, <1>7, <1>8, <1>9, <1>10, <1>11, <1>12, <1>13, <1>14,
             <1>15, <1>16, <1>17 DEF MainService, Handlers, ProcessVideoLoop

LEMMA SeekStep ==
  ASSUME IInv, [Next]_vars
  PROVE  SeekSteps' /\ SeekingHeld'
<1>1. TypeOK /\ Ownership /\ Messages /\ SeekPlaces /\ SeekingHeld
  BY MessagesHeld DEF IInv, SeekSteps, SeekPlaces
<1>2. SeekPlaces' /\ SeekingHeld'
  <2>1. CASE UNCHANGED vars
    BY <1>1, <2>1 DEF SeekPlaces, SeekingHeld, BeingReset, vars, seekVars, dataVars, playVars,
                      apiVars
  <2>. QED  BY <1>1, <2>1, ApiSeekPlaces, MainSeekPlaces DEF Next
<1>3. Messages'
  BY <1>1, MessagesStep
<1>. QED  BY <1>2, <1>3 DEF SeekSteps, SeekPlaces, Messages, IsMessages, Positioned

(***************************************************************************)
(* Where the player can be loading.                                        *)
(***************************************************************************)
LEMMA ApiLoadSteps ==
  ASSUME TypeOK, Ownership, LoadSteps, NEW c \in Callers, Call(c) \/ Proceed(c)
  PROVE  LoadSteps'
<1> USE DEF TypeOK, LoadSteps, BeingReset, Goto, dataVars, playVars, apiVars
<1>1. CASE StopClear(c)
  BY <1>1 DEF StopClear, Ownership
<1>2. CASE StopReset(c)
  BY <1>2 DEF StopReset, StopReturns, Ownership
<1>3. CASE ~ StopClear(c) /\ ~ StopReset(c)
  <2>1. UNCHANGED <<mEof, mBufferingFlag, mPlayStatus, mpc>>
    BY <1>3, Zenon DEF Call, Proceed, SetDataSource, Start, Pause, Prepare, Stop, SeekTo, StartPut,
       PausePut, SeekMark, PreparePut, StopNothing, StopLock, StopCancel, StopPark
  <2>2. \A d \in Callers : pc[d] = "stopReset" => pc'[d] = "stopReset"
    BY <1>3 DEF Call, Proceed, SetDataSource, Start, Pause, Prepare, Stop, SeekTo, StartPut,
       PausePut, SeekMark, PreparePut, StopNothing, StopLock, StopCancel, StopPark, StopReturns
  <2>. QED  BY <2>1, <2>2
<1>. QED  BY <1>1, <1>2, <1>3

LEMMA MainLoadSteps ==
  ASSUME TypeOK, Ownership, LoadSteps, MainService
  PROVE  LoadSteps'
<1>1. ~ BeingReset /\ ~ BeingReset'
  BY MainRuns DEF Ownership, BeingReset, apiVars
<1> USE <1>1 DEF LoadSteps, dataVars, playVars
<1>2. CASE Collect
  BY <1>2 DEF Collect, Main
<1>3. CASE HandleSetDataSource \/ HandleStart \/ HandlePause
  BY <1>3 DEF HandleSetDataSource, HandleStart, HandlePause, Handle, Main, AfterHandled
<1>4. CASE HandleSeek
  BY <1>4 DEF HandleSeek, Handle, Main, AfterHandled, ProcessSeekToMsg, KeepSeek, RefuseSeek,
              BeginSeek
<1>5. CASE HandlePrepare
  BY <1>5 DEF HandlePrepare, Handle, Main, AfterHandled
<1>6. CASE OpenUrl
  BY <1>6 DEF OpenUrl, Main, NextMsg
<1>7. CASE SeekBeforePrepare
  BY <1>7 DEF SeekBeforePrepare, Main
<1>8. CASE InitOpen
  BY <1>8 DEF InitOpen, Main, NextMsg
<1>9. CASE ReadPackets \/ Decode
  <2>1. /\ mPlayStatus' \in {mPlayStatus, "ERROR"}
        /\ mpc' \in {"decode", "top", "checkBuffer"}
        /\ UNCHANGED mBufferingFlag
    BY <1>9, Zenon DEF ReadPackets, Decode, Loop, Main
  <2>. QED  BY <2>1
<1>10. CASE NotReady \/ Ready \/ SoughtToEnd \/ NothingToPlay
  BY <1>10 DEF NotReady, Ready, SoughtToEnd, NothingToPlay, Loop, Main
<1>11. CASE NotifyPrepared \/ AutoStart \/ AutoStarted
  BY <1>11 DEF NotifyPrepared, AutoStart, AutoStarted, Loop, Main
<1>12. CASE BeginLoading \/ EndLoading \/ KeepLoading
  BY <1>12 DEF BeginLoading, LoadingBegins, EndLoading, KeepLoading, Loop, Main
<1>13. CASE Render \/ RenderNothing
  BY <1>13 DEF Render, RenderNothing, Loop, Main
<1>14. CASE EndSeek("endSeek", "checkEOS") \/ EndSeek("completedSeek", "finish")
  BY <1>14 DEF EndSeek, Loop, Main
<1>15. CASE CheckEOS \/ Completed \/ Complete
  BY <1>15 DEF CheckEOS, Drained, Completed, Complete, Loop, Main
<1>16. CASE PlayAgain
  BY <1>16 DEF PlayAgain, Main, ProcessSeekToMsg, KeepSeek, RefuseSeek, BeginSeek
<1>. QED  BY <1>2, <1>3, <1>4, <1>5, <1>6, <1>7, <1>8, <1>9, <1>10, <1>11, <1>12, <1>13,
             <1>14, <1>15, <1>16 DEF MainService, Handlers, ProcessVideoLoop

LEMMA Inductive == IInv /\ [Next]_vars => IInv'
<1> SUFFICES ASSUME IInv, [Next]_vars
             PROVE  IInv'
  OBVIOUS
<1>1. TypeOK'
  BY TypesStep
<1>2. (IsFiniteSet(mMsgQueue) /\ IsFiniteSet(processQueue))'
  BY MessagesHeld, MessagesStep DEF Messages, IsMessages
<1>3. Ownership'
  BY OwnershipStep
<1>4. SeekSteps' /\ SeekingHeld'
  BY SeekStep
<1>5. LoadSteps'
  <2>1. CASE UNCHANGED vars
    BY <2>1 DEF IInv, LoadSteps, BeingReset, vars, dataVars, playVars, apiVars
  <2>. QED  BY <2>1, ApiLoadSteps, MainLoadSteps DEF IInv, Next
<1>. QED  BY <1>1, <1>2, <1>3, <1>4, <1>5 DEF IInv

LEMMA Invariance == Spec => []IInv
BY InitInvariant, Inductive, PTL DEF Spec

-----------------------------------------------------------------------------
(* Every variable has its type, however many threads call and whatever     *)
(* they ask for: in particular a handler never meets an empty queue.       *)
THEOREM TypeCorrect == Spec => []TypeOK
BY Invariance, PTL DEF IInv

(* From the moment Stop() clears the player until it returns, nobody else  *)
(* is inside it: the main thread is parked between two calls of            *)
(* mainService() with no message taken, no other Stop() has the mutex.     *)
THEOREM StopOwns == Spec => []StopOwnsPlayer
<1>1. IInv => StopOwnsPlayer
  BY NobodyAssumption DEF IInv, Ownership, Handling, StopOwnsPlayer
<1>. QED  BY <1>1, Invariance, PTL

(* SeekEnd is only notified after Seeking, whichever of the first rendered *)
(* frame and playCompleted() ends the seek.                                *)
THEOREM SeekEndsMatched == Spec => []SeekEndMatched
<1>1. IInv => SeekEndMatched
  BY DEF IInv, SeekSteps, SeekEndMatched
<1>. QED  BY <1>1, Invariance, PTL

(* While a seek in an on-demand stream is in progress mSeekPos holds a     *)
(* position, although API threads write it without a lock.                 *)
THEOREM SeekHeld == Spec => []SeekingHeld
BY Invariance, PTL DEF IInv

(* A completed player is not loading: EndLoading precedes every way to     *)
(* playCompleted().                                                        *)
THEOREM CompletionNotLoading == Spec => []CompletedNotLoading
<1>1. IInv => CompletedNotLoading
  BY DEF IInv, LoadSteps, BeingReset, Ownership, CompletedNotLoading
<1>. QED  BY <1>1, Invariance, PTL

-----------------------------------------------------------------------------
(***************************************************************************)
(* The use of the worker thread: mainService() begins and returns only     *)
(* while the thread runs, and Stop() parks it only between two calls.      *)
(***************************************************************************)
LEMMA ApiUse ==
  ASSUME TypeOK, NEW c \in Callers, Call(c) \/ Proceed(c)
  PROVE  [Thread!Next]_(Thread!workerVars)
<1> USE DEF Thread!workerVars, ThreadMode
<1>1. CASE PreparePut(c)
  BY <1>1 DEF PreparePut, TypeOK, Thread!Next, Thread!Start
<1>2. CASE StopPark(c)
  BY <1>2 DEF StopPark, TypeOK, Thread!Next, Thread!Park
<1>3. CASE ~ PreparePut(c) /\ ~ StopPark(c)
  BY <1>3 DEF Call, Proceed, SetDataSource, Start, Pause, Prepare, Stop, SeekTo, StartPut,
     PausePut, SeekMark, StopNothing, StopLock, StopCancel, StopClear, StopReset
<1>. QED  BY <1>1, <1>2, <1>3

LEMMA MainUse ==
  ASSUME TypeOK, Ownership, MainService
  PROVE  [Thread!Next]_(Thread!workerVars)
<1> USE DEF Thread!workerVars, ThreadMode
<1>1. mApsaraThread = "running" /\ UNCHANGED mApsaraThread
  BY MainRuns
<1>2. CASE Collect
  BY <1>1, <1>2 DEF Collect, Main, Thread!Next, Thread!Begin
<1>3. CASE ~ Collect
  <2>1. mpc # "top"
    BY <1>3 DEF MainService, Handlers, HandleSetDataSource, HandleStart, HandlePause, HandleSeek,
              HandlePrepare, Handle, OpenUrl, SeekBeforePrepare, InitOpen,
              ProcessVideoLoop, ReadPackets, Decode, NotReady, Ready, SoughtToEnd,
              NothingToPlay, NotifyPrepared, AutoStart, AutoStarted, BeginLoading, EndLoading,
              KeepLoading, Render, RenderNothing, EndSeek, CheckEOS, Completed, PlayAgain,
              Complete, Loop, Main
  <2>. QED  BY <1>1, <2>1 DEF Thread!Next, Thread!End
<1>. QED  BY <1>2, <1>3

(* The control plane uses its worker thread only in the ways that          *)
(* WorkerThread promises, and AfThread is shown to implement: so the main  *)
(* loop keeps its contract whatever API threads start and stop the player. *)
THEOREM ThreadContract == Spec => UsesWorkerThread
<1>1. Init => Thread!Init
  BY DEF Init, Thread!Init, ThreadMode
<1>2. IInv /\ [Next]_vars => [Thread!Next]_(Thread!workerVars)
  <2> SUFFICES ASSUME IInv, [Next]_vars
               PROVE  [Thread!Next]_(Thread!workerVars)
    OBVIOUS
  <2>1. CASE UNCHANGED vars
    BY <2>1 DEF vars, Thread!workerVars, ThreadMode
  <2>. QED  BY <2>1, ApiUse, MainUse DEF IInv, Next
<1>. QED  BY <1>1, <1>2, Invariance, PTL DEF Spec, UsesWorkerThread, Thread!Spec
=============================================================================
