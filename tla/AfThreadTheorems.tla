-------------------------- MODULE AfThreadTheorems --------------------------
(***************************************************************************)
(* afThread keeps its promises to any number of controllers, whatever      *)
(* mFunc returns, with spurious wake-ups.                                  *)
(***************************************************************************)
EXTENDS AfThread, TLAPS

IInv == TypeOK /\ Handshake

LEMMA InitIInv == Init => IInv
BY ThreadsAssumption DEF Init, IInv, TypeOK, Handshake, Statuses, WorkerSteps, ControllerSteps

LEMMA OnRunTypeOK == TypeOK /\ OnRun => TypeOK'
<1> SUFFICES ASSUME TypeOK, OnRun
             PROVE  TypeOK'
  OBVIOUS
<1> USE ThreadsAssumption DEF TypeOK, WorkerSteps
<1>1. CASE WLoop \/ WCheckWait \/ WCheckPaused \/ WCheckRun
  BY <1>1 DEF WLoop, WCheckWait, WCheckPaused, WCheckRun
<1>2. CASE WPark
  BY <1>2 DEF WPark, Statuses
<1>3. CASE WAck
  BY <1>3 DEF WAck, NotifyOne
<1>4. CASE WSleep
  BY <1>4 DEF WSleep
<1>5. CASE WFuncReturn \/ WNegative
  BY <1>5 DEF WFuncReturn, WNegative
<1>6. CASE WCheckTry \/ WTryLock
  BY <1>6 DEF WCheckTry, WTryLock
<1>7. CASE WSelfPause \/ WClearTry
  BY <1>7 DEF WSelfPause, WClearTry, Statuses
<1>. QED  BY <1>1, <1>2, <1>3, <1>4, <1>5, <1>6, <1>7 DEF OnRun

LEMMA CallTypeOK == ASSUME NEW c \in Controllers PROVE TypeOK /\ Call(c) => TypeOK'
BY DEF TypeOK, Call, Lock, StartLock, PauseLock, PrePauseLock, StopLock, ControllerSteps

LEMMA ProceedTypeOK ==
  ASSUME NEW c \in Controllers
  PROVE  TypeOK /\ Proceed(c) => TypeOK'
<1> SUFFICES ASSUME TypeOK, Proceed(c)
             PROVE  TypeOK'
  OBVIOUS
<1> USE DEF TypeOK, ControllerSteps
<1>1. CASE StartClear(c) \/ StopClear(c)
  BY <1>1 DEF StartClear, StopClear
<1>2. CASE StartRun(c)
  BY <1>2 DEF StartRun, NotifyOne, Return, Statuses, WorkerSteps
<1>3. CASE PauseRequest(c)
  <2>1. CASE mThreadStatus = "RUNNING"
    BY <1>3, <2>1 DEF PauseRequest
  <2>2. CASE mThreadStatus # "RUNNING"
    BY <1>3, <2>2 DEF PauseRequest
  <2>. QED  BY <2>1, <2>2
<1>4. CASE PauseWait(c)
  BY <1>4 DEF PauseWait
<1>5. CASE PauseReturn(c) \/ PrePauseReturn(c) \/ StopReturn(c)
  BY <1>5 DEF PauseReturn, PrePauseReturn, StopReturn, Return
<1>6. CASE PrePauseMark(c)
  BY <1>6 DEF PrePauseMark
<1>7. CASE StopSet(c)
  BY <1>7 DEF StopSet, Statuses
<1>8. CASE StopNotify(c)
  BY <1>8 DEF StopNotify, NotifyOne
<1>9. CASE StopJoin(c)
  BY <1>9 DEF StopJoin, WorkerSteps
<1>. QED  BY <1>1, <1>2, <1>3, <1>4, <1>5, <1>6, <1>7, <1>8, <1>9 DEF Proceed

LEMMA OnRunIInv == IInv /\ OnRun => IInv'
<1> SUFFICES ASSUME IInv, OnRun
             PROVE  Handshake'
  BY OnRunTypeOK DEF IInv
<1> USE ThreadsAssumption DEF IInv, TypeOK
<1>1. CASE WLoop
  BY <1>1 DEF WLoop, Handshake, Statuses
<1>2. CASE WCheckWait
  BY <1>2 DEF WCheckWait, Handshake
<1>3. CASE WPark
  BY <1>3 DEF WPark, Handshake
<1>4. CASE WAck
  BY <1>4 DEF WAck, Handshake
<1>5. CASE WCheckPaused
  BY <1>5 DEF WCheckPaused, Handshake
<1>6. CASE WSleep
  BY <1>6 DEF WSleep, Handshake
<1>7. CASE WCheckRun
  BY <1>7 DEF WCheckRun, Handshake
<1>8. CASE WFuncReturn
  BY <1>8 DEF WFuncReturn, Handshake
<1>9. CASE WNegative
  BY <1>9 DEF WNegative, Handshake
<1>10. CASE WCheckTry
  BY <1>10 DEF WCheckTry, Handshake
<1>11. CASE WTryLock
  BY <1>11 DEF WTryLock, Handshake
<1>12. CASE WSelfPause
  BY <1>12 DEF WSelfPause, Handshake
<1>13. CASE WClearTry
  BY <1>13 DEF WClearTry, Handshake
<1>. QED  BY <1>1, <1>2, <1>3, <1>4, <1>5, <1>6, <1>7, <1>8, <1>9, <1>10,
             <1>11, <1>12, <1>13 DEF OnRun

LEMMA CallIInv ==
  ASSUME NEW c \in Controllers
  PROVE  IInv /\ Call(c) => IInv'
<1> SUFFICES ASSUME IInv, Call(c)
             PROVE  Handshake'
  BY CallTypeOK DEF IInv
<1>1. PICK next \in {"startClear", "pauseRequest", "prePauseMark", "stopClear"} :
         Lock(c, next)
  BY DEF Call, StartLock, PauseLock, PrePauseLock, StopLock
<1>. QED  BY <1>1, ThreadsAssumption DEF IInv, TypeOK, Handshake, Lock

LEMMA ProceedIInv ==
  ASSUME NEW c \in Controllers
  PROVE  IInv /\ Proceed(c) => IInv'
<1> SUFFICES ASSUME IInv, Proceed(c)
             PROVE  Handshake'
  BY ProceedTypeOK DEF IInv
<1> USE ThreadsAssumption DEF IInv, TypeOK
<1>1. CASE StartClear(c)
  BY <1>1 DEF StartClear, Handshake
<1>2. CASE StartRun(c)
  BY <1>2 DEF StartRun, Return, Handshake
<1>3. CASE PauseRequest(c)
  BY <1>3 DEF PauseRequest, Handshake
<1>4. CASE PauseWait(c)
  BY <1>4 DEF PauseWait, Handshake
<1>5. CASE PauseReturn(c)
  BY <1>5 DEF PauseReturn, Return, Handshake
<1>6. CASE PrePauseMark(c)
  BY <1>6 DEF PrePauseMark, Handshake
<1>7. CASE PrePauseReturn(c)
  BY <1>7 DEF PrePauseReturn, Return, Handshake
<1>8. CASE StopClear(c)
  BY <1>8 DEF StopClear, Handshake
<1>9. CASE StopSet(c)
  BY <1>9 DEF StopSet, Handshake
<1>10. CASE StopNotify(c)
  BY <1>10 DEF StopNotify, Handshake
<1>11. CASE StopJoin(c)
  BY <1>11 DEF StopJoin, Handshake
<1>12. CASE StopReturn(c)
  BY <1>12 DEF StopReturn, Return, Handshake
<1>. QED  BY <1>1, <1>2, <1>3, <1>4, <1>5, <1>6, <1>7, <1>8, <1>9, <1>10,
             <1>11, <1>12 DEF Proceed

LEMMA NextIInv == IInv /\ [Next]_vars => IInv'
<1> SUFFICES ASSUME IInv, [Next]_vars
             PROVE  IInv'
  OBVIOUS
<1>1. CASE OnRun
  BY <1>1, OnRunIInv
<1>2. ASSUME NEW c \in Controllers, Call(c) \/ Proceed(c)
      PROVE  IInv'
  BY <1>2, CallIInv, ProceedIInv
<1>3. CASE SpuriousWakeUp
  BY <1>3 DEF SpuriousWakeUp, IInv, TypeOK, Handshake
<1>4. CASE UNCHANGED vars
  BY <1>4 DEF vars, IInv, TypeOK, Handshake
<1>. QED  BY <1>1, <1>2, <1>3, <1>4 DEF Next

LEMMA Invariance == Spec => []IInv
BY InitIInv, NextIInv, PTL DEF Spec

-----------------------------------------------------------------------------
(* Every variable keeps its type.                                          *)
THEOREM TypeCorrect == Spec => []TypeOK
<1>1. IInv => TypeOK
  BY DEF IInv
<1>. QED  BY <1>1, Invariance, PTL

(* The owner of a paused afThread never meets its function running.        *)
THEOREM Parked == Spec => []PausedMeansParked
<1>1. IInv => PausedMeansParked
  BY DEF IInv, Handshake, PausedMeansParked, InFunc
<1>. QED  BY <1>1, Invariance, PTL

(* pause() returns with the worker parked, stop() with the thread gone.    *)
THEOREM CallsReturnParked == Spec => []ReturnsParked
<1>1. IInv => ReturnsParked
  <2> SUFFICES ASSUME IInv, NEW c \in Controllers
               PROVE  /\ pc[c] = "pauseReturn" => mThreadStatus # "RUNNING" /\ ~ InFunc
                      /\ pc[c] = "stopReturn" => wpc = "off"
    BY DEF ReturnsParked
  <2>1. pc[c] = "stopReturn" => wpc = "off"
    BY DEF IInv, Handshake
  <2>2. ASSUME pc[c] = "pauseReturn", InFunc
        PROVE  FALSE
    <3>1. mThreadStatus \in {"IDLE", "STOPPED", "RUNNING", "PAUSED"} /\ mMutex = c
      BY <2>2 DEF IInv, TypeOK, Statuses, Handshake
    <3>2. mThreadStatus = "STOPPED"
      BY <2>2, <3>1 DEF IInv, Handshake, InFunc
    <3>. QED  BY <2>2, <3>1, <3>2 DEF IInv, Handshake, InFunc
  <2>3. pc[c] = "pauseReturn" => mThreadStatus # "RUNNING"
    BY DEF IInv, Handshake
  <2>. QED  BY <2>1, <2>2, <2>3
<1>. QED  BY <1>1, Invariance, PTL

-----------------------------------------------------------------------------
(***************************************************************************)
(* The refinement: every step of afThread is a step of WorkerThread or a   *)
(* stutter.                                                                *)
(***************************************************************************)
LEMMA OnRunRefines ==
  ASSUME IInv, OnRun
  PROVE  [Abstract!Next]_(Abstract!workerVars)
<1> USE DEF IInv, TypeOK, Abstract!workerVars, AbstractMode, InFunc, Statuses
<1>1. CASE WLoop \/ WCheckWait \/ WAck \/ WCheckPaused \/ WSleep
  BY <1>1 DEF WLoop, WCheckWait, WAck, WCheckPaused, WSleep, Handshake
<1>2. CASE WNegative \/ WCheckTry \/ WTryLock \/ WClearTry
  BY <1>2 DEF WNegative, WCheckTry, WTryLock, WClearTry, Handshake
<1>3. CASE WPark
  <2>1. Abstract!Park
    BY <1>3 DEF WPark, Handshake, Abstract!Park
  <2>. QED  BY <2>1 DEF Abstract!Next
<1>4. CASE WSelfPause
  <2>1. mThreadStatus = "RUNNING"
    BY <1>4, ThreadsAssumption DEF WSelfPause, Handshake
  <2>2. Abstract!Park
    BY <1>4, <2>1 DEF WSelfPause, Abstract!Park
  <2>. QED  BY <2>2 DEF Abstract!Next
<1>5. CASE WCheckRun
  <2>1. CASE mThreadStatus = "RUNNING"
    <3>1. Abstract!Begin
      BY <1>5, <2>1 DEF WCheckRun, Abstract!Begin
    <3>. QED  BY <3>1 DEF Abstract!Next
  <2>2. CASE mThreadStatus # "RUNNING"
    BY <1>5, <2>2 DEF WCheckRun, Handshake
  <2>. QED  BY <2>1, <2>2
<1>6. CASE WFuncReturn
  <2>1. Abstract!End
    BY <1>6 DEF WFuncReturn, Abstract!End
  <2>. QED  BY <2>1 DEF Abstract!Next
<1>. QED  BY <1>1, <1>2, <1>3, <1>4, <1>5, <1>6 DEF OnRun

LEMMA ControllerRefines ==
  ASSUME IInv, NEW c \in Controllers, Call(c) \/ Proceed(c)
  PROVE  [Abstract!Next]_(Abstract!workerVars)
<1> USE DEF IInv, TypeOK, Abstract!workerVars, AbstractMode, InFunc, Statuses
<1>1. CASE Call(c)
  BY <1>1 DEF Call, Lock, StartLock, PauseLock, PrePauseLock, StopLock
<1>2. CASE StartClear(c) \/ PauseRequest(c) \/ PauseWait(c) \/ PauseReturn(c)
  BY <1>2 DEF StartClear, PauseRequest, PauseWait, PauseReturn
<1>3. CASE PrePauseMark(c) \/ PrePauseReturn(c) \/ StopClear(c) \/ StopNotify(c)
           \/ StopReturn(c)
  BY <1>3 DEF PrePauseMark, PrePauseReturn, StopClear, StopNotify, StopReturn
<1>4. CASE StartRun(c)
  <2>1. mThreadStatus = "STOPPED" => wpc = "off"
    BY <1>4, ThreadsAssumption DEF StartRun, Handshake
  <2>2. Abstract!Start
    BY <1>4, <2>1 DEF StartRun, Handshake, Abstract!Start
  <2>. QED  BY <2>2 DEF Abstract!Next
<1>5. CASE StopSet(c)
  <2>1. CASE wpc = "off"
    BY <1>5, <2>1 DEF StopSet, Handshake
  <2>2. CASE wpc # "off"
    <3>1. Abstract!Stop
      BY <1>5, <2>2 DEF StopSet, Handshake, Abstract!Stop
    <3>. QED  BY <3>1 DEF Abstract!Next
  <2>. QED  BY <2>1, <2>2
<1>6. CASE StopJoin(c)
  <2>1. mThreadStatus = "STOPPED"
    BY <1>6 DEF StopJoin, Handshake
  <2>2. CASE wpc = "off"
    BY <1>6, <2>1, <2>2 DEF StopJoin
  <2>3. CASE wpc # "off"
    <3>1. Abstract!Join
      BY <1>6, <2>1, <2>3 DEF StopJoin, Abstract!Join
    <3>. QED  BY <3>1 DEF Abstract!Next
  <2>. QED  BY <2>2, <2>3
<1>. QED  BY <1>1, <1>2, <1>3, <1>4, <1>5, <1>6 DEF Proceed

(* afThread implements WorkerThread.                                       *)
THEOREM Refinement == Spec => ImplementsWorkerThread
<1>1. Init => Abstract!Init
  BY DEF Init, Abstract!Init, AbstractMode, InFunc
<1>2. IInv /\ [Next]_vars => [Abstract!Next]_(Abstract!workerVars)
  <2> SUFFICES ASSUME IInv, [Next]_vars
               PROVE  [Abstract!Next]_(Abstract!workerVars)
    OBVIOUS
  <2>1. CASE OnRun
    BY <2>1, OnRunRefines
  <2>2. ASSUME NEW c \in Controllers, Call(c) \/ Proceed(c)
        PROVE  [Abstract!Next]_(Abstract!workerVars)
    BY <2>2, ControllerRefines
  <2>3. CASE SpuriousWakeUp \/ UNCHANGED vars
    BY <2>3 DEF SpuriousWakeUp, vars, Abstract!workerVars, AbstractMode, InFunc
  <2>. QED  BY <2>1, <2>2, <2>3 DEF Next
<1>. QED  BY <1>1, <1>2, Invariance, PTL DEF Spec, ImplementsWorkerThread, Abstract!Spec
=============================================================================
