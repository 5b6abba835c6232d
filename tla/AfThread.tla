------------------------------ MODULE AfThread ------------------------------
(***************************************************************************)
(* framework/utils/afThread.cpp: a worker thread that other threads start, *)
(* pause, ask to pause and stop.  Every access to an atomic is a step of   *)
(* its own; a section under mSleepMutex is one step, because nothing in it *)
(* blocks but the wait on mSleepCondition, which releases the mutex.       *)
(*                                                                         *)
(* Calls on an afThread from inside its own function, detach(),            *)
(* forceStop() and the destructor are left out.                            *)
(***************************************************************************)
EXTENDS Integers

CONSTANTS
    Controllers,  \* threads that call start(), pause(), prePause(), stop()
    Worker,       \* the thread that runs onRun()
    Nobody,       \* mMutex is free
    FuncResults   \* what mFunc may return

ASSUME ThreadsAssumption ==
    Worker \notin Controllers /\ Nobody \notin Controllers \cup {Worker}
ASSUME FuncAssumption == FuncResults \subseteq Int

VARIABLES
    mThreadStatus,
    mWaitPaused,
    mTryPaused,
    mMutex,        \* the thread that holds it
    sleepers,      \* threads blocked on mSleepCondition, not yet notified
    wpc,           \* where the worker is in onRun(); "off": there is no thread
    pc             \* pc[c]: where controller c is; "idle": outside afThread

vars == <<mThreadStatus, mWaitPaused, mTryPaused, mMutex, sleepers, wpc, pc>>

Statuses == {"IDLE", "STOPPED", "RUNNING", "PAUSED"}

WorkerSteps == {"off", "loop", "chkWait", "park", "ack", "chkPaused", "sleep",
                "chkRun", "func", "negative", "chkTry", "tryLock", "selfPause",
                "clearTry", "exited"}

ControllerSteps == {"idle", "startClear", "startRun",
                    "pauseRequest", "pauseWait", "pauseReturn",
                    "prePauseMark", "prePauseReturn",
                    "stopClear", "stopSet", "stopNotify", "stopJoin", "stopReturn"}

Init ==
    /\ mThreadStatus = "IDLE"
    /\ mWaitPaused = FALSE
    /\ mTryPaused = FALSE
    /\ mMutex = Nobody
    /\ sleepers = {}
    /\ wpc = "off"
    /\ pc = [c \in Controllers |-> "idle"]

(* mSleepCondition.notify_one() wakes one of the blocked threads, if any.  *)
NotifyOne ==
    IF sleepers = {} THEN UNCHANGED sleepers
    ELSE \E t \in sleepers : sleepers' = sleepers \ {t}

-----------------------------------------------------------------------------
(***************************************************************************)
(* onRun()                                                                 *)
(***************************************************************************)
WLoop ==
    /\ wpc = "loop"
    /\ wpc' = IF mThreadStatus \in {"RUNNING", "PAUSED"} THEN "chkWait" ELSE "exited"
    /\ UNCHANGED <<mThreadStatus, mWaitPaused, mTryPaused, mMutex, sleepers, pc>>

WCheckWait ==
    /\ wpc = "chkWait"
    /\ wpc' = IF mWaitPaused THEN "park" ELSE "chkPaused"
    /\ UNCHANGED <<mThreadStatus, mWaitPaused, mTryPaused, mMutex, sleepers, pc>>

WPark ==
    /\ wpc = "park"
    /\ mThreadStatus' = "PAUSED"
    /\ wpc' = "ack"
    /\ UNCHANGED <<mWaitPaused, mTryPaused, mMutex, sleepers, pc>>

(* A mutant: pause() is not told.                                          *)
WAckSilently ==
    /\ wpc = "ack"
    /\ mWaitPaused' = FALSE
    /\ wpc' = "chkPaused"
    /\ UNCHANGED <<mThreadStatus, mTryPaused, mMutex, sleepers, pc>>

WAck ==
    /\ wpc = "ack"
    /\ mWaitPaused' = FALSE
    /\ NotifyOne
    /\ wpc' = "chkPaused"
    /\ UNCHANGED <<mThreadStatus, mTryPaused, mMutex, pc>>

WCheckPaused ==
    /\ wpc = "chkPaused"
    /\ wpc' = IF mThreadStatus = "PAUSED" THEN "sleep" ELSE "chkRun"
    /\ UNCHANGED <<mThreadStatus, mWaitPaused, mTryPaused, mMutex, sleepers, pc>>

(* mSleepCondition.wait(): the predicate is tested before the first wait   *)
(* and after every wake-up.                                                *)
WSleep ==
    /\ wpc = "sleep"
    /\ Worker \notin sleepers
    /\ IF mThreadStatus = "PAUSED"
       THEN sleepers' = sleepers \cup {Worker} /\ UNCHANGED wpc
       ELSE wpc' = "chkTry" /\ UNCHANGED sleepers
    /\ UNCHANGED <<mThreadStatus, mWaitPaused, mTryPaused, mMutex, pc>>

WCheckRun ==
    /\ wpc = "chkRun"
    /\ wpc' = IF mThreadStatus = "RUNNING" THEN "func" ELSE "chkTry"
    /\ UNCHANGED <<mThreadStatus, mWaitPaused, mTryPaused, mMutex, sleepers, pc>>

WFuncReturn ==
    /\ wpc = "func"
    /\ \E ret \in FuncResults : wpc' = IF ret < 0 THEN "negative" ELSE "chkTry"
    /\ UNCHANGED <<mThreadStatus, mWaitPaused, mTryPaused, mMutex, sleepers, pc>>

WNegative ==
    /\ wpc = "negative"
    /\ mTryPaused' = TRUE
    /\ wpc' = "chkTry"
    /\ UNCHANGED <<mThreadStatus, mWaitPaused, mMutex, sleepers, pc>>

WCheckTry ==
    /\ wpc = "chkTry"
    /\ wpc' = IF mTryPaused THEN "tryLock" ELSE "loop"
    /\ UNCHANGED <<mThreadStatus, mWaitPaused, mTryPaused, mMutex, sleepers, pc>>

(* A mutant: the worker parks itself without mMutex.                       *)
WNoLock ==
    /\ wpc = "tryLock"
    /\ wpc' = "selfPause"
    /\ UNCHANGED <<mThreadStatus, mWaitPaused, mTryPaused, mMutex, sleepers, pc>>

WTryLock ==
    /\ wpc = "tryLock"
    /\ IF mMutex = Nobody
       THEN mMutex' = Worker /\ wpc' = "selfPause"
       ELSE wpc' = "clearTry" /\ UNCHANGED mMutex
    /\ UNCHANGED <<mThreadStatus, mWaitPaused, mTryPaused, sleepers, pc>>

WSelfPause ==
    /\ wpc = "selfPause"
    /\ mThreadStatus' = "PAUSED"
    /\ mMutex' = Nobody
    /\ wpc' = "clearTry"
    /\ UNCHANGED <<mWaitPaused, mTryPaused, sleepers, pc>>

WClearTry ==
    /\ wpc = "clearTry"
    /\ mTryPaused' = FALSE
    /\ wpc' = "loop"
    /\ UNCHANGED <<mThreadStatus, mWaitPaused, mMutex, sleepers, pc>>

OnRun ==
    \/ WLoop \/ WCheckWait \/ WPark \/ WAck \/ WCheckPaused \/ WSleep
    \/ WCheckRun \/ WFuncReturn \/ WNegative
    \/ WCheckTry \/ WTryLock \/ WSelfPause \/ WClearTry

-----------------------------------------------------------------------------
(* The lock_guard on mMutex at the head of start(), pause() and stop().    *)
Lock(c, next) ==
    /\ pc[c] = "idle"
    /\ mMutex = Nobody
    /\ mMutex' = c
    /\ pc' = [pc EXCEPT ![c] = next]
    /\ UNCHANGED <<mThreadStatus, mWaitPaused, mTryPaused, sleepers, wpc>>

(* Its release where the function returns.                                 *)
Return(c) ==
    /\ mMutex' = Nobody
    /\ pc' = [pc EXCEPT ![c] = "idle"]

StartLock(c) == Lock(c, "startClear")

StartClear(c) ==
    /\ pc[c] = "startClear"
    /\ mTryPaused' = FALSE
    /\ pc' = [pc EXCEPT ![c] = "startRun"]
    /\ UNCHANGED <<mThreadStatus, mWaitPaused, mMutex, sleepers, wpc>>

(* A mutant: the sleeping worker is not woken.                             *)
StartSilently(c) ==
    /\ pc[c] = "startRun"
    /\ mThreadStatus' = "RUNNING"
    /\ wpc' = IF wpc = "off" THEN "loop" ELSE wpc
    /\ Return(c)
    /\ UNCHANGED <<mWaitPaused, mTryPaused, sleepers>>

(* Creates the thread, or wakes the one there is.                          *)
StartRun(c) ==
    /\ pc[c] = "startRun"
    /\ mThreadStatus' = "RUNNING"
    /\ IF wpc = "off"
       THEN wpc' = "loop" /\ UNCHANGED sleepers
       ELSE NotifyOne /\ UNCHANGED wpc
    /\ Return(c)
    /\ UNCHANGED <<mWaitPaused, mTryPaused>>

PauseLock(c) == Lock(c, "pauseRequest")

(* mWaitPaused is set and the wait begins under one lock.                  *)
PauseRequest(c) ==
    /\ pc[c] = "pauseRequest"
    /\ IF mThreadStatus = "RUNNING"
       THEN /\ mWaitPaused' = TRUE
            /\ sleepers' = sleepers \cup {c}
            /\ pc' = [pc EXCEPT ![c] = "pauseWait"]
       ELSE /\ pc' = [pc EXCEPT ![c] = "pauseReturn"]
            /\ UNCHANGED <<mWaitPaused, sleepers>>
    /\ UNCHANGED <<mThreadStatus, mTryPaused, mMutex, wpc>>

(* After a wake-up.                                                        *)
PauseWait(c) ==
    /\ pc[c] = "pauseWait"
    /\ c \notin sleepers
    /\ IF mWaitPaused
       THEN sleepers' = sleepers \cup {c} /\ UNCHANGED pc
       ELSE pc' = [pc EXCEPT ![c] = "pauseReturn"] /\ UNCHANGED sleepers
    /\ UNCHANGED <<mThreadStatus, mWaitPaused, mTryPaused, mMutex, wpc>>

PauseReturn(c) ==
    /\ pc[c] = "pauseReturn"
    /\ Return(c)
    /\ UNCHANGED <<mThreadStatus, mWaitPaused, mTryPaused, sleepers, wpc>>

(* prePause() gives up when it does not get mMutex at once; that call is a *)
(* step that changes nothing and needs no action.                          *)
PrePauseLock(c) == Lock(c, "prePauseMark")

(* A mutant: the worker is parked at once.                                 *)
PrePauseAtOnce(c) ==
    /\ pc[c] = "prePauseMark"
    /\ mThreadStatus' = IF mThreadStatus = "RUNNING" THEN "PAUSED" ELSE mThreadStatus
    /\ pc' = [pc EXCEPT ![c] = "prePauseReturn"]
    /\ UNCHANGED <<mWaitPaused, mTryPaused, mMutex, sleepers, wpc>>

PrePauseMark(c) ==
    /\ pc[c] = "prePauseMark"
    /\ mTryPaused' = (mTryPaused \/ mThreadStatus = "RUNNING")
    /\ pc' = [pc EXCEPT ![c] = "prePauseReturn"]
    /\ UNCHANGED <<mThreadStatus, mWaitPaused, mMutex, sleepers, wpc>>

PrePauseReturn(c) ==
    /\ pc[c] = "prePauseReturn"
    /\ Return(c)
    /\ UNCHANGED <<mThreadStatus, mWaitPaused, mTryPaused, sleepers, wpc>>

StopLock(c) == Lock(c, "stopClear")

StopClear(c) ==
    /\ pc[c] = "stopClear"
    /\ mTryPaused' = FALSE
    /\ pc' = [pc EXCEPT ![c] = "stopSet"]
    /\ UNCHANGED <<mThreadStatus, mWaitPaused, mMutex, sleepers, wpc>>

StopSet(c) ==
    /\ pc[c] = "stopSet"
    /\ mThreadStatus' = "STOPPED"
    /\ pc' = [pc EXCEPT ![c] = "stopNotify"]
    /\ UNCHANGED <<mWaitPaused, mTryPaused, mMutex, sleepers, wpc>>

(* A mutant: the sleeping worker is not woken to exit.                     *)
StopSilently(c) ==
    /\ pc[c] = "stopNotify"
    /\ pc' = [pc EXCEPT ![c] = "stopJoin"]
    /\ UNCHANGED <<mThreadStatus, mWaitPaused, mTryPaused, mMutex, sleepers, wpc>>

StopNotify(c) ==
    /\ pc[c] = "stopNotify"
    /\ NotifyOne
    /\ pc' = [pc EXCEPT ![c] = "stopJoin"]
    /\ UNCHANGED <<mThreadStatus, mWaitPaused, mTryPaused, mMutex, wpc>>

(* A mutant: the thread is not joined.                                     *)
StopDetach(c) ==
    /\ pc[c] = "stopJoin"
    /\ pc' = [pc EXCEPT ![c] = "stopReturn"]
    /\ UNCHANGED <<mThreadStatus, mWaitPaused, mTryPaused, mMutex, sleepers, wpc>>

StopJoin(c) ==
    /\ pc[c] = "stopJoin"
    /\ wpc \in {"off", "exited"}
    /\ wpc' = "off"
    /\ pc' = [pc EXCEPT ![c] = "stopReturn"]
    /\ UNCHANGED <<mThreadStatus, mWaitPaused, mTryPaused, mMutex, sleepers>>

StopReturn(c) ==
    /\ pc[c] = "stopReturn"
    /\ Return(c)
    /\ UNCHANGED <<mThreadStatus, mWaitPaused, mTryPaused, sleepers, wpc>>

Call(c) == StartLock(c) \/ PauseLock(c) \/ PrePauseLock(c) \/ StopLock(c)

Proceed(c) ==
    \/ StartClear(c) \/ StartRun(c)
    \/ PauseRequest(c) \/ PauseWait(c) \/ PauseReturn(c)
    \/ PrePauseMark(c) \/ PrePauseReturn(c)
    \/ StopClear(c) \/ StopSet(c) \/ StopNotify(c) \/ StopJoin(c) \/ StopReturn(c)

(* A condition variable may wake a thread nobody notified.                 *)
SpuriousWakeUp ==
    /\ \E t \in sleepers : sleepers' = sleepers \ {t}
    /\ UNCHANGED <<mThreadStatus, mWaitPaused, mTryPaused, mMutex, wpc, pc>>

Next ==
    \/ OnRun
    \/ \E c \in Controllers : Call(c) \/ Proceed(c)
    \/ SpuriousWakeUp

(***************************************************************************)
(* Fairness: a thread that can take a step is scheduled, and mFunc         *)
(* returns.  Nothing obliges a controller to make a call.                  *)
(***************************************************************************)
Fairness ==
    /\ WF_vars(OnRun)
    /\ \A c \in Controllers : WF_vars(Proceed(c))

Spec == Init /\ [][Next]_vars
FairSpec == Spec /\ Fairness

-----------------------------------------------------------------------------
(* Types, and: a thread blocked on mSleepCondition is in one of its two    *)
(* waits.                                                                  *)
TypeOK ==
    /\ mThreadStatus \in Statuses
    /\ mWaitPaused \in BOOLEAN
    /\ mTryPaused \in BOOLEAN
    /\ mMutex \in Controllers \cup {Worker, Nobody}
    /\ sleepers \subseteq {c \in Controllers : pc[c] = "pauseWait"}
                              \cup {t \in {Worker} : wpc = "sleep"}
    /\ wpc \in WorkerSteps
    /\ pc \in [Controllers -> ControllerSteps]

InFunc == wpc = "func"

(* While the status reads PAUSED the function is not being called, so its  *)
(* owner may touch what the function uses.                                 *)
PausedMeansParked == mThreadStatus = "PAUSED" => ~ InFunc

(* When pause() returns, the function is not being called and will not be  *)
(* until another start(); when stop() returns, the thread is gone.         *)
ReturnsParked ==
    \A c \in Controllers :
        /\ pc[c] = "pauseReturn" => mThreadStatus # "RUNNING" /\ ~ InFunc
        /\ pc[c] = "stopReturn" => wpc = "off"

(* How the mutex, the flags and the status fit together: the proofs'       *)
(* strengthening of the two invariants above.                              *)
Handshake ==
    /\ \A c \in Controllers : pc[c] # "idle" <=> mMutex = c
    /\ mMutex = Worker <=> wpc = "selfPause"
    /\ wpc \in {"park", "ack"} => mWaitPaused
    /\ mWaitPaused =>
          /\ \E c \in Controllers : pc[c] = "pauseWait"
          /\ mThreadStatus = "RUNNING" \/ wpc = "ack"
    /\ wpc = "ack" => mThreadStatus = "PAUSED"
    /\ wpc = "exited" => mThreadStatus = "STOPPED"
    /\ mThreadStatus = "IDLE" => wpc = "off"
    /\ mThreadStatus = "RUNNING" => wpc # "off"
    /\ mThreadStatus = "PAUSED" =>
          wpc \in {"ack", "chkPaused", "sleep", "clearTry", "loop", "chkWait"}
    /\ mThreadStatus = "STOPPED" =>
          \/ wpc = "off"
          \/ \E c \in Controllers : pc[c] \in {"stopNotify", "stopJoin"}
    /\ \A c \in Controllers :
          /\ pc[c] = "pauseWait" /\ ~ mWaitPaused => mThreadStatus = "PAUSED"
          /\ pc[c] = "pauseReturn" => mThreadStatus # "RUNNING"
          /\ pc[c] \in {"stopNotify", "stopJoin"} => mThreadStatus = "STOPPED"
          /\ pc[c] = "stopReturn" => wpc = "off"

(* afThread implements WorkerThread.                                       *)
AbstractMode ==
    CASE mThreadStatus = "RUNNING" -> "running"
      [] mThreadStatus = "PAUSED" -> "parked"
      [] OTHER -> IF wpc = "off" THEN "off" ELSE "stopping"

Abstract == INSTANCE WorkerThread WITH mode <- AbstractMode, busy <- InFunc

ImplementsWorkerThread == Abstract!Spec

(* A pause() that has asked the worker to park returns, and so does a      *)
(* stop(): no wake-up is lost, whatever prePause() and the worker's own    *)
(* pause do meanwhile.                                                     *)
PauseReturns ==
    \A c \in Controllers : pc[c] = "pauseWait" ~> pc[c] = "idle"
StopReturns ==
    \A c \in Controllers : pc[c] = "stopNotify" ~> pc[c] = "idle"

(* A started worker calls the function, unless it is parked or stopped.    *)
StartRuns == mThreadStatus = "RUNNING" ~> (InFunc \/ mThreadStatus # "RUNNING")
=============================================================================
