----------------------------- MODULE CurlSource -----------------------------
(***************************************************************************)
(* framework/data_source/curl: CurlDataSource2 reads a file over HTTP      *)
(* through a CURLConnection2, whose transfer is run by the thread of the   *)
(* one CurlMulti of the process.  Each source has one reader, which opens, *)
(* reads, seeks and closes; the network manager and the application set    *)
(* mNeedReconnect and mInterrupt from other threads.                       *)
(*                                                                         *)
(* A byte of the file is its position; libcurl (the multi handle, the      *)
(* transfers, the messages) is modelled as far as the code relies on it:   *)
(* transfers are added, paused, continued, completed, failed and removed   *)
(* by the loop thread only, and a paused transfer neither moves nor fails. *)
(* Ranges, POST data, HTTP headers and the statistics are left out.        *)
(***************************************************************************)
EXTENDS ByteWindow, FiniteSets

CONSTANTS
    Sources,
    Handles,           \* addresses of connections, used again after a delete
                       \* unless a list of CurlMulti still has them
    FileSize,
    READ_BUFFER_SIZE,  \* the most a write_callback() gets
    m_bufferSize,      \* how far short_seek() reads on: 64 KiB
    SeekTargets,       \* bound: offsets the reader seeks to
    ReadSizes,         \* bound: sizes the reader asks for
    MaxErrors,         \* bound: transfers that fail
    MaxReconnects,     \* bound: calls of OnReconnect()
    ErrorPages         \* a server may answer with an error page

None == "none"    \* no connection
PageByte == -1    \* a byte of an error page

ASSUME CurlAssumption ==
    /\ FileSize \in Nat \ {0}
    /\ READ_BUFFER_SIZE \in Nat \ {0}
    /\ m_bufferSize \in Nat \ {0}
    /\ m_bufferSize + READ_BUFFER_SIZE < m_size - m_back_size
    /\ None \notin Handles
    /\ ErrorPages \in BOOLEAN
    /\ SeekTargets \subseteq Nat /\ ReadSizes \subseteq Nat \ {0}
    /\ MaxErrors \in Nat /\ MaxReconnects \in Nat

VARIABLES
    \* CurlDataSource2
    mPConnection,    \* the connection the reader works with
    mFileSize,       \* 0: not known yet
    mInterrupt, mNeedReconnect,
    rpc,             \* where the reader is
    after,           \* what it does when FillBuffer() returns
    want,            \* what it wants FillBuffer() to have
    target,          \* the offset it connects or seeks to
    size,            \* the size of a read
    len,             \* short_seek(): the bytes skipped before FillBuffer()
    seen,            \* FillBuffer(): CURLResult
    ret,             \* what FillBuffer() returned
    result,          \* what the last call returned
    \* CURLConnection2
    alive,           \* connections that exist
    ring, mFilePos, mPaused, mEOS, mStatus,
    mCurlCbMutex,    \* short_seek() of the reader holds it
    \* libcurl
    multi,           \* handles in the multi handle
    resumeFrom,      \* CURLOPT_RESUME_FROM_LARGE
    at,              \* position of the next byte of the transfer
    page,            \* the transfer is that of an error page
    stopped,         \* the transfer is paused
    msgs,            \* transfers that ended, for curl_multi_info_read()
    \* CurlMulti
    mAddList, mResumeList, mDeleteList,
    lpc,             \* where the loop thread is
    back,            \* where it goes when write_callback() returns
    lh,              \* the connection it calls back
    batch,           \* what is left of mResumeList, which it keeps locked
    eof,             \* loop(): status.eof
    \* history
    errors, reconnects,
    strayed          \* connections whose buffer or position was led astray:
                     \* by SeekPastEnd(), or where a transfer begins or ends

sourceVars == <<mPConnection, mFileSize, mInterrupt, mNeedReconnect>>
readerVars == <<rpc, after, want, target, size, len, seen, ret, result>>
connVars == <<alive, ring, mFilePos, mPaused, mEOS, mStatus, mCurlCbMutex>>
curlVars == <<multi, resumeFrom, at, page, stopped, msgs>>
listVars == <<mAddList, mResumeList, mDeleteList>>
loopVars == <<lpc, back, lh, batch, eof>>
history == <<errors, reconnects, strayed>>
vars == <<sourceVars, readerVars, connVars, curlVars, listVars, loopVars, history>>

Outcomes == {"ok", "retry", "fatal"}

SourceTypeOK ==
    /\ mPConnection \in [Sources -> Handles \cup {None}]
    /\ mFileSize \in [Sources -> Nat]
    /\ mInterrupt \in [Sources -> BOOLEAN] /\ mNeedReconnect \in [Sources -> BOOLEAN]

Filling == {"fill", "fillEos", "fillPause", "fillResume", "fillStatus", "retry", "again", "filled"}

ReaderTypeOK ==
    /\ rpc \in [Sources -> Filling \cup {"idle", "failed", "connect", "replace", "take"}]
    /\ after \in [Sources -> {"open", "seek", "short", "read", "rereadData", "rereadError"}]
    /\ want \in [Sources -> Nat] /\ target \in [Sources -> Nat] /\ size \in [Sources -> Nat]
    /\ len \in [Sources -> Nat]
    /\ seen \in [Sources -> Outcomes]
    /\ ret \in [Sources -> {"ok", "exit", "error"}]
    /\ result \in [Sources -> {"none", "ok", "eos", "exit", "error"}]

Window == [kept : Seq(Nat \cup {PageByte}), unread : Seq(Nat \cup {PageByte})]

ConnectionTypeOK ==
    /\ alive \subseteq Handles
    /\ ring \in [Handles -> Window]
    /\ \A h \in Handles : Room(ring[h]) >= 0
    /\ mFilePos \in [Handles -> Nat]
    /\ mPaused \in [Handles -> BOOLEAN] /\ mEOS \in [Handles -> BOOLEAN]
    /\ mStatus \in [Handles -> Outcomes]
    /\ mCurlCbMutex \in [Handles -> BOOLEAN]

CurlTypeOK ==
    /\ multi \subseteq Handles
    /\ resumeFrom \in [Handles -> Nat] /\ at \in [Handles -> Nat]
    /\ page \in [Handles -> BOOLEAN] /\ stopped \in [Handles -> BOOLEAN]
    /\ msgs \in Seq([handle : Handles, outcome : Outcomes])

LoopTypeOK ==
    /\ mAddList \subseteq Handles /\ mResumeList \subseteq Handles /\ mDeleteList \subseteq Handles
    /\ lpc \in {"add", "resume", "resuming", "delete", "perform", "write", "info"}
    /\ back \in {"resuming", "perform"}
    /\ lh \in Handles \cup {None}
    /\ batch \subseteq Handles
    /\ eof \in BOOLEAN
    /\ errors \in 0..MaxErrors /\ reconnects \in 0..MaxReconnects
    /\ strayed \subseteq Handles

TypeOK == SourceTypeOK /\ ReaderTypeOK /\ ConnectionTypeOK /\ CurlTypeOK /\ LoopTypeOK

Init ==
    /\ mPConnection = [s \in Sources |-> None]
    /\ mFileSize = [s \in Sources |-> 0]
    /\ mInterrupt = [s \in Sources |-> FALSE]
    /\ mNeedReconnect = [s \in Sources |-> FALSE]
    /\ rpc = [s \in Sources |-> "idle"] /\ after = [s \in Sources |-> "open"]
    /\ want = [s \in Sources |-> 0] /\ target = [s \in Sources |-> 0]
    /\ size = [s \in Sources |-> 0] /\ len = [s \in Sources |-> 0]
    /\ seen = [s \in Sources |-> "ok"] /\ ret = [s \in Sources |-> "ok"]
    /\ result = [s \in Sources |-> "none"]
    /\ alive = {}
    /\ ring = [h \in Handles |-> EmptyWindow]
    /\ mFilePos = [h \in Handles |-> 0]
    /\ mPaused = [h \in Handles |-> FALSE] /\ mEOS = [h \in Handles |-> FALSE]
    /\ mStatus = [h \in Handles |-> "ok"]
    /\ mCurlCbMutex = [h \in Handles |-> FALSE]
    /\ multi = {} /\ msgs = <<>>
    /\ resumeFrom = [h \in Handles |-> 0] /\ at = [h \in Handles |-> 0]
    /\ page = [h \in Handles |-> FALSE] /\ stopped = [h \in Handles |-> FALSE]
    /\ mAddList = {} /\ mResumeList = {} /\ mDeleteList = {}
    /\ lpc = "add" /\ back = "perform" /\ lh = None /\ batch = {} /\ eof = FALSE
    /\ errors = 0 /\ reconnects = 0 /\ strayed = {}

Fill(h) == Len(ring[h].unread)

-----------------------------------------------------------------------------
(* The lists of CurlMulti, under mListMutex.  The loop thread keeps it     *)
(* while it resumes transfers, write_callback() included.                  *)
ListsFree ==
    ~\/ lpc = "resuming" /\ batch # {}
     \/ lpc = "write" /\ back = "resuming"

addHandle(h) ==
    /\ ListsFree
    /\ mAddList' = mAddList \cup {h}
    /\ UNCHANGED <<mResumeList, mDeleteList>>

resumeHandle(h) ==
    /\ ListsFree
    /\ mResumeList' = mResumeList \cup {h}
    /\ UNCHANGED <<mAddList, mDeleteList>>

\* A mutant: the connection stays in mAddList.
DeleteStillAdded(h) ==
    /\ ListsFree
    /\ mDeleteList' = mDeleteList \cup {h}
    /\ UNCHANGED <<mAddList, mResumeList>>

deleteHandle(h) ==
    /\ ListsFree
    /\ mAddList' = mAddList \ {h}
    /\ mDeleteList' = mDeleteList \cup {h}
    /\ UNCHANGED mResumeList

-----------------------------------------------------------------------------
(* The reader: connections *)

Goto(s, place) == rpc' = [rpc EXCEPT ![s] = place]
Returns(s, what) == Goto(s, "idle") /\ result' = [result EXCEPT ![s] = what]

\* CurlDataSource2::Open(url): what was open is closed first.
Open(s) ==
    /\ rpc[s] \in {"idle", "failed"}
    /\ target' = [target EXCEPT ![s] = 0]
    /\ after' = [after EXCEPT ![s] = "open"]
    /\ mNeedReconnect' = [mNeedReconnect EXCEPT ![s] = FALSE]
    /\ Goto(s, IF mPConnection[s] = None THEN "connect" ELSE "replace")
    /\ UNCHANGED <<mPConnection, mFileSize, mInterrupt, want, size, len, seen, ret, result,
                   connVars, curlVars, listVars, loopVars, history>>

\* deleteFormMulti(): the loop thread will delete the connection.
Delete(s) ==
    /\ deleteHandle(mPConnection[s])
    /\ mPConnection' = [mPConnection EXCEPT ![s] = None]

Close(s) ==
    /\ rpc[s] \in {"idle", "failed"} /\ mPConnection[s] # None
    /\ Delete(s)
    /\ Goto(s, "idle")
    /\ UNCHANGED <<mFileSize, mInterrupt, mNeedReconnect, after, want, target, size, len, seen,
                   ret, result, connVars, curlVars, loopVars, history>>

\* closeConnections(true, ...), or the start of TrySeekByNewConnection().
Replace(s) ==
    /\ rpc[s] = "replace"
    /\ Delete(s)
    /\ Goto(s, "connect")
    /\ UNCHANGED <<mFileSize, mInterrupt, mNeedReconnect, after, want, target, size, len, seen,
                   ret, result, connVars, curlVars, loopVars, history>>

\* initConnection() and curl_connect(): a new connection, from offset on.
Connect(s) ==
    /\ rpc[s] = "connect"
    /\ \E h \in Handles \ (alive \cup mResumeList \cup batch) :
        /\ alive' = alive \cup {h}
        /\ ring' = [ring EXCEPT ![h] = EmptyWindow]
        /\ mFilePos' = [mFilePos EXCEPT ![h] = target[s]]
        /\ resumeFrom' = [resumeFrom EXCEPT ![h] = target[s]]
        /\ mPaused' = [mPaused EXCEPT ![h] = FALSE]
        /\ mEOS' = [mEOS EXCEPT ![h] = FALSE]
        /\ mStatus' = [mStatus EXCEPT ![h] = "ok"]
        /\ mPConnection' = [mPConnection EXCEPT ![s] = h]
        /\ strayed' = strayed \ {h}
        /\ addHandle(h)
    /\ want' = [want EXCEPT ![s] = 1]
    /\ Goto(s, "fill")
    /\ UNCHANGED <<mFileSize, mInterrupt, mNeedReconnect, after, target, size, len, seen, ret, result,
                   mCurlCbMutex, multi, at, page, stopped, msgs, loopVars, errors, reconnects>>

-----------------------------------------------------------------------------
(* The reader: FillBuffer() *)

FillReturns(s, what) == Goto(s, "filled") /\ ret' = [ret EXCEPT ![s] = what]

\* short_seek() gives FillBuffer() the flag of the connection, which is not
\* set, and the others the one that OnReconnect() sets.
ToldToStop(s) == mInterrupt[s] \/ (mNeedReconnect[s] /\ after[s] # "short")

FillCheck(s) ==
    LET h == mPConnection[s] IN
    /\ rpc[s] = "fill"
    /\ \/ /\ ~(Fill(h) < want[s] /\ Room(ring[h]) > 0)
          /\ FillReturns(s, "ok")
          /\ UNCHANGED seen
       \/ /\ Fill(h) < want[s] /\ Room(ring[h]) > 0
          /\ ToldToStop(s)
          /\ FillReturns(s, "exit")
          /\ UNCHANGED seen
       \/ /\ Fill(h) < want[s] /\ Room(ring[h]) > 0
          /\ ~ToldToStop(s)
          /\ seen' = [seen EXCEPT ![s] = mStatus[h]]
          /\ Goto(s, "fillEos")
          /\ UNCHANGED ret
    /\ UNCHANGED <<sourceVars, after, want, target, size, len, result, connVars, curlVars,
                   listVars, loopVars, history>>

FillEos(s) ==
    /\ rpc[s] = "fillEos"
    /\ \/ mEOS[mPConnection[s]] /\ FillReturns(s, "ok")
       \/ ~mEOS[mPConnection[s]] /\ Goto(s, "fillPause") /\ UNCHANGED ret
    /\ UNCHANGED <<sourceVars, after, want, target, size, len, seen, result, connVars, curlVars,
                   listVars, loopVars, history>>

MayGoOn(h) == mPaused[h] /\ Room(ring[h]) > READ_BUFFER_SIZE

FillPause(s) ==
    /\ rpc[s] = "fillPause"
    /\ Goto(s, IF MayGoOn(mPConnection[s]) THEN "fillResume" ELSE "fillStatus")
    /\ UNCHANGED <<sourceVars, after, want, target, size, len, seen, ret, result, connVars,
                   curlVars, listVars, loopVars, history>>

\* A mutant: resumeHandle() is not called.
FillUnpause(s) ==
    /\ rpc[s] = "fillResume"
    /\ mPaused' = [mPaused EXCEPT ![mPConnection[s]] = FALSE]
    /\ Goto(s, "fillStatus")
    /\ UNCHANGED <<sourceVars, after, want, target, size, len, seen, ret, result, alive, ring,
                   mFilePos, mEOS, mStatus, mCurlCbMutex, curlVars, listVars, loopVars, history>>

\* What was tested is not tested again: xferinfo() may have been faster.
FillResume(s) ==
    /\ rpc[s] = "fillResume"
    /\ mPaused' = [mPaused EXCEPT ![mPConnection[s]] = FALSE]
    /\ resumeHandle(mPConnection[s])
    /\ Goto(s, "fillStatus")
    /\ UNCHANGED <<sourceVars, after, want, target, size, len, seen, ret, result, alive, ring,
                   mFilePos, mEOS, mStatus, mCurlCbMutex, curlVars, loopVars, history>>

\* reset()
Reset(h) ==
    /\ ring' = [ring EXCEPT ![h] = EmptyWindow]
    /\ mEOS' = [mEOS EXCEPT ![h] = FALSE]
    /\ mStatus' = [mStatus EXCEPT ![h] = "ok"]

\* Nothing wrong: poll() and test again.  An error that is not retried is
\* returned when the buffer is empty.
FillStatus(s) ==
    LET h == mPConnection[s] IN
    /\ rpc[s] = "fillStatus"
    /\ \/ /\ seen[s] = "ok"
          /\ Goto(s, "fill")
          /\ UNCHANGED <<ret, ring, mEOS, mStatus>>
       \/ /\ seen[s] = "fatal"
          /\ FillReturns(s, IF Fill(h) > 0 THEN "ok" ELSE "error")
          /\ UNCHANGED <<ring, mEOS, mStatus>>
       \/ /\ seen[s] = "retry"
          /\ Reset(h)
          /\ Goto(s, "retry")
          /\ UNCHANGED ret
    /\ UNCHANGED <<sourceVars, after, want, target, size, len, seen, result, alive, mFilePos,
                   mPaused, mCurlCbMutex, curlVars, listVars, loopVars, history>>

\* onNetWorkRetry() of the listener says when to retry; without a listener it
\* is retried for connect_time_out_ms, and then the position is lost.  Whether
\* there is one is left open.
Retry(s) ==
    /\ rpc[s] = "retry"
    /\ \/ /\ mInterrupt[s]
          /\ FillReturns(s, "exit")
          /\ UNCHANGED mFilePos
       \/ /\ FillReturns(s, "error")
          /\ mFilePos' = [mFilePos EXCEPT ![mPConnection[s]] = 0]
       \/ /\ Goto(s, "again")
          /\ UNCHANGED <<ret, mFilePos>>
    /\ UNCHANGED <<sourceVars, after, want, target, size, len, seen, result, alive, ring,
                   mPaused, mEOS, mStatus, mCurlCbMutex, curlVars, listVars, loopVars, history>>

\* A mutant: without SetResume(), the transfer begins where the first one did.
AgainFromStart(s) ==
    /\ rpc[s] = "again"
    /\ addHandle(mPConnection[s])
    /\ Goto(s, "fill")
    /\ UNCHANGED <<sourceVars, after, want, target, size, len, seen, ret, result, connVars,
                   curlVars, loopVars, history>>

\* SetResume(mFilePos) and addToMulti()
Again(s) ==
    LET h == mPConnection[s] IN
    /\ rpc[s] = "again"
    /\ resumeFrom' = [resumeFrom EXCEPT ![h] = mFilePos[h]]
    /\ addHandle(h)
    /\ Goto(s, "fill")
    /\ UNCHANGED <<sourceVars, after, want, target, size, len, seen, ret, result, connVars,
                   multi, at, page, stopped, msgs, loopVars, history>>

-----------------------------------------------------------------------------
(* The reader: Open(), Seek() and Read() *)

\* CURLINFO_CONTENT_LENGTH_DOWNLOAD of the transfer that curl_connect() began,
\* which a transfer that failed early may not know.
Measure(s) ==
    LET h == mPConnection[s] IN
    IF ret[s] = "ok"
      THEN \E known \in {TRUE, at[h] # resumeFrom[h]} :
              mFileSize' = [mFileSize EXCEPT ![s] =
                  IF ~known THEN 0 ELSE IF page[h] THEN mFilePos[h] + 1 ELSE FileSize]
      ELSE UNCHANGED mFileSize

\* A response of 400 or more is an error to Open(), and to nobody else.
Opened(s) ==
    /\ rpc[s] = "filled" /\ after[s] = "open"
    /\ Measure(s)
    /\ \/ /\ mNeedReconnect[s]
          /\ mNeedReconnect' = [mNeedReconnect EXCEPT ![s] = FALSE]
          /\ Goto(s, "replace")
          /\ UNCHANGED result
       \/ /\ ~mNeedReconnect[s]
          /\ LET what == IF ret[s] = "ok" /\ page[mPConnection[s]] THEN "error" ELSE ret[s]
             IN  /\ result' = [result EXCEPT ![s] = what]
                 /\ Goto(s, IF what = "ok" THEN "idle" ELSE "failed")
          /\ UNCHANGED mNeedReconnect
    /\ UNCHANGED <<mPConnection, mInterrupt, after, want, target, size, len, seen, ret,
                   connVars, curlVars, listVars, loopVars, history>>

\* What curl_connect() returned is not looked at.
SeekConnected(s) ==
    /\ rpc[s] = "filled" /\ after[s] = "seek"
    /\ Measure(s)
    /\ mNeedReconnect' = [mNeedReconnect EXCEPT ![s] = FALSE]
    /\ Returns(s, "ok")
    /\ UNCHANGED <<mPConnection, mInterrupt, after, want, target, size, len, seen, ret,
                   connVars, curlVars, listVars, loopVars, history>>

\* Seek() with SEEK_SET; the other origins come down to it.
CanSeek(s, offset) ==
    /\ rpc[s] = "idle" /\ mPConnection[s] # None
    /\ offset # mFilePos[mPConnection[s]]

PastEnd(s, offset) == mFileSize[s] > 0 /\ offset >= mFileSize[s]

\* No connection is made to read behind the end.
SeekPastEnd(s, offset) ==
    LET h == mPConnection[s] IN
    /\ CanSeek(s, offset) /\ PastEnd(s, offset)
    /\ mFilePos' = [mFilePos EXCEPT ![h] = offset]
    /\ resumeFrom' = [resumeFrom EXCEPT ![h] = offset]
    /\ strayed' = strayed \cup {h}
    /\ result' = [result EXCEPT ![s] = "ok"]
    /\ UNCHANGED <<sourceVars, rpc, after, want, target, size, len, seen, ret, alive, ring,
                   mPaused, mEOS, mStatus, mCurlCbMutex, multi, at, page, stopped, msgs,
                   listVars, loopVars, errors, reconnects>>

SeekReconnecting(s, offset) ==
    /\ CanSeek(s, offset) /\ ~PastEnd(s, offset)
    /\ mNeedReconnect[s]
    /\ target' = [target EXCEPT ![s] = offset]
    /\ after' = [after EXCEPT ![s] = "seek"]
    /\ Goto(s, "replace")
    /\ UNCHANGED <<sourceVars, want, size, len, seen, ret, result, connVars, curlVars,
                   listVars, loopVars, history>>

\* short_seek() within the buffer...
SeekInBuffer(s, offset) ==
    LET h == mPConnection[s]
        delta == offset - mFilePos[h]
    IN
    /\ CanSeek(s, offset) /\ ~PastEnd(s, offset) /\ ~mNeedReconnect[s]
    /\ \/ /\ delta < 0 /\ Len(ring[h].kept) >= -delta
          /\ ring' = [ring EXCEPT ![h] = AfterSkipBack(@, -delta)]
       \/ /\ delta > 0 /\ delta <= Fill(h)
          /\ ring' = [ring EXCEPT ![h] = AfterSkip(@, delta)]
    /\ mFilePos' = [mFilePos EXCEPT ![h] = offset]
    /\ result' = [result EXCEPT ![s] = "ok"]
    /\ UNCHANGED <<sourceVars, rpc, after, want, target, size, len, seen, ret, alive,
                   mPaused, mEOS, mStatus, mCurlCbMutex, curlVars, listVars, loopVars, history>>

\* ...or a little in front of it, once FillBuffer() has read on, which it
\* does with mCurlCbMutex held.
SeekNear(s, offset) ==
    LET h == mPConnection[s] IN
    /\ CanSeek(s, offset) /\ ~PastEnd(s, offset) /\ ~mNeedReconnect[s]
    /\ offset > mFilePos[h] + Fill(h)
    /\ offset < mFilePos[h] + m_bufferSize
    /\ len' = [len EXCEPT ![s] = Fill(h)]
    /\ mFilePos' = [mFilePos EXCEPT ![h] = @ + Fill(h)]
    /\ ring' = [ring EXCEPT ![h] = AfterSkip(@, Fill(h))]
    /\ mCurlCbMutex' = [mCurlCbMutex EXCEPT ![h] = TRUE]
    /\ target' = [target EXCEPT ![s] = offset]
    /\ want' = [want EXCEPT ![s] = m_bufferSize]
    /\ after' = [after EXCEPT ![s] = "short"]
    /\ Goto(s, "fill")
    /\ UNCHANGED <<sourceVars, size, seen, ret, result, alive, mPaused, mEOS, mStatus,
                   curlVars, listVars, loopVars, history>>

SeekFar(s, offset) ==
    LET h == mPConnection[s] IN
    /\ CanSeek(s, offset) /\ ~PastEnd(s, offset) /\ ~mNeedReconnect[s]
    /\ \/ mFilePos[h] - offset > Len(ring[h].kept)
       \/ offset > mFilePos[h] + Fill(h) /\ offset >= mFilePos[h] + m_bufferSize
    /\ target' = [target EXCEPT ![s] = offset]
    /\ after' = [after EXCEPT ![s] = "seek"]
    /\ Goto(s, "replace")
    /\ UNCHANGED <<sourceVars, want, size, len, seen, ret, result, connVars, curlVars,
                   listVars, loopVars, history>>

\* short_seek() goes on when FillBuffer() has returned: to the offset, or
\* back to where it was, if what it skipped is still there, and Seek() makes
\* a new connection.
SeekNearEnds(s) ==
    LET h == mPConnection[s]
        rest == target[s] - mFilePos[h]
        fits == ret[s] = "ok" /\ rest > 0 /\ rest <= Fill(h)
        restored == len[s] > 0 /\ Len(ring[h].kept) >= len[s]
    IN
    /\ rpc[s] = "filled" /\ after[s] = "short"
    /\ mCurlCbMutex' = [mCurlCbMutex EXCEPT ![h] = FALSE]
    /\ IF fits
         THEN /\ ring' = [ring EXCEPT ![h] = AfterSkip(@, rest)]
              /\ mFilePos' = [mFilePos EXCEPT ![h] = target[s]]
              /\ Returns(s, "ok")
              /\ UNCHANGED after
         ELSE /\ ring' = [ring EXCEPT ![h] = IF restored THEN AfterSkipBack(@, len[s]) ELSE @]
              /\ mFilePos' = [mFilePos EXCEPT ![h] = IF restored THEN @ - len[s] ELSE @]
              /\ after' = [after EXCEPT ![s] = "seek"]
              /\ Goto(s, "replace")
              /\ UNCHANGED result
    /\ UNCHANGED <<sourceVars, want, target, size, len, seen, ret, alive, mPaused, mEOS,
                   mStatus, curlVars, listVars, loopVars, history>>

\* Read(): the size is cut at the end of the file, but wraps around if the
\* position is behind it.
Readable(s, n) ==
    LET left == mFileSize[s] - mFilePos[mPConnection[s]]
    IN  IF mFileSize[s] > 0 /\ left >= 0 THEN AtMost(n, left) ELSE n

Read(s, n) ==
    LET h == mPConnection[s] IN
    /\ rpc[s] = "idle" /\ mPConnection[s] # None
    /\ size' = [size EXCEPT ![s] = Readable(s, n)]
    /\ \/ /\ Readable(s, n) = 0
          /\ Returns(s, "eos")
          /\ UNCHANGED <<want, after>>
       \/ /\ Readable(s, n) > 0
          /\ want' = [want EXCEPT ![s] = 1]
          /\ after' = [after EXCEPT ![s] = "read"]
          /\ Goto(s, IF mFileSize[s] = 0 \/ mFilePos[h] < mFileSize[s] THEN "fill" ELSE "take")
          /\ UNCHANGED result
    /\ UNCHANGED <<sourceVars, target, len, seen, ret, connVars, curlVars, listVars,
                   loopVars, history>>

\* After FillBuffer(), Read() connects again if the network has changed, from
\* the position of the reader, and returns what FillBuffer() returned.
ReadFilled(s) ==
    /\ rpc[s] = "filled" /\ after[s] = "read"
    /\ \/ /\ mNeedReconnect[s]
          /\ target' = [target EXCEPT ![s] = mFilePos[mPConnection[s]]]
          /\ after' = [after EXCEPT ![s] = IF ret[s] = "ok" THEN "rereadData" ELSE "rereadError"]
          /\ Goto(s, "replace")
          /\ UNCHANGED result
       \/ /\ ~mNeedReconnect[s]
          /\ IF ret[s] = "ok"
               THEN Goto(s, "take") /\ UNCHANGED result
               ELSE Returns(s, ret[s])
          /\ UNCHANGED <<target, after>>
    /\ UNCHANGED <<sourceVars, want, size, len, seen, ret, connVars, curlVars, listVars,
                   loopVars, history>>

ReadReconnected(s) ==
    /\ rpc[s] = "filled" /\ after[s] \in {"rereadData", "rereadError"}
    /\ Measure(s)
    /\ mNeedReconnect' = [mNeedReconnect EXCEPT ![s] = FALSE]
    /\ IF after[s] = "rereadData"
         THEN Goto(s, "take") /\ UNCHANGED result
         ELSE Returns(s, "exit")
    /\ UNCHANGED <<mPConnection, mInterrupt, after, want, target, size, len, seen, ret,
                   connVars, curlVars, listVars, loopVars, history>>

\* readBuffer()
Take(s) ==
    LET h == mPConnection[s]
        n == AtMost(Fill(h), size[s])
    IN
    /\ rpc[s] = "take"
    /\ ring' = [ring EXCEPT ![h] = AfterRead(@, n)]
    /\ mFilePos' = [mFilePos EXCEPT ![h] = @ + n]
    /\ Returns(s, IF n > 0 THEN "ok" ELSE "eos")
    /\ UNCHANGED <<sourceVars, after, want, target, size, len, seen, ret, alive, mPaused,
                   mEOS, mStatus, mCurlCbMutex, curlVars, listVars, loopVars, history>>

-----------------------------------------------------------------------------
(* The other threads *)

Interrupt(s, interrupt) ==
    /\ mInterrupt[s] # interrupt
    /\ mInterrupt' = [mInterrupt EXCEPT ![s] = interrupt]
    /\ UNCHANGED <<mPConnection, mFileSize, mNeedReconnect, readerVars, connVars, curlVars,
                   listVars, loopVars, history>>

\* The network manager tells every source.
OnReconnect ==
    /\ reconnects < MaxReconnects
    /\ reconnects' = reconnects + 1
    /\ mNeedReconnect' = [s \in Sources |-> TRUE]
    /\ UNCHANGED <<mPConnection, mFileSize, mInterrupt, readerVars, connVars, curlVars,
                   listVars, loopVars, errors, strayed>>

-----------------------------------------------------------------------------
(* The loop thread: applyPending() *)

End(h) == IF page[h] THEN resumeFrom[h] + 1 ELSE FileSize
Ended == {msgs[i].handle : i \in DOMAIN msgs}

\* curl_multi_add_handle(): does nothing for a transfer that was added.  An
\* error page holds no byte of the file.
BeginTransfers(hs, astray) ==
    LET new == hs \ multi IN
    /\ multi' = multi \cup new
    /\ at' = [h \in Handles |-> IF h \in new THEN resumeFrom[h] ELSE at[h]]
    /\ stopped' = [h \in Handles |-> stopped[h] /\ h \notin new]
    /\ \E errorPages \in SUBSET (IF ErrorPages THEN new ELSE {}) :
        /\ page' = [h \in Handles |-> IF h \in new THEN h \in errorPages ELSE page[h]]
        /\ strayed' = strayed \cup astray \cup errorPages

LApplyAdd ==
    /\ lpc = "add"
    /\ BeginTransfers(mAddList, {})
    /\ mAddList' = {}
    /\ lpc' = "resume"
    /\ UNCHANGED <<sourceVars, readerVars, connVars, resumeFrom, msgs, mResumeList, mDeleteList,
                   back, lh, batch, eof, errors, reconnects>>

LResume ==
    /\ lpc = "resume"
    /\ batch' = mResumeList
    /\ mResumeList' = {}
    /\ lpc' = "resuming"
    /\ UNCHANGED <<sourceVars, readerVars, connVars, curlVars, mAddList, mDeleteList,
                   back, lh, eof, history>>

\* curl_easy_pause(CURLPAUSE_CONT): calls write_callback() with the bytes
\* that it refused, if the transfer is paused.
Continue(h, then) ==
    /\ stopped' = [stopped EXCEPT ![h] = FALSE]
    /\ IF stopped[h]
         THEN lpc' = "write" /\ lh' = h /\ back' = then
         ELSE lpc' = then /\ UNCHANGED <<lh, back>>

\* A transfer that has ended begins again where it began, and leads the
\* connection astray if it had not come to the end of the file.
LResuming ==
    /\ lpc = "resuming"
    /\ \/ /\ batch = {}
          /\ lpc' = "delete"
          /\ UNCHANGED <<multi, at, page, stopped, lh, back, batch, strayed>>
       \/ \E h \in batch :
            /\ batch' = batch \ {h}
            /\ IF h \in alive \ multi
                 THEN BeginTransfers({h}, IF mEOS[h] THEN {} ELSE {h}) /\ UNCHANGED <<lpc, lh, back>>
                 ELSE Continue(h, "resuming") /\ UNCHANGED <<multi, at, page, strayed>>
    /\ UNCHANGED <<sourceVars, readerVars, connVars, resumeFrom, msgs, listVars, eof,
                   errors, reconnects>>

\* What a deleted connection held is gone.
Forget(f, none) == [h \in Handles |-> IF h \in mDeleteList THEN none ELSE f[h]]

LApplyDelete ==
    /\ lpc = "delete"
    /\ multi' = multi \ mDeleteList
    /\ alive' = alive \ mDeleteList
    /\ ring' = Forget(ring, EmptyWindow) /\ mFilePos' = Forget(mFilePos, 0)
    /\ mPaused' = Forget(mPaused, FALSE) /\ mEOS' = Forget(mEOS, FALSE)
    /\ mStatus' = Forget(mStatus, "ok")
    /\ resumeFrom' = Forget(resumeFrom, 0) /\ at' = Forget(at, 0)
    /\ page' = Forget(page, FALSE) /\ stopped' = Forget(stopped, FALSE)
    /\ mDeleteList' = {}
    /\ lpc' = "perform"
    /\ UNCHANGED <<sourceVars, readerVars, mCurlCbMutex, msgs, mAddList, mResumeList,
                   back, lh, batch, eof, history>>

-----------------------------------------------------------------------------
(* The loop thread: curl_multi_perform() and its callbacks *)

Moving == {h \in multi \ Ended : ~stopped[h]}

LData(h) ==
    /\ lpc = "perform"
    /\ h \in Moving /\ at[h] < End(h)
    /\ lpc' = "write" /\ lh' = h /\ back' = "perform"
    /\ UNCHANGED <<sourceVars, readerVars, connVars, curlVars, listVars, batch, eof, history>>

\* A mutant: the room is not looked at.
LWriteRegardless ==
    /\ lpc = "write"
    /\ ~mCurlCbMutex[lh]
    /\ at[lh] < End(lh)
    /\ ring' = [ring EXCEPT ![lh] = AfterWrite(@, <<at[lh]>>)]
    /\ at' = [at EXCEPT ![lh] = @ + 1]
    /\ lpc' = back /\ lh' = None
    /\ UNCHANGED <<sourceVars, readerVars, alive, mFilePos, mPaused, mEOS, mStatus, mCurlCbMutex,
                   multi, resumeFrom, page, stopped, msgs, listVars, back, batch, eof, history>>

\* write_callback()
LWrite ==
    /\ lpc = "write"
    /\ ~mCurlCbMutex[lh]
    /\ \E amount \in 1..AtMost(READ_BUFFER_SIZE, End(lh) - at[lh]) :
         \/ /\ Room(ring[lh]) < amount
            /\ mPaused' = [mPaused EXCEPT ![lh] = TRUE]
            /\ stopped' = [stopped EXCEPT ![lh] = TRUE]
            /\ UNCHANGED <<ring, at>>
         \/ /\ Room(ring[lh]) >= amount
            /\ ring' = [ring EXCEPT ![lh] = AfterWrite(@,
                    [i \in 1..amount |-> IF page[lh] THEN PageByte ELSE at[lh] + i - 1])]
            /\ at' = [at EXCEPT ![lh] = @ + amount]
            /\ UNCHANGED <<mPaused, stopped>>
    /\ lpc' = back /\ lh' = None
    /\ UNCHANGED <<sourceVars, readerVars, alive, mFilePos, mEOS, mStatus, mCurlCbMutex,
                   multi, resumeFrom, page, msgs, listVars, back, batch, eof, history>>

Says(h, outcome) == msgs' = Append(msgs, [handle |-> h, outcome |-> outcome])

LDone(h) ==
    /\ lpc = "perform"
    /\ h \in Moving /\ at[h] >= End(h)
    /\ Says(h, "ok")
    /\ UNCHANGED <<sourceVars, readerVars, connVars, multi, resumeFrom, at, page, stopped,
                   listVars, loopVars, history>>

LFail(h, outcome) ==
    /\ lpc = "perform"
    /\ h \in Moving /\ outcome # "ok" /\ errors < MaxErrors
    /\ errors' = errors + 1
    /\ Says(h, outcome)
    /\ UNCHANGED <<sourceVars, readerVars, connVars, multi, resumeFrom, at, page, stopped,
                   listVars, loopVars, reconnects, strayed>>

\* xferinfo()
LProgress(h) ==
    /\ lpc = "perform"
    /\ h \in multi \ Ended /\ MayGoOn(h)
    /\ mPaused' = [mPaused EXCEPT ![h] = FALSE]
    /\ Continue(h, "perform")
    /\ UNCHANGED <<sourceVars, readerVars, alive, ring, mFilePos, mEOS, mStatus, mCurlCbMutex,
                   multi, resumeFrom, at, page, msgs, listVars, batch, eof, history>>

LEnd ==
    /\ lpc = "perform"
    /\ lpc' = "info"
    /\ eof' = FALSE
    /\ UNCHANGED <<sourceVars, readerVars, connVars, curlVars, listVars, back, lh, batch, history>>

\* A mutant: every transfer that ended is at its end.
LInfoEof ==
    /\ lpc = "info" /\ msgs # <<>>
    /\ LET msg == Head(msgs) IN
       /\ mEOS' = [mEOS EXCEPT ![msg.handle] = TRUE]
       /\ mStatus' = [mStatus EXCEPT ![msg.handle] = msg.outcome]
       /\ multi' = multi \ {msg.handle}
    /\ msgs' = Tail(msgs)
    /\ UNCHANGED <<sourceVars, readerVars, alive, ring, mFilePos, mPaused, mCurlCbMutex,
                   resumeFrom, at, page, stopped, listVars, loopVars, history>>

\* curl_multi_info_read() and onStatus(): eof stays set for the messages
\* that follow, and an error that has it leads the connection astray.
LInfo ==
    /\ lpc = "info"
    /\ \/ /\ msgs = <<>>
          /\ lpc' = "add"
          /\ UNCHANGED <<mEOS, mStatus, multi, stopped, msgs, eof, strayed>>
       \/ /\ msgs # <<>>
          /\ LET msg == Head(msgs) IN
             /\ eof' = (eof \/ msg.outcome = "ok")
             /\ mEOS' = [mEOS EXCEPT ![msg.handle] = eof']
             /\ mStatus' = [mStatus EXCEPT ![msg.handle] = msg.outcome]
             /\ multi' = multi \ {msg.handle}
             /\ stopped' = [stopped EXCEPT ![msg.handle] = FALSE]
             /\ strayed' = IF eof' /\ msg.outcome # "ok" THEN strayed \cup {msg.handle}
                                                       ELSE strayed
          /\ msgs' = Tail(msgs)
          /\ UNCHANGED lpc
    /\ UNCHANGED <<sourceVars, readerVars, alive, ring, mFilePos, mPaused, mCurlCbMutex,
                   resumeFrom, at, page, listVars, back, lh, batch, errors, reconnects>>

-----------------------------------------------------------------------------
\* A call that has begun goes on.
ReaderStep(s) ==
    \/ Replace(s) \/ Connect(s)
    \/ FillCheck(s) \/ FillEos(s) \/ FillPause(s) \/ FillResume(s) \/ FillStatus(s)
    \/ Retry(s) \/ Again(s)
    \/ Opened(s) \/ SeekConnected(s) \/ SeekNearEnds(s)
    \/ ReadFilled(s) \/ ReadReconnected(s) \/ Take(s)

SeekCall(s, offset) ==
    \/ SeekPastEnd(s, offset) \/ SeekReconnecting(s, offset) \/ SeekInBuffer(s, offset)
    \/ SeekNear(s, offset) \/ SeekFar(s, offset)

ReaderCall(s) ==
    \/ Open(s) \/ Close(s)
    \/ \E offset \in SeekTargets : SeekCall(s, offset)
    \/ \E n \in ReadSizes : Read(s, n)

\* The thread goes round whatever there is to do.
LoopStep ==
    \/ LApplyAdd \/ LResume \/ LResuming \/ LApplyDelete \/ LWrite \/ LEnd \/ LInfo

Transfer(h) == LData(h) \/ LDone(h) \/ LProgress(h)

Next ==
    \/ \E s \in Sources : ReaderCall(s) \/ ReaderStep(s)
    \/ \E s \in Sources, interrupt \in BOOLEAN : Interrupt(s, interrupt)
    \/ OnReconnect
    \/ LoopStep
    \/ \E h \in Handles : Transfer(h) \/ \E outcome \in Outcomes : LFail(h, outcome)

Spec == Init /\ [][Next]_vars

-----------------------------------------------------------------------------
Resting(s) == rpc[s] \in {"idle", "take"} /\ mPConnection[s] # None

\* Safety.  Between two steps of a reader the buffer holds the bytes of the
\* file that are around its position, after any reads, seeks, pauses, errors,
\* retries and reconnections: what Read() gives next is what the file has
\* there.  Four things lead a connection astray, until there is a new one: a
\* seek behind the end, which moves the position only, a transfer that begins
\* again by itself after an error, an error page taken for the file, and an
\* error that gets the eof of another connection's message.
InPlace ==
    \A s \in Sources : LET h == mPConnection[s] IN
        Resting(s) /\ h \notin strayed /\ mFilePos[h] < FileSize =>
            /\ \A i \in DOMAIN ring[h].unread :
                  mFilePos[h] + i <= FileSize => ring[h].unread[i] = mFilePos[h] + i - 1
            /\ \A i \in DOMAIN ring[h].kept :
                  ring[h].kept[i] = mFilePos[h] - Len(ring[h].kept) + i - 1

\* Safety.  Read() returns 0, the end of the stream to its callers, only when
\* the position is at the end of the file, as long as the network does not
\* change (a connection that is replaced in a Read() may give it 0 elsewhere),
\* nothing leads the connection astray, and the size is that of the file.
ZeroIsEos ==
    \A s \in Sources :
        /\ rpc[s] = "idle" /\ mPConnection[s] # None /\ result[s] = "eos"
        /\ reconnects = 0 /\ mPConnection[s] \notin strayed
        /\ ErrorPages => mFileSize[s] \in {0, FileSize}
        => mFilePos[mPConnection[s]] >= FileSize

\* Safety.  The loop thread adds and runs only connections that exist: a
\* connection leaves mAddList and the multi handle before it is deleted.
FreedIsForgotten == mAddList \cup mDeleteList \cup multi \subseteq alive

\* Safety.  A transfer that is paused is going to be resumed: mPaused says so
\* to FillBuffer() and xferinfo(), or it is in a list of those to resume.
ResumeNotLost ==
    \A h \in multi : stopped[h] => mPaused[h] \/ h \in mResumeList \cup batch

-----------------------------------------------------------------------------
(* The strengthening that the proofs need.                                 *)

\* A reader works with a connection of its own, which nobody deletes but it.
Ownership ==
    /\ \A s \in Sources :
        /\ rpc[s] \in Filling \cup {"replace", "take"} => mPConnection[s] # None
        /\ rpc[s] = "connect" => mPConnection[s] = None
        /\ mPConnection[s] # None => mPConnection[s] \in alive \ mDeleteList
        /\ \A t \in Sources :
            mPConnection[s] # None /\ mPConnection[s] = mPConnection[t] => s = t
    /\ mAddList \cap mDeleteList = {}

\* What short_seek() skipped before FillBuffer() is behind the position; when
\* a retry fails and the position is lost, nothing is behind it either.
Skipped ==
    \A s \in Sources : LET h == mPConnection[s] IN
        /\ rpc[s] = "retry" => ring[h].kept = <<>>
        /\ rpc[s] \in Filling /\ after[s] = "short" =>
              len[s] <= mFilePos[h] \/ ring[h].kept = <<>>

\* What the loop thread has with it where it is.
LoopPlaces ==
    /\ lpc = "write" => lh # None
    /\ batch # {} => ~ListsFree

\* A window at a position of the file holds the bytes that are there.  What
\* is written behind the end of the file is not looked at.
Right(w, pos) ==
    /\ \A i \in 1..Len(w.kept) : LET p == pos - Len(w.kept) + i - 1 IN
          p < FileSize => w.kept[i] = p
    /\ \A i \in 1..Len(w.unread) : LET p == pos + i - 1 IN
          p < FileSize => w.unread[i] = p

Reached(h) == mFilePos[h] + Fill(h)
Completed == {msgs[i].handle : i \in {j \in DOMAIN msgs : msgs[j].outcome = "ok"}}

\* The next byte of a transfer belongs behind the buffer, that of one which is
\* to begin too; where a transfer ended without an error the file ends; and one
\* that failed does not go on unless its reader begins it again.
Straight(h) ==
    /\ Right(ring[h], mFilePos[h])
    /\ h \in multi => ~page[h] /\ (at[h] = Reached(h) \/ Reached(h) >= FileSize)
    /\ h \in mAddList => h \notin multi /\ ~mEOS[h] /\ resumeFrom[h] = Reached(h)
    /\ mEOS[h] \/ h \in Completed => Reached(h) >= FileSize
    /\ mStatus[h] # "ok" => ~mEOS[h] /\ h \notin multi \cup mAddList

AllStraight == \A h \in alive \ strayed : Straight(h)

\* A reader that retries has seen that the transfer failed, and that is so
\* until it resets the connection; nobody uses that until it is done.
RetryingOf(s) ==
    LET h == mPConnection[s] IN
    rpc[s] \in Filling /\ h \notin strayed =>
        /\ rpc[s] \in {"fillEos", "fillPause", "fillResume", "fillStatus"} /\ seen[s] = "retry" =>
              mStatus[h] = "retry"
        /\ rpc[s] \in {"retry", "again"} =>
              /\ h \notin multi \cup mAddList /\ ~mEOS[h] /\ mStatus[h] = "ok"
              /\ ring[h] = EmptyWindow

Retrying == \A s \in Sources : RetryingOf(s)

\* libcurl has one message at most for a transfer, which it has until the
\* message is read; it has none when the lists are looked at.
Messages ==
    /\ msgs # <<>> => lpc \in {"perform", "info"} \/ (lpc = "write" /\ back = "perform")
    /\ Ended \subseteq multi
    /\ \A i, j \in DOMAIN msgs : msgs[i].handle = msgs[j].handle => i = j
    /\ \A h \in Handles : stopped[h] => h \in multi
    /\ lpc = "write" => lh \in multi

KeptFits == \A h \in Handles : Len(ring[h].kept) <= m_back_size

SizeIsRight(s) == mFileSize[s] \in {0, FileSize}
NoErrorPages == ~ErrorPages => (\A h \in Handles : ~page[h]) /\ \A s \in Sources : SizeIsRight(s)

\* What Read() has found when it takes bytes, if there was no change of the
\* network since the start.
AtData(h) == Fill(h) > 0 \/ mFilePos[h] >= FileSize

ReadingOf(s) ==
    LET h == mPConnection[s] IN
    /\ rpc[s] \notin {"idle", "failed"} /\ after[s] = "read" => want[s] = 1 /\ size[s] > 0
    /\ reconnects = 0 =>
        /\ ~mNeedReconnect[s]
        /\ rpc[s] \notin {"idle", "failed"} => after[s] \notin {"rereadData", "rereadError"}
        /\ rpc[s] = "take" => after[s] = "read"
        /\ h \notin strayed =>
            /\ rpc[s] = "filled" /\ after[s] = "read" /\ ret[s] = "ok" => AtData(h)
            /\ rpc[s] = "take" /\ (ErrorPages => SizeIsRight(s)) => AtData(h)

Reading == \A s \in Sources : ReadingOf(s)
=============================================================================
