--------------------------- MODULE SegmentTracker ---------------------------
(***************************************************************************)
(* framework/demuxer/play_list: SegmentTracker.cpp and SegmentList.cpp,    *)
(* driven by the read thread of HLSStream.cpp.                             *)
(*                                                                         *)
(* Two threads share the list of segments: the read thread, which opens    *)
(* one segment after the other, and the thread of the tracker, which loads *)
(* the playlist of a live stream again when it is asked to.  A load is a   *)
(* request, an answer that says what the playlist was at that moment, and  *)
(* a merge.  The read thread loads too, when the stream is opened again.   *)
(*                                                                         *)
(* The server is external: its playlist is a window of numbered segments   *)
(* whose end moves on, whose beginning may follow, and which may end.      *)
(***************************************************************************)
EXTENDS Integers, Sequences

CONSTANTS
    MaxSeq,        \* bound: the last segment the server ever has
    CanSkip,       \* EXT-X-SERVER-CONTROL: CAN-SKIP-UNTIL
    MaxOpens       \* bound: seeks, reopenings and switches

ASSUME BoundsAssumption == MaxSeq \in Nat \ {0} /\ MaxOpens \in Nat
ASSUME CanSkipAssumption == CanSkip \in BOOLEAN

VARIABLES
    first, last, ended,       \* the playlist at the server
    segments,                 \* SegmentList: sequence numbers
    mLastSeqNum,
    b_live,                   \* Representation
    mDuration,                \* of the playlist that was loaded first
    mCurSegNum,
    mSeeked,
    mInited,
    mNeedUpdate,
    mNeedReloadWithoutSkip,
    load,                     \* per thread: where it is in loadPlayList()
    answer,                   \* per thread: the playlist that was loaded
    rpc,                      \* where the read thread is
    target,                   \* open_internal(): targetSegNum, targetPosition
    mIsDataEOS,
    missed,                   \* history: segments jumped over while in the window
    partial,                  \* history: a delta, or an answer older than the list, was merged
    opens

serverVars == <<first, last, ended>>
listVars == <<segments, mLastSeqNum, b_live, mDuration, partial>>
loadVars == <<load, answer, mNeedUpdate, mNeedReloadWithoutSkip>>
readVars == <<rpc, target, mCurSegNum, mSeeked, mInited, mIsDataEOS, missed, opens>>
vars == <<serverVars, listVars, loadVars, readVars>>

Loaders == {"reader", "tracker"}
Numbers == 1 .. MaxSeq
LoadSteps == {"idle", "open", "openNoSkip", "merge", "failed", "loaded"}
ReadSteps == {"stopped", "init", "place", "open", "reading", "eos"}

(* What an answer holds: the segments from .. to, of a window that begins  *)
(* at first; those before from are skipped.                                *)
NoTarget == [num |-> 0, position |-> 0]
NoAnswer == [first |-> 0, from |-> 0, to |-> 0, ended |-> FALSE, delta |-> FALSE]

Init ==
    /\ first = 1
    /\ last \in Numbers
    /\ ended \in BOOLEAN
    /\ segments = <<>> /\ mLastSeqNum = 0
    /\ b_live = FALSE /\ mDuration = -1
    /\ mCurSegNum = 0 /\ mSeeked = FALSE /\ mInited = FALSE
    /\ mNeedUpdate = FALSE /\ mNeedReloadWithoutSkip = FALSE
    /\ load = [l \in Loaders |-> "idle"]
    /\ answer = [l \in Loaders |-> NoAnswer]
    /\ rpc = "stopped"
    /\ target = NoTarget
    /\ mIsDataEOS = FALSE
    /\ missed = {} /\ partial = FALSE
    /\ opens = 0

-----------------------------------------------------------------------------
(* The server adds a segment, drops the oldest, or ends the stream.        *)
ServerAdds ==
    /\ ~ ended /\ last < MaxSeq
    /\ last' = last + 1
    /\ UNCHANGED <<first, ended, listVars, loadVars, readVars>>

ServerDrops ==
    /\ ~ ended /\ first < last
    /\ first' = first + 1
    /\ UNCHANGED <<last, ended, listVars, loadVars, readVars>>

ServerEnds ==
    /\ ~ ended
    /\ ended' = TRUE
    /\ UNCHANGED <<first, last, listVars, loadVars, readVars>>

-----------------------------------------------------------------------------
(***************************************************************************)
(* SegmentList                                                             *)
(***************************************************************************)
getFirstSeqNum == IF segments = <<>> THEN 0 ELSE Head(segments)

(* getSegmentByNumber(number, true): the segment with that number, or the  *)
(* next one there is; 0 for none.                                          *)
AtLeast(number) == {i \in DOMAIN segments : segments[i] >= number}
getSegmentByNumber(number) ==
    IF AtLeast(number) = {} THEN 0
    ELSE segments[CHOOSE i \in AtLeast(number) : \A j \in AtLeast(number) : i <= j]

(* A list of segments is a run of consecutive numbers.                     *)
Run(from, to) == [i \in 1 .. to - from + 1 |-> from + i - 1]
Newest(list, size) ==
    IF Len(list) > size THEN SubSeq(list, Len(list) - size + 1, Len(list)) ELSE list

(* The first of the segments from .. to that is newer than the list.       *)
Newer(from) == IF from > mLastSeqNum THEN from ELSE mLastSeqNum + 1

(* A mutant: the segment that is there already is added again.             *)
MergedAgain(old, from, to) ==
    Newest(old \o Run(IF from >= mLastSeqNum THEN from ELSE mLastSeqNum, to), to - from + 1)

(* A mutant: only what is newer is left.                                   *)
MergedNewer(old, from, to) == IF to <= mLastSeqNum THEN old ELSE Run(Newer(from), to)

(* merge() with the list from .. to: what is newer is added, then the      *)
(* oldest go until as many are left as that list has.                      *)
Merged(old, from, to) == Newest(old \o Run(Newer(from), to), to - from + 1)

-----------------------------------------------------------------------------
(***************************************************************************)
(* loadPlayList()                                                          *)
(***************************************************************************)
(* The answer to a request; a skip is asked for when the list is recent.   *)
Answer(l) ==
    /\ load[l] \in {"open", "openNoSkip"}
    /\ \E from \in first .. last, delta \in BOOLEAN :
          /\ delta => CanSkip /\ segments # <<>> /\ load[l] = "open"
          /\ ~ delta => from = first
          /\ answer' = [answer EXCEPT ![l] =
                 [first |-> first, from |-> from, to |-> last, ended |-> ended, delta |-> delta]]
    /\ load' = [load EXCEPT ![l] = "merge"]
    /\ UNCHANGED <<serverVars, listVars, readVars, mNeedUpdate, mNeedReloadWithoutSkip>>

(* The source cannot be opened, or is interrupted.                         *)
LoadFails(l) ==
    /\ load[l] \in {"open", "openNoSkip"}
    /\ load' = [load EXCEPT ![l] = "failed"]
    /\ UNCHANGED <<serverVars, listVars, readVars, answer, mNeedUpdate, mNeedReloadWithoutSkip>>

(* After a skip the new segments may not follow the old ones: the list     *)
(* stays as it is, and is to be loaded again.                              *)
MergeRefused(l) ==
    /\ load[l] = "merge"
    /\ answer[l].delta /\ answer[l].from > mLastSeqNum + 1
    /\ mNeedReloadWithoutSkip' = TRUE
    /\ load' = [load EXCEPT ![l] = "loaded"]
    /\ answer' = [answer EXCEPT ![l] = NoAnswer]
    /\ UNCHANGED <<serverVars, listVars, readVars, mNeedUpdate>>

(* The duration stays that of the playlist that was loaded first.          *)
Merge(l) ==
    LET a == answer[l] IN
    /\ load[l] = "merge"
    /\ ~ (a.delta /\ a.from > mLastSeqNum + 1)
    /\ segments' = Merged(segments, a.from, a.to)
    /\ mLastSeqNum' = IF a.to > mLastSeqNum THEN a.to ELSE mLastSeqNum
    /\ partial' = (partial \/ a.delta \/ a.to < mLastSeqNum)
    /\ b_live' = ~ a.ended
    /\ mDuration' = IF mDuration # -1 THEN mDuration ELSE IF a.ended THEN 1 ELSE 0
    /\ load' = [load EXCEPT ![l] = "loaded"]
    /\ answer' = [answer EXCEPT ![l] = NoAnswer]
    /\ UNCHANGED <<serverVars, readVars, mNeedUpdate, mNeedReloadWithoutSkip>>

-----------------------------------------------------------------------------
(***************************************************************************)
(* threadFunction(): the thread of the tracker                             *)
(***************************************************************************)
TrackerLoads ==
    /\ mInited
    /\ load["tracker"] = "idle"
    /\ mNeedUpdate
    /\ load' = [load EXCEPT !["tracker"] = "open"]
    /\ UNCHANGED <<serverVars, listVars, readVars, answer, mNeedUpdate, mNeedReloadWithoutSkip>>

(* A mutant: a load that fails ends the thread.                            *)
TrackerGivesUp ==
    /\ load["tracker"] = "loaded"
    /\ load' = [load EXCEPT !["tracker"] = IF mNeedReloadWithoutSkip THEN "openNoSkip" ELSE "idle"]
    /\ mNeedReloadWithoutSkip' = FALSE
    /\ mNeedUpdate' = FALSE
    /\ UNCHANGED <<serverVars, listVars, readVars, answer>>

(* Once more without skip, or mNeedUpdate is reset, with the requests that *)
(* came while it was loading.                                              *)
TrackerLoaded ==
    /\ load["tracker"] \in {"loaded", "failed"}
    /\ load' = [load EXCEPT !["tracker"] = IF mNeedReloadWithoutSkip THEN "openNoSkip" ELSE "idle"]
    /\ mNeedReloadWithoutSkip' = FALSE
    /\ mNeedUpdate' = (mNeedUpdate /\ mNeedReloadWithoutSkip)
    /\ UNCHANGED <<serverVars, listVars, readVars, answer>>

-----------------------------------------------------------------------------
(***************************************************************************)
(* HLSStream: the read thread                                              *)
(***************************************************************************)
(* open_internal() notes where it was, and init() loads the playlist the   *)
(* first time, and when the stream is live.                                *)
Open ==
    /\ rpc = "stopped"
    /\ target' = [num |-> mCurSegNum, position |-> mCurSegNum - getFirstSeqNum - 1]
    /\ IF ~ mInited \/ b_live
       THEN rpc' = "init" /\ load' = [load EXCEPT !["reader"] = "open"]
       ELSE rpc' = "place" /\ UNCHANGED load
    /\ UNCHANGED <<serverVars, listVars, answer, mNeedUpdate, mNeedReloadWithoutSkip,
                   mCurSegNum, mSeeked, mInited, mIsDataEOS, missed, opens>>

(* init() returns; on an error the stream is opened again.                 *)
InitFailed ==
    /\ rpc = "init" /\ load["reader"] = "failed"
    /\ load' = [load EXCEPT !["reader"] = "idle"]
    /\ rpc' = "stopped"
    /\ UNCHANGED <<serverVars, listVars, answer, mNeedUpdate, mNeedReloadWithoutSkip,
                   target, mCurSegNum, mSeeked, mInited, mIsDataEOS, missed, opens>>

InitDone ==
    /\ rpc = "init" /\ load["reader"] = "loaded"
    /\ load' = [load EXCEPT !["reader"] = "idle"]
    /\ mInited' = TRUE
    /\ mCurSegNum' = IF mCurSegNum = 0 THEN getFirstSeqNum ELSE mCurSegNum
    /\ rpc' = "place"
    /\ UNCHANGED <<serverVars, listVars, answer, mNeedUpdate, mNeedReloadWithoutSkip,
                   target, mSeeked, mIsDataEOS, missed, opens>>

(* Where a live stream that is opened again goes on: at the same number if *)
(* it is near the list, at the same position otherwise; never before it.   *)
Half == (Len(segments) + 1) \div 2
Near(num) ==
    /\ num >= IF getFirstSeqNum > Half - 1 THEN getFirstSeqNum - Half - 1 ELSE 0
    /\ num <= mLastSeqNum + Half
Again == IF Near(target.num) THEN target.num ELSE getFirstSeqNum + target.position

(* MoveToLiveStartSegment(), for a stream without partial segments, picks  *)
(* a segment of the list by HOLD-BACK or by the option liveStartIndex.     *)
Place ==
    /\ rpc = "place"
    /\ rpc' = "open"
    /\ IF b_live
       THEN /\ mSeeked' = TRUE
            /\ IF mSeeked
               THEN mCurSegNum' = IF Again < getFirstSeqNum THEN getFirstSeqNum ELSE Again
               ELSE \E i \in DOMAIN segments : mCurSegNum' = segments[i]
       ELSE UNCHANGED <<mSeeked, mCurSegNum>>
    /\ target' = NoTarget
    /\ UNCHANGED <<serverVars, listVars, loadVars, mInited, mIsDataEOS, missed, opens>>

(* getCurSegment(true): none yet, the stream is opened again when it is    *)
(* live, and has ended when it is not.                                     *)
OpenNone ==
    /\ rpc = "open"
    /\ getSegmentByNumber(mCurSegNum) = 0
    /\ rpc' = IF b_live THEN "stopped" ELSE "eos"
    /\ UNCHANGED <<serverVars, listVars, loadVars, target, mCurSegNum, mSeeked, mInited,
                   mIsDataEOS, missed, opens>>

OpenSegment ==
    /\ rpc = "open"
    /\ getSegmentByNumber(mCurSegNum) # 0
    /\ mCurSegNum' = getSegmentByNumber(mCurSegNum)
    /\ rpc' = "reading"
    /\ UNCHANGED <<serverVars, listVars, loadVars, target, mSeeked, mInited, mIsDataEOS,
                   missed, opens>>

(* updateSegment() at the end of a segment: the next one there is.         *)
NextSegment ==
    LET seg == getSegmentByNumber(mCurSegNum + 1) IN
    /\ rpc = "reading"
    /\ seg # 0
    /\ mCurSegNum' = seg
    /\ missed' = missed \cup {n \in mCurSegNum + 1 .. seg - 1 : n >= first}
    /\ UNCHANGED <<serverVars, listVars, loadVars, rpc, target, mSeeked, mInited, mIsDataEOS, opens>>

(* A mutant: the end of the list is the end of the stream.                 *)
EndOfList ==
    /\ rpc = "reading"
    /\ getSegmentByNumber(mCurSegNum + 1) = 0
    /\ mIsDataEOS' = TRUE
    /\ rpc' = "eos"
    /\ UNCHANGED <<serverVars, listVars, loadVars, target, mCurSegNum, mSeeked, mInited, missed, opens>>

(* No segment left: the end, if the playlist had a duration.  Otherwise it *)
(* is tried again (-EAGAIN).                                               *)
EndOfStream ==
    /\ rpc = "reading"
    /\ getSegmentByNumber(mCurSegNum + 1) = 0
    /\ mDuration > 0
    /\ mIsDataEOS' = TRUE
    /\ rpc' = "eos"
    /\ UNCHANGED <<serverVars, listVars, loadVars, target, mCurSegNum, mSeeked, mInited, missed, opens>>

(* reLoadPlayList(), before every packet, when the interval is over.       *)
ReLoadPlayList ==
    /\ rpc = "reading"
    /\ b_live
    /\ ~ mNeedUpdate
    /\ mNeedUpdate' = TRUE
    /\ UNCHANGED <<serverVars, listVars, readVars, load, answer, mNeedReloadWithoutSkip>>

(* seek(): the read thread is parked; it goes on with the segment after    *)
(* the one before the segment of that time, or, when no segment has that   *)
(* time, after the last.                                                   *)
Seek ==
    /\ rpc \in {"reading", "eos"}
    /\ opens < MaxOpens
    /\ mCurSegNum' \in {segments[i] - 1 : i \in DOMAIN segments} \cup {mLastSeqNum}
    /\ mSeeked' = TRUE
    /\ mIsDataEOS' = FALSE
    /\ rpc' = "reading"
    /\ opens' = opens + 1
    /\ UNCHANGED <<serverVars, listVars, loadVars, target, mInited, missed>>

(* stop() and start(): when streams are switched, or closed and opened.    *)
StopStart ==
    /\ rpc \in {"reading", "eos"}
    /\ opens < MaxOpens
    /\ mIsDataEOS' = FALSE
    /\ rpc' = "stopped"
    /\ opens' = opens + 1
    /\ UNCHANGED <<serverVars, listVars, loadVars, target, mCurSegNum, mSeeked, mInited, missed>>

(* The other stream was read up to here when HLSManager switches to this   *)
(* one: its number, plus one, is where this one is opened.                 *)
SwitchTo(num) ==
    /\ rpc = "stopped"
    /\ opens < MaxOpens
    /\ mCurSegNum' = num
    /\ mSeeked' = TRUE
    /\ opens' = opens + 1
    /\ UNCHANGED <<serverVars, listVars, loadVars, rpc, target, mInited, mIsDataEOS, missed>>

-----------------------------------------------------------------------------
Server == ServerAdds \/ ServerDrops \/ ServerEnds
Load(l) == Answer(l) \/ LoadFails(l) \/ MergeRefused(l) \/ Merge(l)
Tracker == TrackerLoads \/ TrackerLoaded \/ MergeRefused("tracker") \/ Merge("tracker")
Reader ==
    \/ Open \/ InitFailed \/ InitDone \/ Place \/ OpenNone \/ OpenSegment
    \/ MergeRefused("reader") \/ Merge("reader")

Next ==
    \/ Server
    \/ \E l \in Loaders : Load(l)
    \/ TrackerLoads \/ TrackerLoaded
    \/ Open \/ InitFailed \/ InitDone \/ Place \/ OpenNone \/ OpenSegment
    \/ NextSegment \/ EndOfStream \/ ReLoadPlayList \/ Seek \/ StopStart
    \/ \E num \in Numbers : SwitchTo(num)

Spec == Init /\ [][Next]_vars

(* Both threads run, a load that is tried again and again is answered some *)
(* day, and the reader comes to the end of a segment.                      *)
FairSpec ==
    /\ Spec
    /\ WF_vars(Tracker) /\ WF_vars(Reader)
    /\ \A l \in Loaders, step \in {"open", "openNoSkip"} :
           SF_vars(load[l] = step /\ Answer(l))
    /\ WF_vars(NextSegment) /\ WF_vars(EndOfStream) /\ WF_vars(ReLoadPlayList)

-----------------------------------------------------------------------------
(***************************************************************************)
(* Properties                                                              *)
(***************************************************************************)

(* The list is a run of consecutive numbers up to the newest, whatever the *)
(* order in which two loads are merged.                                    *)
ServerTypeOK == last \in Numbers /\ first \in 1 .. last /\ ended \in BOOLEAN
ListTypeOK ==
    /\ segments \in Seq(Numbers)
    /\ \A i \in DOMAIN segments : segments[i] = mLastSeqNum - Len(segments) + i
    /\ segments = <<>> <=> mLastSeqNum = 0
    /\ mLastSeqNum \in 0 .. last
    /\ mDuration \in {-1, 0, 1}
    /\ b_live \in BOOLEAN /\ partial \in BOOLEAN
LoadTypeOK ==
    /\ load \in [Loaders -> LoadSteps]
    /\ answer \in [Loaders -> [first : 0 .. MaxSeq, from : 0 .. MaxSeq, to : 0 .. MaxSeq,
                               ended : BOOLEAN, delta : BOOLEAN]]
    /\ mNeedUpdate \in BOOLEAN /\ mNeedReloadWithoutSkip \in BOOLEAN
ReadTypeOK ==
    /\ rpc \in ReadSteps
    /\ target.num \in 0 .. 2 * MaxSeq /\ target.position \in -MaxSeq - 1 .. MaxSeq
    /\ mCurSegNum \in 0 .. 2 * MaxSeq
    /\ mSeeked \in BOOLEAN /\ mInited \in BOOLEAN /\ mIsDataEOS \in BOOLEAN
    /\ missed \subseteq Nat /\ opens \in 0 .. MaxOpens
TypeOK == ServerTypeOK /\ ListTypeOK /\ LoadTypeOK /\ ReadTypeOK

(* The reader jumps over a segment only when the server does not have it   *)
(* any more: no merge takes from it what it could still read.  merge()     *)
(* breaks this only by what it counts: when the loads of the two threads   *)
(* cross an older, shorter playlist, and in a delta update what is left.   *)
NothingMissed == ~ partial => missed = {}

(* The end is reported when the stream has ended and the last segment was  *)
(* read: not when the reader is only faster than the server.               *)
EosIsTheEnd == rpc = "eos" => ended /\ mCurSegNum >= last

(* A reader that waits gets the next segment of the server: no request to  *)
(* load is lost for ever, though mNeedUpdate is reset after a load.        *)
Waits(n) == rpc = "reading" /\ mCurSegNum = n /\ last > n
LiveGoesOn == \A n \in 0 .. MaxSeq : Waits(n) ~> ~ Waits(n)

-----------------------------------------------------------------------------
(***************************************************************************)
(* The strengthening that the proofs need                                  *)
(***************************************************************************)

(* What an answer said is still true in part when it is merged: the window *)
(* only moves on, and an end is for ever.                                  *)
AnswerHolds(a) ==
    /\ 1 <= a.first /\ a.first <= first
    /\ a.first <= a.from /\ a.from <= a.to /\ a.to <= last
    /\ a.ended => ended /\ a.to = last
    /\ IF a.delta THEN segments # <<>> ELSE a.from = a.first
Answers == \A l \in Loaders : load[l] = "merge" => AnswerHolds(answer[l])

(* Once a load is done the list has a segment, for ever.                   *)
Filled ==
    \/ \E l \in Loaders : load[l] = "loaded"
    \/ mInited \/ b_live \/ rpc \in {"place", "open", "reading", "eos"}
Loaded == Filled => segments # <<>>

(* A list that is not live, and a playlist that had a duration, are        *)
(* complete.                                                               *)
Complete == ended /\ mLastSeqNum = last
Finished ==
    /\ ~ b_live /\ segments # <<>> => Complete
    /\ mDuration = 1 => Complete

(* The reader is at most a playlist in front of the list.                  *)
InReach ==
    /\ mCurSegNum <= getFirstSeqNum + MaxSeq
    /\ target.num <= getFirstSeqNum + MaxSeq

(* The list begins where the window does, or before.                       *)
FromTheWindow == ~ partial /\ segments # <<>> => getFirstSeqNum <= first
=============================================================================
