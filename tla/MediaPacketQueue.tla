-------------------------- MODULE MediaPacketQueue --------------------------
(***************************************************************************)
(* mediaPlayer/media_packet_queue.cpp: the packets of one stream between   *)
(* the demuxer and its decoder, as operators on the state of one queue.    *)
(* Packets before the cursor were taken already and are kept, up to        *)
(* mMAXBackwardDuration, so that a seek backwards finds them.              *)
(*                                                                         *)
(* Every function of the class holds mMutex, so each is one step.          *)
(* mCurrent is an index: Len(mQueue) + 1 stands for end().                 *)
(***************************************************************************)
EXTENDS Integers, Sequences, FiniteSetsExt, SequencesExt

NoPosition == -1   \* INT64_MIN
NoExtra == 0       \* extra_data_size is 0

Packet == [timePosition : Nat, key : BOOLEAN, seamlessPoint : BOOLEAN,
           duration : Nat, discard : BOOLEAN, extra : Nat]

Queue == [mQueue : Seq(Packet), mCurrent : Nat, mPacketDuration : Nat,
          mDuration : Nat, mTotalDuration : Nat,
          mMAXBackwardDuration : Nat, mDropedExtra : Nat]

EmptyQueue ==
    [mQueue |-> <<>>, mCurrent |-> 1, mPacketDuration |-> 0,
     mDuration |-> 0, mTotalDuration |-> 0,
     mMAXBackwardDuration |-> 0, mDropedExtra |-> NoExtra]

AtEnd(q) == q.mCurrent > Len(q.mQueue)
Current(q) == q.mQueue[q.mCurrent]
Ahead(q) == q.mCurrent .. Len(q.mQueue)

(* What a packet adds to mDuration and mTotalDuration.                     *)
Counted(p) == IF p.duration > 0 /\ ~ p.discard THEN p.duration ELSE 0

CountedIn(s) ==
    LET sum[n \in 0 .. Len(s)] == IF n = 0 THEN 0 ELSE sum[n - 1] + Counted(s[n])
    IN  sum[Len(s)]

-----------------------------------------------------------------------------
ClearQueue(q) ==
    [EmptyQueue EXCEPT !.mMAXBackwardDuration = q.mMAXBackwardDuration,
                       !.mDropedExtra = q.mDropedExtra]

(* A packet without a duration takes the one the queue knows.              *)
Filled(q, p) == [p EXCEPT !.duration = IF p.duration > 0 THEN @ ELSE q.mPacketDuration,
                          !.extra = IF @ = NoExtra THEN q.mDropedExtra ELSE @]

AddPacket(q, p) ==
    LET new == Filled(q, p) IN
    [q EXCEPT !.mQueue = Append(@, new),
              !.mPacketDuration = IF @ = 0 THEN new.duration ELSE @,
              !.mDuration = @ + Counted(new),
              !.mTotalDuration = @ + Counted(new),
              !.mDropedExtra = NoExtra]

(* A mutant: what lies before the cursor is counted as ahead of it.        *)
SetEveryPacketDuration(q, duration) ==
    LET timed == [i \in DOMAIN q.mQueue |->
                    IF q.mQueue[i].duration > 0 THEN q.mQueue[i]
                    ELSE [q.mQueue[i] EXCEPT !.duration = duration]]
        missed == CountedIn(timed) - CountedIn(q.mQueue)
    IN  IF q.mPacketDuration > 0 THEN q
        ELSE [q EXCEPT !.mQueue = timed,
                       !.mPacketDuration = duration,
                       !.mDuration = @ + missed,
                       !.mTotalDuration = @ + missed]

SetOnePacketDuration(q, duration) ==
    LET timed == [i \in DOMAIN q.mQueue |->
                    IF q.mQueue[i].duration > 0 THEN q.mQueue[i]
                    ELSE [q.mQueue[i] EXCEPT !.duration = duration]]
        Missed(from) == CountedIn(SubSeq(timed, from, Len(timed)))
                        - CountedIn(SubSeq(q.mQueue, from, Len(timed)))
    IN  IF q.mPacketDuration > 0 THEN q
        ELSE [q EXCEPT !.mQueue = timed,
                       !.mPacketDuration = duration,
                       !.mDuration = @ + Missed(q.mCurrent),
                       !.mTotalDuration = @ + Missed(1)]

-----------------------------------------------------------------------------
(* Drops n packets at the front; a cursor on one of them moves to begin(). *)
DropFront(q, n) ==
    [q EXCEPT !.mQueue = SubSeq(@, n + 1, Len(@)),
              !.mTotalDuration = @ - CountedIn(SubSeq(q.mQueue, 1, n)),
              !.mCurrent = IF @ > n THEN @ - n ELSE 1]

(* A mutant: the cursor is not moved with the packets dropped before it.   *)
TrimUnderCursor(q) ==
    LET Fits(n) == DropFront(q, n).mTotalDuration - q.mDuration <= q.mMAXBackwardDuration
    IN  [DropFront(q, Min({n \in 0 .. Len(q.mQueue) : Fits(n)})) EXCEPT !.mCurrent = q.mCurrent]

(* The loop at the end of getPacket().                                     *)
Trim(q) ==
    LET Fits(n) == DropFront(q, n).mTotalDuration - q.mDuration <= q.mMAXBackwardDuration
    IN  DropFront(q, Min({n \in 0 .. Len(q.mQueue) : Fits(n)}))

(* The packet getPacket() returns, and the queue it leaves.                *)
PacketTaken(q) == IF q.mMAXBackwardDuration = 0 THEN Head(q.mQueue) ELSE Current(q)

Taken(q) ==
    LET used == [q EXCEPT !.mDuration = @ - Counted(PacketTaken(q))]
    IN  IF q.mMAXBackwardDuration = 0
        THEN [DropFront(used, 1) EXCEPT !.mCurrent = 1]
        ELSE Trim([used EXCEPT !.mCurrent = @ + 1])

(* mDropedExtra_data goes to the packet under the cursor, if there is one. *)
GiveExtra(q) ==
    IF AtEnd(q) \/ q.mDropedExtra = NoExtra THEN q
    ELSE [q EXCEPT !.mQueue[q.mCurrent].extra = IF @ = NoExtra THEN q.mDropedExtra ELSE @,
                   !.mDropedExtra = NoExtra]

(* A mutant: the extra data goes with the packet that is dropped.          *)
PopWithExtra(q) ==
    LET ahead == [q EXCEPT !.mDuration = @ - Counted(Current(q))]
    IN  IF AtEnd(q) THEN q
        ELSE IF q.mMAXBackwardDuration = 0
             THEN [DropFront(ahead, 1) EXCEPT !.mCurrent = 1]
             ELSE [ahead EXCEPT !.mCurrent = @ + 1]

PopFrontPacket(q) ==
    LET extra == Current(q).extra
        saved == IF extra = NoExtra THEN q
                 ELSE [q EXCEPT !.mDropedExtra = extra,
                                !.mQueue[q.mCurrent].extra = NoExtra]
        ahead == [saved EXCEPT !.mDuration = @ - Counted(Current(q))]
    IN  IF AtEnd(q) THEN q
        ELSE GiveExtra(IF q.mMAXBackwardDuration = 0
                       THEN [DropFront(ahead, 1) EXCEPT !.mCurrent = 1]
                       ELSE [ahead EXCEPT !.mCurrent = @ + 1])

(* PopFrontPacket() as long as the packet under the cursor is before pos.  *)
ClearPacketBeforeTimePos(q, pos) ==
    LET Late(i) == q.mQueue[i].timePosition < pos
        kept == {i \in Ahead(q) : ~ Late(i)} \cup {Len(q.mQueue) + 1}
        popped[n \in 0 .. Len(q.mQueue)] == IF n = 0 THEN q ELSE PopFrontPacket(popped[n - 1])
    IN  popped[Min(kept) - q.mCurrent]

(* A mutant: the packet at pos stays.                                      *)
ClearPacketBeyondTimePosition(q, pos) ==
    LET found == {i \in Ahead(q) \ {q.mCurrent} : q.mQueue[i].timePosition = pos}
        last == IF found = {} THEN q.mCurrent ELSE Max(found)
        gone == CountedIn(SubSeq(q.mQueue, last + 1, Len(q.mQueue)))
    IN  [q EXCEPT !.mQueue = SubSeq(@, 1, last),
                  !.mDuration = @ - gone,
                  !.mTotalDuration = @ - gone]

(* Called with the cursor on a packet: packets are dropped at the back, up *)
(* to the one at pos or to the one under the cursor, which stays.          *)
ClearPacketAfterTimePosition(q, pos) ==
    LET found == {i \in Ahead(q) \ {q.mCurrent} : q.mQueue[i].timePosition = pos}
        last == IF found = {} THEN q.mCurrent ELSE Max(found) - 1
        gone == CountedIn(SubSeq(q.mQueue, last + 1, Len(q.mQueue)))
    IN  [q EXCEPT !.mQueue = SubSeq(@, 1, last),
                  !.mDuration = @ - gone,
                  !.mTotalDuration = @ - gone]

Rewind(q) == [q EXCEPT !.mCurrent = 1, !.mDuration = q.mTotalDuration]

SetMaxBackwardDuration(q, duration) == [q EXCEPT !.mMAXBackwardDuration = duration]

-----------------------------------------------------------------------------
GetLastTimePos(q) == IF AtEnd(q) THEN NoPosition ELSE Last(q.mQueue).timePosition

GetFirstTimePos(q) == IF AtEnd(q) THEN NoPosition ELSE Current(q).timePosition

(* A mutant: the first key is found, not the last.                         *)
FirstKeyTimePosition(q, pos) ==
    LET keys == {i \in Ahead(q) : q.mQueue[i].key /\ q.mQueue[i].timePosition <= pos}
    IN  IF keys = {} THEN NoPosition ELSE q.mQueue[Min(keys)].timePosition

(* From the back to the packet under the cursor.  At end() the test for    *)
(* that packet reads past the list: it matches nothing, and the packets    *)
(* already taken are searched too.                                         *)
GetKeyTimePositionBefore(q, pos) ==
    LET from == IF AtEnd(q) THEN 1 ELSE q.mCurrent
        keys == {i \in from .. Len(q.mQueue) : q.mQueue[i].key /\ q.mQueue[i].timePosition <= pos}
    IN  IF keys = {} THEN NoPosition ELSE q.mQueue[Max(keys)].timePosition

(* GetDuration() of an audio or a video queue that knows no duration.      *)
DurationUnknown(q) == q.mPacketDuration = 0 /\ ~ AtEnd(q)

(* Where the next seamless point is; 0: nowhere.                           *)
SeamlessPoints(q) == {i \in Ahead(q) : q.mQueue[i].seamlessPoint /\ q.mQueue[i].timePosition > 0}
=============================================================================
