------------------------- MODULE CurlSourceTheorems -------------------------
(***************************************************************************)
(* What holds for any number of sources and connections, files and buffers *)
(* of any size, any sizes and offsets that the readers ask for, and any    *)
(* number of errors and changes of the network.                            *)
(***************************************************************************)
EXTENDS CurlSource, TLAPS

Byte == Nat \cup {PageByte}

LEMMA Concatenation ==
  ASSUME NEW S, NEW q \in Seq(S), NEW r \in Seq(S)
  PROVE  q \o r \in Seq(S) /\ Len(q \o r) = Len(q) + Len(r) /\ Len(q) \in Nat /\ Len(r) \in Nat
OBVIOUS

LEMMA FirstAndRest ==
  ASSUME NEW S, NEW q \in Seq(S), q # <<>>
  PROVE  Head(q) \in S /\ Tail(q) \in Seq(S)
OBVIOUS

(* What the operations of the ring buffer do to the room in it: reading    *)
(* and skipping never take any, and writing what fits leaves no less than  *)
(* none.                                                                   *)
LEMMA Consuming ==
  ASSUME NEW w \in Window, NEW n \in 0 .. Len(w.unread), NEW limit \in Nat
  PROVE  /\ Consumed(w, n, limit) \in Window
         /\ Len(Consumed(w, n, limit).unread) = Len(w.unread) - n
         /\ Len(Consumed(w, n, limit).kept) = AtMost(limit, Len(w.kept) + n)
<1> DEFINE behind == w.kept \o SubSeq(w.unread, 1, n)
           m == AtMost(limit, Len(behind))
<1>1. w.kept \in Seq(Byte) /\ w.unread \in Seq(Byte)
  BY DEF Window, Byte
<1>2. SubSeq(w.unread, 1, n) \in Seq(Byte) /\ Len(SubSeq(w.unread, 1, n)) = n
  BY <1>1
<1>3. behind \in Seq(Byte) /\ Len(behind) = Len(w.kept) + n /\ Len(w.kept) \in Nat
  <2> HIDE DEF behind
  <2>1. behind = w.kept \o SubSeq(w.unread, 1, n)
    BY DEF behind
  <2>. QED  BY <1>1, <1>2, <2>1, Concatenation
<1>4. m \in 0 .. Len(behind) /\ m = AtMost(limit, Len(w.kept) + n)
  <2> HIDE DEF behind
  <2>. QED  BY <1>3 DEF AtMost
<1> HIDE DEF behind, m
<1>5. Newest(behind, m) \in Seq(Byte) /\ Len(Newest(behind, m)) = m
  BY <1>3, <1>4 DEF Newest
<1>6. Rest(w.unread, n) \in Seq(Byte) /\ Len(Rest(w.unread, n)) = Len(w.unread) - n
  BY <1>1 DEF Rest
<1>7. Consumed(w, n, limit) = [kept |-> Newest(behind, m), unread |-> Rest(w.unread, n)]
  BY DEF Consumed, behind, m
<1>. QED  BY <1>4, <1>5, <1>6, <1>7 DEF Window, Byte

LEMMA RoomAfterConsuming ==
  ASSUME NEW w \in Window, Room(w) >= 0, NEW n \in 0 .. Len(w.unread)
  PROVE  /\ AfterRead(w, n) \in Window /\ Room(AfterRead(w, n)) >= 0
         /\ AfterSkip(w, n) \in Window /\ Room(AfterSkip(w, n)) >= 0
<1>1. w.kept \in Seq(Byte) /\ w.unread \in Seq(Byte) /\ m_size \in Nat /\ m_back_size \in Nat
  BY WindowAssumption DEF Window, Byte
<1>2. Len(w.kept) \in Nat /\ Len(w.unread) \in Nat /\ n \in Nat /\ n <= Len(w.unread)
  BY <1>1
<1>3. /\ AfterRead(w, n) \in Window
      /\ Len(AfterRead(w, n).unread) = Len(w.unread) - n
      /\ Len(AfterRead(w, n).kept) = AtMost(m_back_size, Len(w.kept) + n)
  BY <1>1, Consuming DEF AfterRead
<1>4. /\ AfterSkip(w, n) \in Window
      /\ Len(AfterSkip(w, n).unread) = Len(w.unread) - n
      /\ Len(AfterSkip(w, n).kept) = AtMost(Len(w.kept), Len(w.kept) + n)
  BY <1>2, Consuming DEF AfterSkip
<1> DEFINE k == Len(w.kept)
           u == Len(w.unread)
<1>5. ASSUME NEW limit \in Nat
      PROVE  m_size - AtMost(limit, k + n) - (u - n) >= 0
  <2>1. m_size - k - u >= 0
    BY DEF Room
  <2> HIDE DEF k, u
  <2>2. k \in Nat /\ u \in Nat
    BY <1>2 DEF k, u
  <2>3. AtMost(limit, k + n) <= k + n /\ AtMost(limit, k + n) \in Int
    BY <1>2, <2>2 DEF AtMost
  <2>. QED  BY <1>1, <1>2, <2>1, <2>2, <2>3
<1>6. Room(AfterRead(w, n)) >= 0
  BY <1>1, <1>3, <1>5 DEF Room
<1>7. Room(AfterSkip(w, n)) >= 0
  BY <1>2, <1>4, <1>5 DEF Room
<1>. QED  BY <1>3, <1>4, <1>6, <1>7

LEMMA RoomAfterSkipBack ==
  ASSUME NEW w \in Window, Room(w) >= 0, NEW n \in 0 .. Len(w.kept)
  PROVE  AfterSkipBack(w, n) \in Window /\ Room(AfterSkipBack(w, n)) >= 0
<1>1. w.kept \in Seq(Byte) /\ w.unread \in Seq(Byte) /\ m_size \in Nat
  BY WindowAssumption DEF Window, Byte
<1>2. SubSeq(w.kept, 1, Len(w.kept) - n) \in Seq(Byte)
      /\ Len(SubSeq(w.kept, 1, Len(w.kept) - n)) = Len(w.kept) - n
  BY <1>1
<1>3. Newest(w.kept, n) \in Seq(Byte) /\ Len(Newest(w.kept, n)) = n
  BY <1>1 DEF Newest
<1>4. Newest(w.kept, n) \o w.unread \in Seq(Byte)
      /\ Len(Newest(w.kept, n) \o w.unread) = n + Len(w.unread)
  BY <1>1, <1>3, Concatenation
<1>5. AfterSkipBack(w, n) \in Window
  BY <1>2, <1>4 DEF AfterSkipBack, Window, Byte
<1>6. Room(AfterSkipBack(w, n)) = Room(w)
  <2> DEFINE k == Len(w.kept)
             u == Len(w.unread)
  <2>1. k \in Nat /\ u \in Nat /\ n \in Nat
    BY <1>1
  <2>2. Room(AfterSkipBack(w, n)) = m_size - (k - n) - (n + u) /\ Room(w) = m_size - k - u
    BY <1>2, <1>4 DEF AfterSkipBack, Room
  <2> HIDE DEF k, u
  <2>3. m_size - (k - n) - (n + u) = m_size - k - u
    BY <1>1, <2>1
  <2>. QED  BY <2>2, <2>3
<1>. QED  BY <1>5, <1>6

LEMMA RoomAfterWrite ==
  ASSUME NEW w \in Window, NEW bytes \in Seq(Byte), Len(bytes) <= Room(w)
  PROVE  AfterWrite(w, bytes) \in Window /\ Room(AfterWrite(w, bytes)) >= 0
<1>1. w.kept \in Seq(Byte) /\ w.unread \in Seq(Byte) /\ m_size \in Nat
  BY WindowAssumption DEF Window, Byte
<1>2. w.unread \o bytes \in Seq(Byte) /\ Len(w.unread \o bytes) = Len(w.unread) + Len(bytes)
  BY <1>1, Concatenation
<1>. QED  BY <1>1, <1>2 DEF AfterWrite, Window, Byte, Room

LEMMA RoomOfEmpty == EmptyWindow \in Window /\ Room(EmptyWindow) >= 0
BY WindowAssumption DEF EmptyWindow, Window, Room

(* The length of what a connection has for its reader.                     *)
LEMMA FillType ==
  ASSUME ConnectionTypeOK, NEW h \in Handles
  PROVE  /\ ring[h] \in Window /\ Room(ring[h]) >= 0
         /\ Fill(h) = Len(ring[h].unread) /\ Fill(h) \in Nat
         /\ Len(ring[h].kept) \in Nat
BY DEF ConnectionTypeOK, Window, Fill

-----------------------------------------------------------------------------
(* Type correctness *)

LEMMA InitTypeOK == Init => TypeOK
<1> SUFFICES ASSUME Init
             PROVE  TypeOK
  OBVIOUS
<1>1. SourceTypeOK /\ ReaderTypeOK
  BY DEF Init, SourceTypeOK, ReaderTypeOK, Outcomes
<1>2. ConnectionTypeOK
  BY RoomOfEmpty DEF Init, ConnectionTypeOK, Outcomes
<1>3. CurlTypeOK
  BY DEF Init, CurlTypeOK
<1>4. LoopTypeOK
  <2>1. 0 \in 0 .. MaxErrors /\ 0 \in 0 .. MaxReconnects
    BY CurlAssumption
  <2>. QED  BY <2>1 DEF Init, LoopTypeOK
<1>. QED  BY <1>1, <1>2, <1>3, <1>4 DEF TypeOK

(* The file size that a source learns.                                     *)
LEMMA MeasureType ==
  ASSUME SourceTypeOK, ConnectionTypeOK, NEW s \in Sources, mPConnection[s] \in Handles, Measure(s)
  PROVE  mFileSize' \in [Sources -> Nat]
<1>1. CASE ret[s] # "ok"
  BY <1>1 DEF Measure, SourceTypeOK
<1>2. CASE ret[s] = "ok"
  <2>1. mFilePos[mPConnection[s]] \in Nat
    BY DEF ConnectionTypeOK
  <2>2. PICK known \in {TRUE, at[mPConnection[s]] # resumeFrom[mPConnection[s]]} :
          mFileSize' = [mFileSize EXCEPT ![s] =
             IF ~known THEN 0
             ELSE IF page[mPConnection[s]] THEN mFilePos[mPConnection[s]] + 1 ELSE FileSize]
    BY <1>2 DEF Measure
  <2>. QED  BY <2>1, <2>2, CurlAssumption DEF SourceTypeOK
<1>. QED  BY <1>1, <1>2

LEMMA SourceTypes == TypeOK /\ Ownership /\ [Next]_vars => SourceTypeOK'
<1> SUFFICES ASSUME TypeOK, Ownership, [Next]_vars
             PROVE  SourceTypeOK'
  OBVIOUS
<1>1. SourceTypeOK /\ ConnectionTypeOK
  BY DEF TypeOK
<1>2. \A s \in Sources : rpc[s] \in Filling \cup {"replace", "take"} => mPConnection[s] \in Handles
  BY <1>1 DEF Ownership, SourceTypeOK
<1>3. CASE UNCHANGED sourceVars
  BY <1>1, <1>3 DEF SourceTypeOK, sourceVars
<1>4. ASSUME NEW s \in Sources, ReaderCall(s)
      PROVE  SourceTypeOK'
  <2>1. CASE Open(s)
    BY <1>1, <2>1 DEF Open, SourceTypeOK
  <2>2. CASE Close(s)
    BY <1>1, <2>2 DEF Close, Delete, SourceTypeOK
  <2>3. CASE \E offset \in SeekTargets : SeekCall(s, offset)
    BY <1>3, <2>3 DEF SeekCall, SeekPastEnd, SeekReconnecting, SeekInBuffer, SeekNear, SeekFar
  <2>4. CASE \E n \in ReadSizes : Read(s, n)
    BY <1>3, <2>4 DEF Read
  <2>. QED  BY <1>4, <2>1, <2>2, <2>3, <2>4 DEF ReaderCall
<1>5. ASSUME NEW s \in Sources, ReaderStep(s)
      PROVE  SourceTypeOK'
  <2>1. CASE Replace(s)
    BY <1>1, <2>1 DEF Replace, Delete, SourceTypeOK
  <2>2. CASE Connect(s)
    BY <1>1, <2>2 DEF Connect, SourceTypeOK
  <2>3. CASE Opened(s) \/ SeekConnected(s) \/ ReadReconnected(s)
    <3>1. mPConnection[s] \in Handles /\ Measure(s)
      BY <1>2, <2>3 DEF Opened, SeekConnected, ReadReconnected, Filling
    <3>2. mFileSize' \in [Sources -> Nat]
      BY <1>1, <3>1, MeasureType
    <3>3. UNCHANGED <<mPConnection, mInterrupt>>
          /\ (mNeedReconnect' = mNeedReconnect
               \/ mNeedReconnect' = [mNeedReconnect EXCEPT ![s] = FALSE])
      BY <2>3 DEF Opened, SeekConnected, ReadReconnected
    <3>. QED  BY <1>1, <3>2, <3>3 DEF SourceTypeOK
  <2>4. CASE \/ FillCheck(s) \/ FillEos(s) \/ FillPause(s) \/ FillResume(s) \/ FillStatus(s)
             \/ Retry(s) \/ Again(s) \/ SeekNearEnds(s) \/ ReadFilled(s) \/ Take(s)
    BY <1>3, <2>4 DEF FillCheck, FillEos, FillPause, FillResume, FillStatus, Retry, Again,
                      SeekNearEnds, ReadFilled, Take
  <2>. QED  BY <1>5, <2>1, <2>2, <2>3, <2>4 DEF ReaderStep
<1>6. ASSUME NEW s \in Sources, NEW interrupt \in BOOLEAN, Interrupt(s, interrupt)
      PROVE  SourceTypeOK'
  BY <1>1, <1>6 DEF Interrupt, SourceTypeOK
<1>7. CASE OnReconnect
  BY <1>1, <1>7 DEF OnReconnect, SourceTypeOK
<1>8. CASE LoopStep
  BY <1>3, <1>8 DEF LoopStep, LApplyAdd, LResume, LResuming, LApplyDelete, LWrite, LEnd, LInfo
<1>9. ASSUME NEW h \in Handles, Transfer(h) \/ (\E outcome \in Outcomes : LFail(h, outcome))
      PROVE  SourceTypeOK'
  BY <1>3, <1>9 DEF Transfer, LData, LDone, LProgress, LFail
<1>10. CASE UNCHANGED vars
  BY <1>3, <1>10 DEF vars
<1>. QED  BY <1>4, <1>5, <1>6, <1>7, <1>8, <1>9, <1>10 DEF Next

(* The windows and numbers the reader works with.                          *)
LEMMA ReaderFacts ==
  ASSUME TypeOK, Ownership, NEW s \in Sources
  PROVE  /\ rpc[s] \in Filling \cup {"replace", "take"} => mPConnection[s] \in Handles
         /\ mPConnection[s] # None => mPConnection[s] \in Handles
         /\ \A h \in Handles : /\ Fill(h) \in Nat /\ mFilePos[h] \in Nat
                              /\ ring[h] \in Window /\ Room(ring[h]) >= 0
                              /\ Fill(h) = Len(ring[h].unread) /\ Len(ring[h].kept) \in Nat
<1>1. mPConnection[s] # None => mPConnection[s] \in Handles
  BY DEF TypeOK, SourceTypeOK
<1>2. rpc[s] \in Filling \cup {"replace", "take"} => mPConnection[s] # None
  BY DEF Ownership
<1>3. \A h \in Handles : mFilePos[h] \in Nat
  BY DEF TypeOK, ConnectionTypeOK
<1>. QED  BY <1>1, <1>2, <1>3, FillType DEF TypeOK

LEMMA ReaderTypes == TypeOK /\ Ownership /\ [Next]_vars => ReaderTypeOK'
<1> SUFFICES ASSUME TypeOK, Ownership, [Next]_vars
             PROVE  ReaderTypeOK'
  OBVIOUS
<1>1. ReaderTypeOK /\ ConnectionTypeOK
  BY DEF TypeOK
<1>2. CASE UNCHANGED readerVars
  BY <1>1, <1>2 DEF ReaderTypeOK, readerVars
<1> USE DEF ReaderTypeOK, Filling, Outcomes, Goto
<1>3. ASSUME NEW s \in Sources, ReaderCall(s)
      PROVE  ReaderTypeOK'
  <2>1. CASE Open(s)
    BY <1>1, <2>1 DEF Open
  <2>2. CASE Close(s)
    BY <1>1, <2>2 DEF Close
  <2>3. ASSUME NEW offset \in SeekTargets, SeekCall(s, offset)
        PROVE  ReaderTypeOK'
    <3>1. offset \in Nat
      BY CurlAssumption
    <3>2. CASE SeekPastEnd(s, offset) \/ SeekInBuffer(s, offset)
      <4>1. UNCHANGED <<rpc, after, want, target, size, len, seen, ret>>
            /\ result' = [result EXCEPT ![s] = "ok"]
        BY <3>2 DEF SeekPastEnd, SeekInBuffer
      <4>. QED  BY <1>1, <4>1
    <3>3. CASE SeekReconnecting(s, offset) \/ SeekFar(s, offset)
      <4>1. UNCHANGED <<want, size, len, seen, ret, result>>
            /\ target' = [target EXCEPT ![s] = offset]
            /\ after' = [after EXCEPT ![s] = "seek"]
            /\ rpc' = [rpc EXCEPT ![s] = "replace"]
        BY <3>3 DEF SeekReconnecting, SeekFar
      <4>. QED  BY <1>1, <3>1, <4>1
    <3>4. CASE SeekNear(s, offset)
      <4>1. Fill(mPConnection[s]) \in Nat
        BY <3>4, ReaderFacts DEF SeekNear, CanSeek
      <4>2. m_bufferSize \in Nat
        BY CurlAssumption
      <4>. QED  BY <1>1, <3>1, <3>4, <4>1, <4>2 DEF SeekNear
    <3>. QED  BY <2>3, <3>2, <3>3, <3>4 DEF SeekCall
  <2>4. ASSUME NEW n \in ReadSizes, Read(s, n)
        PROVE  ReaderTypeOK'
    <3>1. mPConnection[s] \in Handles
      BY <2>4, ReaderFacts DEF Read
    <3>2. mFileSize[s] \in Nat /\ mFilePos[mPConnection[s]] \in Nat /\ n \in Nat
      BY <3>1, ReaderFacts, CurlAssumption DEF TypeOK, SourceTypeOK
    <3>3. Readable(s, n) \in Nat
      BY <3>2 DEF Readable, AtMost
    <3>. QED  BY <1>1, <2>4, <3>3 DEF Read, Returns
  <2>. QED  BY <1>3, <2>1, <2>2, <2>3, <2>4 DEF ReaderCall
<1>4. ASSUME NEW s \in Sources, ReaderStep(s)
      PROVE  ReaderTypeOK'
  <2>1. CASE Replace(s)
    BY <1>1, <2>1 DEF Replace
  <2>2. CASE Connect(s)
    BY <1>1, <2>2 DEF Connect
  <2>3. CASE FillCheck(s)
    <3>1. mPConnection[s] \in Handles
      BY <2>3, ReaderFacts DEF FillCheck
    <3>2. mStatus[mPConnection[s]] \in Outcomes
      BY <1>1, <3>1 DEF ConnectionTypeOK
    <3>. QED  BY <1>1, <2>3, <3>2 DEF FillCheck, FillReturns
  <2>4. CASE FillEos(s) \/ FillPause(s) \/ FillResume(s)
    BY <1>1, <2>4 DEF FillEos, FillPause, FillResume, FillReturns
  <2>5. CASE FillStatus(s)
    BY <1>1, <2>5 DEF FillStatus, FillReturns
  <2>6. CASE Retry(s) \/ Again(s)
    BY <1>1, <2>6 DEF Retry, Again, FillReturns
  <2>7. CASE Opened(s)
    <3> DEFINE what == IF ret[s] = "ok" /\ page[mPConnection[s]] THEN "error" ELSE ret[s]
    <3>1. what \in {"ok", "exit", "error"}
      BY <1>1
    <3>2. \/ rpc' = [rpc EXCEPT ![s] = "replace"] /\ UNCHANGED result
          \/ /\ result' = [result EXCEPT ![s] = what]
             /\ rpc' = [rpc EXCEPT ![s] = IF what = "ok" THEN "idle" ELSE "failed"]
      BY <2>7 DEF Opened
    <3>3. UNCHANGED <<after, want, target, size, len, seen, ret>>
      BY <2>7 DEF Opened
    <3> HIDE DEF what
    <3>. QED  BY <1>1, <3>1, <3>2, <3>3
  <2>8. CASE SeekConnected(s)
    BY <1>1, <2>8 DEF SeekConnected, Returns
  <2>9. CASE SeekNearEnds(s)
    BY <1>1, <2>9 DEF SeekNearEnds, Returns
  <2>10. CASE ReadFilled(s)
    <3>1. mFilePos[mPConnection[s]] \in Nat
      BY <2>10, ReaderFacts DEF ReadFilled
    <3>. QED  BY <1>1, <2>10, <3>1 DEF ReadFilled, Returns
  <2>11. CASE ReadReconnected(s)
    BY <1>1, <2>11 DEF ReadReconnected, Returns
  <2>12. CASE Take(s)
    BY <1>1, <2>12 DEF Take, Returns
  <2>. QED  BY <1>4, <2>1, <2>2, <2>3, <2>4, <2>5, <2>6, <2>7, <2>8, <2>9, <2>10, <2>11, <2>12
            DEF ReaderStep
<1>5. ASSUME NEW s \in Sources, NEW interrupt \in BOOLEAN, Interrupt(s, interrupt)
      PROVE  ReaderTypeOK'
  BY <1>2, <1>5 DEF Interrupt
<1>6. CASE OnReconnect
  BY <1>2, <1>6 DEF OnReconnect
<1>7. CASE LoopStep
  BY <1>2, <1>7 DEF LoopStep, LApplyAdd, LResume, LResuming, LApplyDelete, LWrite, LEnd, LInfo
<1>8. ASSUME NEW h \in Handles, Transfer(h) \/ (\E outcome \in Outcomes : LFail(h, outcome))
      PROVE  ReaderTypeOK'
  BY <1>2, <1>8 DEF Transfer, LData, LDone, LProgress, LFail
<1>9. CASE UNCHANGED vars
  BY <1>2, <1>9 DEF vars
<1>. QED  BY <1>3, <1>4, <1>5, <1>6, <1>7, <1>8, <1>9 DEF Next

(* A ring buffer is replaced by another one, which has room too.           *)
LEMMA RingReplaced ==
  ASSUME ConnectionTypeOK, NEW h \in Handles, NEW w \in Window, Room(w) >= 0,
         ring' = [ring EXCEPT ![h] = w]
  PROVE  ring' \in [Handles -> Window] /\ \A k \in Handles : Room(ring'[k]) >= 0
BY DEF ConnectionTypeOK

LEMMA ConnectionOfReader ==
  ASSUME TypeOK, Ownership, Skipped, NEW s \in Sources, ReaderCall(s) \/ ReaderStep(s)
  PROVE  ConnectionTypeOK'
<1> DEFINE c == mPConnection[s]
           Rings == ring' \in [Handles -> Window] /\ \A k \in Handles : Room(ring'[k]) >= 0
<1>1. ConnectionTypeOK /\ (Rings <=> /\ ring' \in [Handles -> Window]
                                     /\ \A k \in Handles : Room(ring'[k]) >= 0)
  BY DEF TypeOK
<1>2. ASSUME UNCHANGED connVars
      PROVE  ConnectionTypeOK'
  BY <1>1, <1>2 DEF ConnectionTypeOK, connVars, Room
<1>3. UNCHANGED ring => Rings
  BY <1>1 DEF ConnectionTypeOK
<1>4. rpc[s] \in Filling \cup {"replace", "take"} => c \in Handles
  BY ReaderFacts
<1>5. c # None => c \in Handles
  BY ReaderFacts
<1>6. c \in Handles => /\ ring[c] \in Window /\ Room(ring[c]) >= 0
                       /\ Fill(c) \in 0 .. Len(ring[c].unread) /\ Fill(c) \in Nat
                       /\ Len(ring[c].unread) = Fill(c)
                       /\ Len(ring[c].kept) \in Nat /\ mFilePos[c] \in Nat
  BY ReaderFacts
<1> HIDE DEF c, Rings
<1>7. ASSUME Rings, alive' \subseteq Handles, mFilePos' \in [Handles -> Nat],
             UNCHANGED <<mPaused, mEOS, mStatus>>, mCurlCbMutex' \in [Handles -> BOOLEAN]
      PROVE  ConnectionTypeOK'
  BY <1>1, <1>7 DEF ConnectionTypeOK, Room
<1>8. CASE ReaderCall(s)
  <2>1. CASE Open(s) \/ Close(s)
    BY <1>2, <2>1 DEF Open, Close
  <2>2. ASSUME NEW offset \in SeekTargets, SeekCall(s, offset)
        PROVE  ConnectionTypeOK'
    <3>1. offset \in Nat /\ c \in Handles
      BY <1>5, <2>2, CurlAssumption
         DEF SeekCall, SeekPastEnd, SeekReconnecting, SeekInBuffer, SeekNear, SeekFar, CanSeek, c
    <3>2. CASE SeekReconnecting(s, offset) \/ SeekFar(s, offset)
      BY <1>2, <3>2 DEF SeekReconnecting, SeekFar
    <3>3. CASE SeekPastEnd(s, offset)
      <4>1. mFilePos' = [mFilePos EXCEPT ![c] = offset]
            /\ UNCHANGED <<alive, ring, mPaused, mEOS, mStatus, mCurlCbMutex>>
        BY <3>3 DEF SeekPastEnd, c
      <4>2. alive' \subseteq Handles /\ mFilePos' \in [Handles -> Nat]
            /\ mCurlCbMutex' \in [Handles -> BOOLEAN]
        BY <1>1, <3>1, <4>1 DEF ConnectionTypeOK
      <4>. QED  BY <1>3, <1>7, <4>1, <4>2
    <3>4. CASE SeekInBuffer(s, offset)
      <4> DEFINE delta == offset - mFilePos[c]
      <4>1. /\ mFilePos' = [mFilePos EXCEPT ![c] = offset]
            /\ UNCHANGED <<alive, mPaused, mEOS, mStatus, mCurlCbMutex>>
            /\ \/ /\ delta < 0 /\ Len(ring[c].kept) >= -delta
                  /\ ring' = [ring EXCEPT ![c] = AfterSkipBack(ring[c], -delta)]
               \/ /\ delta > 0 /\ delta <= Fill(c)
                  /\ ring' = [ring EXCEPT ![c] = AfterSkip(ring[c], delta)]
        BY <3>4 DEF SeekInBuffer, c
      <4>2. delta \in Int
        BY <1>6, <3>1
      <4> HIDE DEF delta
      <4>3. Rings
        <5>1. CASE delta < 0 /\ Len(ring[c].kept) >= -delta
                   /\ ring' = [ring EXCEPT ![c] = AfterSkipBack(ring[c], -delta)]
          <6>1. -delta \in 0 .. Len(ring[c].kept)
            BY <1>6, <3>1, <4>2, <5>1
          <6>2. AfterSkipBack(ring[c], -delta) \in Window
                /\ Room(AfterSkipBack(ring[c], -delta)) >= 0
            BY <1>6, <3>1, <6>1, RoomAfterSkipBack
          <6>. QED  BY <1>1, <3>1, <5>1, <6>2, RingReplaced
        <5>2. CASE delta > 0 /\ delta <= Fill(c)
                   /\ ring' = [ring EXCEPT ![c] = AfterSkip(ring[c], delta)]
          <6>1. delta \in 0 .. Len(ring[c].unread)
            BY <1>6, <3>1, <4>2, <5>2
          <6>2. AfterSkip(ring[c], delta) \in Window /\ Room(AfterSkip(ring[c], delta)) >= 0
            BY <1>6, <3>1, <6>1, RoomAfterConsuming
          <6>. QED  BY <1>1, <3>1, <5>2, <6>2, RingReplaced
        <5>. QED  BY <4>1, <5>1, <5>2
      <4>4. alive' \subseteq Handles /\ mFilePos' \in [Handles -> Nat]
            /\ mCurlCbMutex' \in [Handles -> BOOLEAN]
        BY <1>1, <3>1, <4>1 DEF ConnectionTypeOK
      <4>. QED  BY <1>7, <4>1, <4>3, <4>4
    <3>5. CASE SeekNear(s, offset)
      <4>1. /\ mFilePos' = [mFilePos EXCEPT ![c] = mFilePos[c] + Fill(c)]
            /\ ring' = [ring EXCEPT ![c] = AfterSkip(ring[c], Fill(c))]
            /\ mCurlCbMutex' = [mCurlCbMutex EXCEPT ![c] = TRUE]
            /\ UNCHANGED <<alive, mPaused, mEOS, mStatus>>
        BY <3>5 DEF SeekNear, c
      <4>2. AfterSkip(ring[c], Fill(c)) \in Window /\ Room(AfterSkip(ring[c], Fill(c))) >= 0
        BY <1>6, <3>1, RoomAfterConsuming
      <4>3. Rings
        BY <1>1, <3>1, <4>1, <4>2, RingReplaced
      <4>4. mFilePos[c] + Fill(c) \in Nat
        BY <1>6, <3>1
      <4>5. alive' \subseteq Handles /\ mFilePos' \in [Handles -> Nat]
            /\ mCurlCbMutex' \in [Handles -> BOOLEAN]
        BY <1>1, <3>1, <4>1, <4>4 DEF ConnectionTypeOK
      <4>. QED  BY <1>7, <4>1, <4>3, <4>5
    <3>. QED  BY <2>2, <3>2, <3>3, <3>4, <3>5 DEF SeekCall
  <2>3. CASE \E n \in ReadSizes : Read(s, n)
    BY <1>2, <2>3 DEF Read
  <2>. QED  BY <1>8, <2>1, <2>2, <2>3 DEF ReaderCall
<1>9. CASE Replace(s) \/ FillCheck(s) \/ FillEos(s) \/ FillPause(s) \/ Again(s) \/ Opened(s)
           \/ SeekConnected(s) \/ ReadFilled(s) \/ ReadReconnected(s)
  BY <1>2, <1>9 DEF Replace, FillCheck, FillEos, FillPause, Again, Opened, SeekConnected,
                    ReadFilled, ReadReconnected, connVars
<1>10. CASE Connect(s)
  <2>1. PICK h \in Handles :
          /\ alive' = alive \cup {h}
          /\ ring' = [ring EXCEPT ![h] = EmptyWindow]
          /\ mFilePos' = [mFilePos EXCEPT ![h] = target[s]]
          /\ mPaused' = [mPaused EXCEPT ![h] = FALSE]
          /\ mEOS' = [mEOS EXCEPT ![h] = FALSE]
          /\ mStatus' = [mStatus EXCEPT ![h] = "ok"]
    BY <1>10 DEF Connect
  <2>2. Rings
    BY <1>1, <2>1, RoomOfEmpty, RingReplaced
  <2>3. target[s] \in Nat
    BY DEF TypeOK, ReaderTypeOK
  <2>4. UNCHANGED mCurlCbMutex
    BY <1>10 DEF Connect
  <2>. QED  BY <1>1, <2>1, <2>2, <2>3, <2>4 DEF ConnectionTypeOK, Room, Outcomes
<1>11. CASE FillResume(s)
  <2>1. /\ mPaused' = [mPaused EXCEPT ![c] = FALSE]
        /\ UNCHANGED <<alive, ring, mFilePos, mEOS, mStatus, mCurlCbMutex>>
    BY <1>11 DEF FillResume, c
  <2>. QED  BY <1>1, <2>1 DEF ConnectionTypeOK, Room
<1>12. CASE FillStatus(s)
  <2>1. c \in Handles
    BY <1>4, <1>12 DEF FillStatus, Filling
  <2>2. UNCHANGED <<alive, mFilePos, mPaused, mCurlCbMutex>>
    BY <1>12 DEF FillStatus
  <2>3. CASE UNCHANGED <<ring, mEOS, mStatus>>
    BY <1>2, <2>2, <2>3 DEF connVars
  <2>4. CASE Reset(c)
    <3>1. Rings
      BY <1>1, <2>1, <2>4, RoomOfEmpty, RingReplaced DEF Reset
    <3>. QED  BY <1>1, <2>1, <2>2, <2>4, <3>1 DEF Reset, ConnectionTypeOK, Room, Outcomes
  <2>. QED  BY <1>12, <2>3, <2>4 DEF FillStatus, c
<1>13. CASE Retry(s)
  <2>1. UNCHANGED <<alive, ring, mPaused, mEOS, mStatus, mCurlCbMutex>>
        /\ (UNCHANGED mFilePos \/ mFilePos' = [mFilePos EXCEPT ![c] = 0])
    BY <1>13 DEF Retry, c
  <2>. QED  BY <1>1, <2>1 DEF ConnectionTypeOK, Room
<1>14. CASE SeekNearEnds(s)
  <2> DEFINE rest == target[s] - mFilePos[c]
             fits == ret[s] = "ok" /\ rest > 0 /\ rest <= Fill(c)
             restored == len[s] > 0 /\ Len(ring[c].kept) >= len[s]
  <2>1. c \in Handles /\ rpc[s] \in Filling /\ after[s] = "short"
    BY <1>4, <1>14 DEF SeekNearEnds, Filling
  <2>2. target[s] \in Nat /\ len[s] \in Nat
    BY DEF TypeOK, ReaderTypeOK
  <2>3. UNCHANGED <<alive, mPaused, mEOS, mStatus>>
        /\ mCurlCbMutex' = [mCurlCbMutex EXCEPT ![c] = FALSE]
    BY <1>14 DEF SeekNearEnds, c
  <2>4. \/ fits /\ ring' = [ring EXCEPT ![c] = AfterSkip(ring[c], rest)]
             /\ mFilePos' = [mFilePos EXCEPT ![c] = target[s]]
        \/ restored /\ ring' = [ring EXCEPT ![c] = AfterSkipBack(ring[c], len[s])]
             /\ mFilePos' = [mFilePos EXCEPT ![c] = mFilePos[c] - len[s]]
        \/ ring' = [ring EXCEPT ![c] = ring[c]] /\ mFilePos' = [mFilePos EXCEPT ![c] = mFilePos[c]]
    BY <1>14 DEF SeekNearEnds, c
  <2>5. alive' \subseteq Handles /\ mCurlCbMutex' \in [Handles -> BOOLEAN]
    BY <1>1, <2>3 DEF ConnectionTypeOK
  <2>6. CASE fits /\ ring' = [ring EXCEPT ![c] = AfterSkip(ring[c], rest)]
             /\ mFilePos' = [mFilePos EXCEPT ![c] = target[s]]
    <3>1. rest \in 0 .. Len(ring[c].unread)
      BY <1>6, <2>1, <2>2, <2>6
    <3> HIDE DEF rest
    <3>2. AfterSkip(ring[c], rest) \in Window /\ Room(AfterSkip(ring[c], rest)) >= 0
      BY <1>6, <2>1, <3>1, RoomAfterConsuming
    <3>3. Rings
      BY <1>1, <2>1, <2>6, <3>2, RingReplaced
    <3>4. mFilePos' \in [Handles -> Nat]
      BY <1>1, <2>2, <2>6 DEF ConnectionTypeOK
    <3>. QED  BY <1>7, <2>3, <2>5, <3>3, <3>4
  <2>7. CASE restored /\ ring' = [ring EXCEPT ![c] = AfterSkipBack(ring[c], len[s])]
             /\ mFilePos' = [mFilePos EXCEPT ![c] = mFilePos[c] - len[s]]
    <3>1. len[s] \in 0 .. Len(ring[c].kept)
      BY <1>6, <2>1, <2>2, <2>7
    <3>2. AfterSkipBack(ring[c], len[s]) \in Window /\ Room(AfterSkipBack(ring[c], len[s])) >= 0
      BY <1>6, <2>1, <3>1, RoomAfterSkipBack
    <3>3. Rings
      BY <1>1, <2>1, <2>7, <3>2, RingReplaced
    <3>4. len[s] <= mFilePos[c]
      <4>1. ring[c].kept # <<>>
        BY <1>6, <2>1, <2>2, <2>7
      <4>. QED  BY <2>1, <4>1 DEF Skipped, c
    <3>5. mFilePos[c] - len[s] \in Nat
      BY <1>6, <2>1, <2>2, <3>4
    <3>6. mFilePos' \in [Handles -> Nat]
      BY <1>1, <2>7, <3>5 DEF ConnectionTypeOK
    <3>. QED  BY <1>7, <2>3, <2>5, <3>3, <3>6
  <2>8. CASE ring' = [ring EXCEPT ![c] = ring[c]] /\ mFilePos' = [mFilePos EXCEPT ![c] = mFilePos[c]]
    <3>1. UNCHANGED <<ring, mFilePos>>
      BY <1>1, <2>8 DEF ConnectionTypeOK
    <3>. QED  BY <1>1, <1>3, <1>7, <2>3, <2>5, <3>1 DEF ConnectionTypeOK
  <2>. QED  BY <2>4, <2>6, <2>7, <2>8
<1>15. CASE Take(s)
  <2> DEFINE n == AtMost(Fill(c), size[s])
  <2>1. c \in Handles
    BY <1>4, <1>15 DEF Take
  <2>2. UNCHANGED <<alive, mPaused, mEOS, mStatus, mCurlCbMutex>>
        /\ ring' = [ring EXCEPT ![c] = AfterRead(ring[c], n)]
        /\ mFilePos' = [mFilePos EXCEPT ![c] = mFilePos[c] + n]
    BY <1>15 DEF Take, c
  <2>3. size[s] \in Nat
    BY DEF TypeOK, ReaderTypeOK
  <2>4. n \in 0 .. Len(ring[c].unread) /\ n \in Nat
    BY <1>6, <2>1, <2>3 DEF AtMost
  <2> HIDE DEF n
  <2>5. AfterRead(ring[c], n) \in Window /\ Room(AfterRead(ring[c], n)) >= 0
    BY <1>6, <2>1, <2>4, RoomAfterConsuming
  <2>6. Rings
    BY <1>1, <2>1, <2>2, <2>5, RingReplaced
  <2>7. mFilePos[c] + n \in Nat
    BY <1>6, <2>1, <2>4
  <2>8. mFilePos' \in [Handles -> Nat]
    BY <1>1, <2>2, <2>7 DEF ConnectionTypeOK
  <2>. QED  BY <1>1, <1>7, <2>2, <2>6, <2>8 DEF ConnectionTypeOK
<1>. QED  BY <1>8, <1>9, <1>10, <1>11, <1>12, <1>13, <1>14, <1>15 DEF ReaderStep

LEMMA ConnectionTypes == TypeOK /\ Ownership /\ Skipped /\ LoopPlaces /\ [Next]_vars => ConnectionTypeOK'
<1> SUFFICES ASSUME TypeOK, Ownership, Skipped, LoopPlaces, [Next]_vars
             PROVE  ConnectionTypeOK'
  OBVIOUS
<1>1. ConnectionTypeOK /\ CurlTypeOK /\ LoopTypeOK
  BY DEF TypeOK
<1>2. CASE UNCHANGED connVars
  BY <1>1, <1>2 DEF ConnectionTypeOK, connVars, Room
<1>3. ASSUME NEW s \in Sources, ReaderCall(s) \/ ReaderStep(s)
      PROVE  ConnectionTypeOK'
  BY <1>3, ConnectionOfReader
<1>4. CASE \E s \in Sources, interrupt \in BOOLEAN : Interrupt(s, interrupt)
  BY <1>2, <1>4 DEF Interrupt
<1>5. CASE OnReconnect
  BY <1>2, <1>5 DEF OnReconnect
<1>6. CASE LApplyAdd \/ LResume \/ LResuming \/ LEnd
  BY <1>2, <1>6 DEF LApplyAdd, LResume, LResuming, LEnd
<1>7. CASE LApplyDelete
  <2>1. ring' = [h \in Handles |-> IF h \in mDeleteList THEN EmptyWindow ELSE ring[h]]
    BY <1>7 DEF LApplyDelete, Forget
  <2>2. ring' \in [Handles -> Window] /\ \A h \in Handles : Room(ring'[h]) >= 0
    BY <1>1, <2>1, RoomOfEmpty DEF ConnectionTypeOK
  <2>3. /\ mFilePos' \in [Handles -> Nat]
        /\ mPaused' \in [Handles -> BOOLEAN] /\ mEOS' \in [Handles -> BOOLEAN]
        /\ mStatus' \in [Handles -> Outcomes]
        /\ alive' \subseteq Handles /\ UNCHANGED mCurlCbMutex
    BY <1>1, <1>7 DEF LApplyDelete, Forget, ConnectionTypeOK, Outcomes
  <2>. QED  BY <1>1, <2>2, <2>3 DEF ConnectionTypeOK, Room
<1>8. CASE LWrite
  <2>1. lh \in Handles
    BY <1>1, <1>8 DEF LWrite, LoopPlaces, LoopTypeOK
  <2>2. UNCHANGED <<alive, mFilePos, mEOS, mStatus, mCurlCbMutex>>
    BY <1>8 DEF LWrite
  <2>3. PICK amount \in 1 .. AtMost(READ_BUFFER_SIZE, End(lh) - at[lh]) :
          \/ UNCHANGED ring /\ mPaused' = [mPaused EXCEPT ![lh] = TRUE]
          \/ /\ Room(ring[lh]) >= amount
             /\ ring' = [ring EXCEPT ![lh] = AfterWrite(ring[lh],
                    [i \in 1 .. amount |-> IF page[lh] THEN PageByte ELSE at[lh] + i - 1])]
             /\ UNCHANGED mPaused
    BY <1>8 DEF LWrite
  <2>4. CASE UNCHANGED ring /\ mPaused' = [mPaused EXCEPT ![lh] = TRUE]
    BY <1>1, <2>1, <2>2, <2>4 DEF ConnectionTypeOK, Room
  <2>5. ASSUME Room(ring[lh]) >= amount,
               ring' = [ring EXCEPT ![lh] = AfterWrite(ring[lh],
                    [i \in 1 .. amount |-> IF page[lh] THEN PageByte ELSE at[lh] + i - 1])],
               UNCHANGED mPaused
        PROVE  ConnectionTypeOK'
    <3> DEFINE bytes == [i \in 1 .. amount |-> IF page[lh] THEN PageByte ELSE at[lh] + i - 1]
    <3>1. READ_BUFFER_SIZE \in Nat /\ at[lh] \in Nat
      BY <1>1, <2>1, CurlAssumption DEF CurlTypeOK
    <3>2. amount \in Nat
      <4>1. amount \in Int /\ amount >= 1
        OBVIOUS
      <4>. QED  BY <4>1
    <3>3. \A i \in 1 .. amount : bytes[i] \in Byte
      BY <3>1, <3>2 DEF Byte
    <3>4. bytes \in Seq(Byte) /\ Len(bytes) = amount
      BY <3>2, <3>3
    <3> HIDE DEF bytes
    <3>5. ring[lh] \in Window
      BY <1>1, <2>1 DEF ConnectionTypeOK
    <3>6. Room(ring[lh]) \in Int
      <4>1. Len(ring[lh].kept) \in Nat /\ Len(ring[lh].unread) \in Nat
        BY <3>5 DEF Window
      <4>. QED  BY <4>1, WindowAssumption DEF Room
    <3>7. Len(bytes) <= Room(ring[lh])
      BY <2>5, <3>2, <3>4, <3>6
    <3>8. AfterWrite(ring[lh], bytes) \in Window /\ Room(AfterWrite(ring[lh], bytes)) >= 0
      BY <3>4, <3>5, <3>7, RoomAfterWrite
    <3>9. ring' = [ring EXCEPT ![lh] = AfterWrite(ring[lh], bytes)]
      BY <2>5 DEF bytes
    <3>10. ring' \in [Handles -> Window] /\ \A h \in Handles : Room(ring'[h]) >= 0
      BY <1>1, <2>1, <3>8, <3>9, RingReplaced
    <3>. QED  BY <1>1, <2>2, <2>5, <3>10 DEF ConnectionTypeOK, Room
  <2>. QED  BY <2>3, <2>4, <2>5
<1>9. CASE LInfo
  <2>1. CASE UNCHANGED <<mEOS, mStatus>>
    BY <1>2, <1>9, <2>1 DEF LInfo, connVars
  <2>2. CASE msgs # <<>> /\ mEOS' = [mEOS EXCEPT ![Head(msgs).handle] = eof']
             /\ mStatus' = [mStatus EXCEPT ![Head(msgs).handle] = Head(msgs).outcome]
             /\ eof' = (eof \/ Head(msgs).outcome = "ok")
    <3>1. Head(msgs) \in [handle : Handles, outcome : Outcomes]
      BY <1>1, <2>2, FirstAndRest DEF CurlTypeOK
    <3>2. eof' \in BOOLEAN
      BY <2>2
    <3>3. mStatus' \in [Handles -> Outcomes]
      BY <1>1, <2>2, <3>1 DEF ConnectionTypeOK
    <3>4. mEOS' \in [Handles -> BOOLEAN]
      BY <1>1, <2>2, <3>1, <3>2 DEF ConnectionTypeOK
    <3>5. UNCHANGED <<alive, ring, mFilePos, mPaused, mCurlCbMutex>>
      BY <1>9 DEF LInfo
    <3>. QED  BY <1>1, <3>3, <3>4, <3>5 DEF ConnectionTypeOK, Room
  <2>. QED  BY <1>9, <2>1, <2>2 DEF LInfo
<1>10. ASSUME NEW h \in Handles, Transfer(h) \/ (\E outcome \in Outcomes : LFail(h, outcome))
      PROVE  ConnectionTypeOK'
  <2>1. CASE LData(h) \/ LDone(h) \/ (\E outcome \in Outcomes : LFail(h, outcome))
    BY <1>2, <2>1 DEF LData, LDone, LFail
  <2>2. CASE LProgress(h)
    BY <1>1, <2>2 DEF LProgress, ConnectionTypeOK, Room
  <2>. QED  BY <1>10, <2>1, <2>2 DEF Transfer
<1>11. CASE UNCHANGED vars
  BY <1>2, <1>11 DEF vars
<1>. QED  BY <1>3, <1>4, <1>5, <1>6, <1>7, <1>8, <1>9, <1>10, <1>11 DEF Next, LoopStep

(* Only the loop thread touches the transfers, but for the offset that one *)
(* begins at.                                                              *)
LEMMA BeginTransfersType ==
  ASSUME CurlTypeOK, LoopTypeOK, NEW hs \in SUBSET Handles, NEW astray \in SUBSET Handles,
         BeginTransfers(hs, astray)
  PROVE  /\ multi' \subseteq Handles /\ strayed' \subseteq Handles
         /\ at' \in [Handles -> Nat] /\ page' \in [Handles -> BOOLEAN]
         /\ stopped' \in [Handles -> BOOLEAN]
<1>1. multi' \subseteq Handles
  BY DEF BeginTransfers, CurlTypeOK
<1>2. at' \in [Handles -> Nat]
  BY DEF BeginTransfers, CurlTypeOK
<1>3. stopped' \in [Handles -> BOOLEAN]
  BY DEF BeginTransfers
<1>4. page' \in [Handles -> BOOLEAN]
  <2>1. PICK pages \in SUBSET (IF ErrorPages THEN hs \ multi ELSE {}) :
          page' = [h \in Handles |-> IF h \in hs \ multi THEN h \in pages ELSE page[h]]
    BY Zenon DEF BeginTransfers
  <2> DEFINE chosen(h) == IF h \in hs \ multi THEN h \in pages ELSE page[h]
  <2>2. ASSUME NEW h \in Handles
        PROVE  chosen(h) \in BOOLEAN
    <3>1. page[h] \in BOOLEAN /\ (h \in pages) \in BOOLEAN
      BY DEF CurlTypeOK
    <3>2. CASE h \in hs \ multi
      BY <3>1, <3>2, Zenon
    <3>3. CASE h \notin hs \ multi
      BY <3>1, <3>3, Zenon
    <3>. QED  BY <3>2, <3>3
  <2>3. page' = [h \in Handles |-> chosen(h)]
    BY <2>1
  <2> HIDE DEF chosen
  <2>. QED  BY <2>2, <2>3
<1>5. strayed' \subseteq Handles
  <2>1. PICK pages \in SUBSET (IF ErrorPages THEN hs \ multi ELSE {}) :
          strayed' = strayed \cup astray \cup pages
    BY Zenon DEF BeginTransfers
  <2>. QED  BY <2>1 DEF LoopTypeOK
<1>. QED  BY <1>1, <1>2, <1>3, <1>4, <1>5

LEMMA SaysType ==
  ASSUME CurlTypeOK, NEW h \in Handles, NEW outcome \in Outcomes, Says(h, outcome)
  PROVE  msgs' \in Seq([handle : Handles, outcome : Outcomes])
<1> DEFINE Message == [handle : Handles, outcome : Outcomes]
<1>1. [handle |-> h, outcome |-> outcome] \in Message
  OBVIOUS
<1>2. msgs \in Seq(Message) /\ msgs' = Append(msgs, [handle |-> h, outcome |-> outcome])
  BY DEF CurlTypeOK, Says
<1> HIDE DEF Message
<1>3. msgs' \in Seq(Message)
  BY <1>1, <1>2
<1>. QED  BY <1>3 DEF Message

LEMMA CurlTypes == TypeOK /\ Ownership /\ LoopPlaces /\ [Next]_vars => CurlTypeOK'
<1> SUFFICES ASSUME TypeOK, Ownership, LoopPlaces, [Next]_vars
             PROVE  CurlTypeOK'
  OBVIOUS
<1>1. CurlTypeOK /\ LoopTypeOK /\ ConnectionTypeOK
  BY DEF TypeOK
<1>2. CASE UNCHANGED curlVars
  BY <1>1, <1>2 DEF CurlTypeOK, curlVars
<1>3. ASSUME NEW h \in Handles, NEW n \in Nat, resumeFrom' = [resumeFrom EXCEPT ![h] = n],
             UNCHANGED <<multi, at, page, stopped, msgs>>
      PROVE  CurlTypeOK'
  BY <1>1, <1>3 DEF CurlTypeOK
<1>4. ASSUME NEW s \in Sources, ReaderCall(s)
      PROVE  CurlTypeOK'
  <2>1. ASSUME NEW offset \in SeekTargets, SeekPastEnd(s, offset)
        PROVE  CurlTypeOK'
    <3>1. offset \in Nat /\ mPConnection[s] \in Handles
      BY <2>1, CurlAssumption, ReaderFacts DEF SeekPastEnd, CanSeek
    <3>. QED  BY <1>3, <2>1, <3>1 DEF SeekPastEnd
  <2>2. ASSUME NEW offset \in SeekTargets, ~ SeekPastEnd(s, offset), SeekCall(s, offset)
        PROVE  UNCHANGED curlVars
    BY <2>2 DEF SeekCall, SeekReconnecting, SeekInBuffer, SeekNear, SeekFar
  <2>3. CASE Open(s) \/ Close(s) \/ (\E n \in ReadSizes : Read(s, n))
    BY <1>2, <2>3 DEF Open, Close, Read
  <2>. QED  BY <1>2, <1>4, <2>1, <2>2, <2>3 DEF ReaderCall
<1>5. ASSUME NEW s \in Sources, ReaderStep(s)
      PROVE  CurlTypeOK'
  <2>1. CASE Connect(s)
    <3>1. target[s] \in Nat
      BY DEF TypeOK, ReaderTypeOK
    <3>2. PICK h \in Handles : resumeFrom' = [resumeFrom EXCEPT ![h] = target[s]]
      BY <2>1 DEF Connect
    <3>. QED  BY <1>3, <2>1, <3>1, <3>2 DEF Connect
  <2>2. CASE Again(s)
    <3>1. mPConnection[s] \in Handles
      BY <2>2, ReaderFacts DEF Again, Filling
    <3>2. mFilePos[mPConnection[s]] \in Nat
      BY <1>1, <3>1 DEF ConnectionTypeOK
    <3>. QED  BY <1>3, <2>2, <3>1, <3>2 DEF Again
  <2>3. CASE Replace(s) \/ FillCheck(s) \/ FillEos(s) \/ FillPause(s) \/ FillResume(s)
             \/ FillStatus(s) \/ Retry(s) \/ Opened(s) \/ SeekConnected(s)
             \/ SeekNearEnds(s) \/ ReadFilled(s) \/ ReadReconnected(s) \/ Take(s)
    BY <1>2, <2>3 DEF Replace, FillCheck, FillEos, FillPause, FillResume, FillStatus, Retry,
                      Opened, SeekConnected, SeekNearEnds, ReadFilled, ReadReconnected, Take
  <2>. QED  BY <1>5, <2>1, <2>2, <2>3 DEF ReaderStep
<1>6. CASE (\E s \in Sources, interrupt \in BOOLEAN : Interrupt(s, interrupt)) \/ OnReconnect
  BY <1>2, <1>6 DEF Interrupt, OnReconnect
<1>7. CASE LApplyAdd
  <2>1. BeginTransfers(mAddList, {}) /\ UNCHANGED <<resumeFrom, msgs>>
    BY <1>7 DEF LApplyAdd
  <2>2. mAddList \in SUBSET Handles /\ {} \in SUBSET Handles
    BY <1>1 DEF LoopTypeOK
  <2>. QED  BY <1>1, <2>1, <2>2, BeginTransfersType DEF CurlTypeOK
<1>8. CASE LResuming
  <2>1. UNCHANGED <<resumeFrom, msgs>>
    BY <1>8 DEF LResuming
  <2>2. CASE UNCHANGED <<multi, at, page, stopped>>
    BY <1>1, <2>1, <2>2 DEF CurlTypeOK
  <2>3. ASSUME NEW h \in batch, NEW astray \in SUBSET {h}, BeginTransfers({h}, astray)
        PROVE  CurlTypeOK'
    <3>1. {h} \in SUBSET Handles /\ astray \in SUBSET Handles
      BY <1>1 DEF LoopTypeOK
    <3>. QED  BY <1>1, <2>1, <2>3, <3>1, BeginTransfersType DEF CurlTypeOK
  <2>4. ASSUME NEW h \in batch, stopped' = [stopped EXCEPT ![h] = FALSE],
               UNCHANGED <<multi, at, page>>
        PROVE  CurlTypeOK'
    BY <1>1, <2>1, <2>4 DEF CurlTypeOK
  <2>5. CASE \E h \in batch : BeginTransfers({h}, IF mEOS[h] THEN {} ELSE {h})
    BY <2>3, <2>5
  <2>. QED  BY <1>8, <2>2, <2>4, <2>5 DEF LResuming, Continue
<1>9. CASE LApplyDelete
  BY <1>1, <1>9 DEF LApplyDelete, Forget, CurlTypeOK
<1>10. CASE LWrite
  <2>1. UNCHANGED <<multi, resumeFrom, page, msgs>>
    BY <1>10 DEF LWrite
  <2>2. lh \in Handles
    BY <1>1, <1>10 DEF LWrite, LoopPlaces, LoopTypeOK
  <2>3. at[lh] \in Nat
    BY <1>1, <2>2 DEF CurlTypeOK
  <2>4. PICK amount \in 1 .. AtMost(READ_BUFFER_SIZE, End(lh) - at[lh]) :
          \/ UNCHANGED at /\ stopped' = [stopped EXCEPT ![lh] = TRUE]
          \/ at' = [at EXCEPT ![lh] = at[lh] + amount] /\ UNCHANGED stopped
    BY <1>10 DEF LWrite
  <2>5. amount \in Nat
    <3>1. amount \in Int /\ amount >= 1
      OBVIOUS
    <3>. QED  BY <3>1
  <2>6. at[lh] + amount \in Nat
    BY <2>3, <2>5
  <2>. QED  BY <1>1, <2>1, <2>4, <2>6 DEF CurlTypeOK
<1>11. CASE LInfo
  <2>1. UNCHANGED <<resumeFrom, at, page>>
    BY <1>11 DEF LInfo
  <2>2. CASE UNCHANGED <<multi, stopped, msgs>>
    BY <1>1, <2>1, <2>2 DEF CurlTypeOK
  <2>3. CASE msgs # <<>> /\ multi' = multi \ {Head(msgs).handle}
             /\ stopped' = [stopped EXCEPT ![Head(msgs).handle] = FALSE]
             /\ msgs' = Tail(msgs)
    <3>1. msgs' \in Seq([handle : Handles, outcome : Outcomes])
      BY <1>1, <2>3, FirstAndRest DEF CurlTypeOK
    <3>2. stopped' \in [Handles -> BOOLEAN] /\ multi' \subseteq Handles
      BY <1>1, <2>3 DEF CurlTypeOK
    <3>. QED  BY <1>1, <2>1, <3>1, <3>2 DEF CurlTypeOK
  <2>. QED  BY <1>11, <2>2, <2>3 DEF LInfo
<1>12. CASE LResume \/ LEnd
  BY <1>2, <1>12 DEF LResume, LEnd
<1>13. ASSUME NEW h \in Handles, Transfer(h) \/ (\E outcome \in Outcomes : LFail(h, outcome))
      PROVE  CurlTypeOK'
  <2>1. CASE LData(h)
    BY <1>2, <2>1 DEF LData
  <2>2. ASSUME NEW outcome \in Outcomes, (LDone(h) /\ outcome = "ok") \/ LFail(h, outcome)
        PROVE  CurlTypeOK'
    <3>1. Says(h, outcome) /\ UNCHANGED <<multi, resumeFrom, at, page, stopped>>
      BY <2>2 DEF LDone, LFail
    <3>. QED  BY <1>1, <3>1, SaysType DEF CurlTypeOK
  <2>3. CASE LProgress(h)
    BY <1>1, <2>3 DEF LProgress, Continue, CurlTypeOK
  <2>4. "ok" \in Outcomes
    BY DEF Outcomes
  <2>. QED  BY <1>13, <2>1, <2>2, <2>3, <2>4 DEF Transfer
<1>14. CASE UNCHANGED vars
  BY <1>2, <1>14 DEF vars
<1>. QED  BY <1>4, <1>5, <1>6, <1>7, <1>8, <1>9, <1>10, <1>11, <1>12, <1>13, <1>14
          DEF Next, LoopStep

LEMMA LoopTypes == TypeOK /\ Ownership /\ [Next]_vars => LoopTypeOK'
<1> SUFFICES ASSUME TypeOK, Ownership, [Next]_vars
             PROVE  LoopTypeOK'
  OBVIOUS
<1>1. LoopTypeOK
  BY DEF TypeOK
<1> USE DEF LoopTypeOK
<1>2. ASSUME UNCHANGED <<listVars, loopVars, history>>
      PROVE  LoopTypeOK'
  BY <1>1, <1>2 DEF listVars, loopVars, history
<1>3. ASSUME NEW h \in Handles, addHandle(h) \/ resumeHandle(h) \/ deleteHandle(h),
             UNCHANGED loopVars, UNCHANGED <<errors, reconnects>>, strayed' \subseteq Handles
      PROVE  LoopTypeOK'
  BY <1>1, <1>3 DEF addHandle, resumeHandle, deleteHandle, loopVars
<1>4. ASSUME NEW s \in Sources, ReaderCall(s)
      PROVE  LoopTypeOK'
  <2>1. CASE Close(s)
    <3>1. mPConnection[s] \in Handles /\ deleteHandle(mPConnection[s])
          /\ UNCHANGED <<loopVars, history>>
      BY <2>1, ReaderFacts DEF Close, Delete
    <3>2. strayed' \subseteq Handles /\ UNCHANGED <<errors, reconnects>>
      BY <1>1, <3>1 DEF history
    <3>. QED  BY <1>3, <3>1, <3>2
  <2>2. ASSUME NEW offset \in SeekTargets, SeekPastEnd(s, offset)
        PROVE  LoopTypeOK'
    <3>1. mPConnection[s] \in Handles
      BY <2>2, ReaderFacts DEF SeekPastEnd, CanSeek
    <3>. QED  BY <1>1, <2>2, <3>1 DEF SeekPastEnd, listVars, loopVars
  <2>3. ASSUME NEW offset \in SeekTargets, ~ SeekPastEnd(s, offset), SeekCall(s, offset)
        PROVE  UNCHANGED <<listVars, loopVars, history>>
    BY <2>3 DEF SeekCall, SeekReconnecting, SeekInBuffer, SeekNear, SeekFar
  <2>4. CASE Open(s) \/ (\E n \in ReadSizes : Read(s, n))
    BY <1>2, <2>4 DEF Open, Read
  <2>. QED  BY <1>2, <1>4, <2>1, <2>2, <2>3, <2>4 DEF ReaderCall
<1>5. ASSUME NEW s \in Sources, ReaderStep(s)
      PROVE  LoopTypeOK'
  <2>1. CASE Connect(s)
    <3>1. PICK h \in Handles : addHandle(h) /\ strayed' = strayed \ {h}
      BY <2>1 DEF Connect
    <3>2. UNCHANGED loopVars /\ UNCHANGED <<errors, reconnects>> /\ strayed' \subseteq Handles
      BY <1>1, <2>1, <3>1 DEF Connect
    <3>. QED  BY <1>3, <3>1, <3>2
  <2>2. CASE Replace(s) \/ FillResume(s) \/ Again(s)
    <3>1. mPConnection[s] \in Handles
      BY <2>2, ReaderFacts DEF Replace, FillResume, Again, Filling
    <3>2. \/ deleteHandle(mPConnection[s]) \/ resumeHandle(mPConnection[s])
          \/ addHandle(mPConnection[s])
      BY <2>2 DEF Replace, Delete, FillResume, Again
    <3>3. UNCHANGED <<loopVars, history>>
      BY <2>2 DEF Replace, FillResume, Again
    <3>4. strayed' \subseteq Handles /\ UNCHANGED <<errors, reconnects>>
      BY <1>1, <3>3 DEF history
    <3>. QED  BY <1>3, <3>1, <3>2, <3>3, <3>4
  <2>3. CASE FillCheck(s) \/ FillEos(s) \/ FillPause(s) \/ FillStatus(s) \/ Retry(s) \/ Opened(s)
             \/ SeekConnected(s) \/ SeekNearEnds(s) \/ ReadFilled(s) \/ ReadReconnected(s)
             \/ Take(s)
    BY <1>2, <2>3 DEF FillCheck, FillEos, FillPause, FillStatus, Retry, Opened, SeekConnected,
                      SeekNearEnds, ReadFilled, ReadReconnected, Take
  <2>. QED  BY <1>5, <2>1, <2>2, <2>3 DEF ReaderStep
<1>6. CASE \E s \in Sources, interrupt \in BOOLEAN : Interrupt(s, interrupt)
  BY <1>2, <1>6 DEF Interrupt
<1>7. CASE OnReconnect
  <2>1. reconnects' \in 0 .. MaxReconnects
    BY <1>1, <1>7, CurlAssumption DEF OnReconnect
  <2>. QED  BY <1>1, <1>7, <2>1 DEF OnReconnect, listVars, loopVars
<1>8. CASE LApplyAdd \/ LResume \/ LApplyDelete \/ LEnd
  <2>1. CASE LApplyAdd
    <3>1. BeginTransfers(mAddList, {}) /\ {} \in SUBSET Handles
      BY <2>1 DEF LApplyAdd
    <3>2. strayed' \subseteq Handles
      BY <1>1, <3>1, BeginTransfersType DEF TypeOK
    <3>. QED  BY <1>1, <2>1, <3>2 DEF LApplyAdd
  <2>2. CASE LResume
    BY <1>1, <2>2 DEF LResume, history
  <2>3. CASE LApplyDelete
    BY <1>1, <2>3 DEF LApplyDelete, history
  <2>4. CASE LEnd
    BY <1>1, <2>4 DEF LEnd, listVars, history
  <2>. QED  BY <1>8, <2>1, <2>2, <2>3, <2>4
<1>9. CASE LResuming
  <2>1. UNCHANGED <<listVars, eof, errors, reconnects>> /\ batch' \subseteq Handles
    BY <1>1, <1>9 DEF LResuming
  <2>2. /\ lpc' \in {"resuming", "delete", "write"}
        /\ back' \in {"resuming", "perform"}
        /\ lh' \in Handles \cup {None}
    BY <1>1, <1>9 DEF LResuming, Continue
  <2>3. ASSUME NEW h \in batch, NEW astray \in SUBSET {h}, BeginTransfers({h}, astray)
        PROVE  strayed' \subseteq Handles
    <3>1. {h} \in SUBSET Handles /\ astray \in SUBSET Handles
      BY <1>1
    <3>. QED  BY <1>1, <2>3, <3>1, BeginTransfersType DEF TypeOK
  <2>4. CASE \E h \in batch : BeginTransfers({h}, IF mEOS[h] THEN {} ELSE {h})
    BY <1>1, <2>1, <2>2, <2>3, <2>4 DEF listVars
  <2>5. CASE UNCHANGED strayed
    BY <1>1, <2>1, <2>2, <2>5 DEF listVars
  <2>. QED  BY <1>9, <2>4, <2>5 DEF LResuming
<1>10. CASE LWrite
  <2>1. lpc' = back /\ lh' = None /\ UNCHANGED <<listVars, back, batch, eof, history>>
    BY <1>10 DEF LWrite
  <2>. QED  BY <1>1, <2>1 DEF listVars, history
<1>11. CASE LInfo
  <2>1. eof' = eof \/ eof' = (eof \/ Head(msgs).outcome = "ok")
    BY <1>11 DEF LInfo
  <2>2. eof' \in BOOLEAN
    BY <1>1, <2>1
  <2>3. (lpc' = "add" \/ UNCHANGED lpc)
        /\ UNCHANGED <<listVars, back, lh, batch, errors, reconnects>>
    BY <1>11 DEF LInfo
  <2>4. msgs # <<>> => Head(msgs).handle \in Handles
    <3>1. msgs # <<>> => Head(msgs) \in [handle : Handles, outcome : Outcomes]
      BY FirstAndRest DEF TypeOK, CurlTypeOK
    <3>. QED  BY <3>1
  <2>5. strayed' = strayed \/ (msgs # <<>> /\ strayed' = strayed \cup {Head(msgs).handle})
    BY <1>11 DEF LInfo
  <2>. QED  BY <1>1, <2>2, <2>3, <2>4, <2>5 DEF listVars
<1>12. ASSUME NEW h \in Handles, Transfer(h) \/ (\E outcome \in Outcomes : LFail(h, outcome))
      PROVE  LoopTypeOK'
  <2>1. CASE LData(h)
    BY <1>1, <2>1 DEF LData, listVars, history
  <2>2. CASE LDone(h)
    BY <1>2, <2>2 DEF LDone
  <2>3. CASE LProgress(h)
    <3>1. lpc' \in {"write", "perform"} /\ back' \in {"resuming", "perform"}
          /\ lh' \in Handles \cup {None}
      BY <1>1, <2>3 DEF LProgress, Continue
    <3>. QED  BY <1>1, <2>3, <3>1 DEF LProgress, listVars, history
  <2>4. CASE \E outcome \in Outcomes : LFail(h, outcome)
    <3>1. errors' \in 0 .. MaxErrors /\ UNCHANGED <<listVars, loopVars, reconnects, strayed>>
      BY <1>1, <2>4, CurlAssumption DEF LFail
    <3>. QED  BY <1>1, <3>1 DEF listVars, loopVars
  <2>. QED  BY <1>12, <2>1, <2>2, <2>3, <2>4 DEF Transfer
<1>13. CASE UNCHANGED vars
  BY <1>2, <1>13 DEF vars
<1>. QED  BY <1>4, <1>5, <1>6, <1>7, <1>8, <1>9, <1>10, <1>11, <1>12, <1>13 DEF Next, LoopStep

-----------------------------------------------------------------------------
(* Where the loop thread is.                                               *)
LEMMA LoopPlacesStep == TypeOK /\ LoopPlaces /\ [Next]_vars => LoopPlaces'
<1> SUFFICES ASSUME TypeOK, LoopPlaces, [Next]_vars
             PROVE  LoopPlaces'
  OBVIOUS
<1>1. /\ batch \subseteq Handles /\ None \notin Handles
      /\ batch # {} => lpc = "resuming" \/ (lpc = "write" /\ back = "resuming")
      /\ lpc = "write" => lh # None
  BY CurlAssumption DEF TypeOK, LoopTypeOK, LoopPlaces, ListsFree
<1> USE DEF LoopPlaces, ListsFree
<1>2. CASE UNCHANGED loopVars
  BY <1>1, <1>2 DEF loopVars
<1>3. ASSUME NEW s \in Sources, ReaderCall(s)
      PROVE  UNCHANGED loopVars
  BY <1>3 DEF ReaderCall, Open, Close, Read, SeekCall, SeekPastEnd, SeekReconnecting,
              SeekInBuffer, SeekNear, SeekFar
<1>4. ASSUME NEW s \in Sources, ReaderStep(s)
      PROVE  UNCHANGED loopVars
  BY <1>4 DEF ReaderStep, Replace, Connect, FillCheck, FillEos, FillPause, FillResume, FillStatus,
              Retry, Again, Opened, SeekConnected, SeekNearEnds, ReadFilled, ReadReconnected, Take
<1>5. CASE (\E s \in Sources, interrupt \in BOOLEAN : Interrupt(s, interrupt)) \/ OnReconnect
  BY <1>2, <1>5 DEF Interrupt, OnReconnect
<1>6. CASE LApplyAdd \/ LApplyDelete \/ LEnd
  BY <1>1, <1>6 DEF LApplyAdd, LApplyDelete, LEnd
<1>7. CASE LResume
  BY <1>1, <1>7 DEF LResume
<1>8. CASE LResuming
  BY <1>1, <1>8 DEF LResuming, Continue
<1>9. CASE LWrite
  <2>1. lpc = "write" /\ lpc' = back /\ UNCHANGED <<back, batch>>
    BY <1>9 DEF LWrite
  <2>2. back # "write"
    BY DEF TypeOK, LoopTypeOK
  <2>. QED  BY <1>1, <2>1, <2>2
<1>10. CASE LInfo
  BY <1>1, <1>10 DEF LInfo
<1>11. ASSUME NEW h \in Handles, Transfer(h) \/ (\E outcome \in Outcomes : LFail(h, outcome))
      PROVE  LoopPlaces'
  BY <1>1, <1>2, <1>11 DEF Transfer, LData, LDone, LProgress, LFail, Continue
<1>12. CASE UNCHANGED vars
  BY <1>2, <1>12 DEF vars
<1>. QED  BY <1>2, <1>3, <1>4, <1>5, <1>6, <1>7, <1>8, <1>9, <1>10, <1>11, <1>12
          DEF Next, LoopStep

-----------------------------------------------------------------------------
(* Who owns the connections.                                               *)
Owned == Ownership /\ FreedIsForgotten

(* A reader that goes on or stops with the connection it has.              *)
LEMMA SameConnection ==
  ASSUME TypeOK, Owned, UNCHANGED <<mPConnection, alive, mAddList, mDeleteList, multi>>,
         NEW s \in Sources, NEW place, Goto(s, place) \/ UNCHANGED rpc,
         place = "connect" <=> mPConnection[s] = None
  PROVE  Owned'
<1>1. \A t \in Sources : \/ rpc'[t] = rpc[t]
                         \/ rpc'[t] # "connect" /\ mPConnection[t] # None
                         \/ rpc'[t] = "connect" /\ mPConnection[t] = None
  BY DEF Goto, TypeOK, ReaderTypeOK
<1>2. Ownership'
  BY <1>1 DEF Owned, Ownership, Filling
<1>. QED  BY <1>2 DEF Owned, FreedIsForgotten

(* A reader that gives its connection to the loop thread.                  *)
LEMMA GivesUp ==
  ASSUME TypeOK, Owned, UNCHANGED <<alive, multi>>, NEW s \in Sources, NEW place,
         mPConnection[s] # None, Delete(s), Goto(s, place), place \in {"idle", "connect"}
  PROVE  Owned'
<1> DEFINE c == mPConnection[s]
<1>1. /\ mPConnection \in [Sources -> Handles \cup {None}]
      /\ rpc \in [Sources -> Filling \cup {"idle", "failed", "connect", "replace", "take"}]
  BY DEF TypeOK, SourceTypeOK, ReaderTypeOK
<1>2. /\ mAddList' = mAddList \ {c} /\ mDeleteList' = mDeleteList \cup {c}
      /\ mPConnection' = [mPConnection EXCEPT ![s] = None]
      /\ rpc' = [rpc EXCEPT ![s] = place]
  BY DEF Delete, deleteHandle, Goto
<1>3. c \in alive
  BY DEF Owned, Ownership
<1>4. FreedIsForgotten'
  BY <1>2, <1>3 DEF Owned, FreedIsForgotten
<1>5. \A t \in Sources : t # s => mPConnection[t] # c
  BY DEF Owned, Ownership
<1>6. \A t \in Sources : IF t = s THEN mPConnection'[t] = None /\ rpc'[t] = place
                                  ELSE mPConnection'[t] = mPConnection[t] /\ rpc'[t] = rpc[t]
  BY <1>1, <1>2
<1>7. (mAddList \cap mDeleteList = {})'
  BY <1>2 DEF Owned, Ownership
<1>8. ASSUME NEW t \in Sources
      PROVE  /\ rpc'[t] \in Filling \cup {"replace", "take"} => mPConnection'[t] # None
             /\ rpc'[t] = "connect" => mPConnection'[t] = None
             /\ mPConnection'[t] # None => mPConnection'[t] \in alive' \ mDeleteList'
             /\ \A u \in Sources :
                  mPConnection'[t] # None /\ mPConnection'[t] = mPConnection'[u] => t = u
  <2>1. CASE t = s
    <3>1. place \notin Filling \cup {"replace", "take"}
      BY DEF Filling
    <3>. QED  BY <1>6, <2>1, <3>1
  <2>2. CASE t # s
    <3>1. mPConnection'[t] = mPConnection[t] /\ rpc'[t] = rpc[t]
      BY <1>6, <2>2
    <3>2. mPConnection'[t] # None => mPConnection'[t] \in alive' \ mDeleteList'
      BY <1>2, <1>5, <2>2, <3>1 DEF Owned, Ownership
    <3>3. ASSUME NEW u \in Sources, mPConnection'[t] # None, mPConnection'[t] = mPConnection'[u]
          PROVE  t = u
      BY <1>6, <3>1, <3>3 DEF Owned, Ownership
    <3>. QED  BY <3>1, <3>2, <3>3 DEF Owned, Ownership
  <2>. QED  BY <2>1, <2>2
<1>. QED  BY <1>4, <1>7, <1>8 DEF Owned, Ownership

(* A reader that makes a connection, at an address that is free.           *)
LEMMA Connects ==
  ASSUME TypeOK, Owned, NEW s \in Sources, Connect(s)
  PROVE  Owned'
<1>1. /\ mPConnection \in [Sources -> Handles \cup {None}]
      /\ rpc \in [Sources -> Filling \cup {"idle", "failed", "connect", "replace", "take"}]
  BY DEF TypeOK, SourceTypeOK, ReaderTypeOK
<1>2. PICK h \in Handles \ alive :
          /\ alive' = alive \cup {h} /\ mAddList' = mAddList \cup {h}
          /\ mPConnection' = [mPConnection EXCEPT ![s] = h]
  BY DEF Connect, addHandle
<1>3. UNCHANGED <<mDeleteList, multi>> /\ rpc' = [rpc EXCEPT ![s] = "fill"]
  BY DEF Connect, addHandle, Goto
<1>4. h \notin mDeleteList /\ h # None
  BY <1>2, CurlAssumption DEF Owned, FreedIsForgotten
<1>5. FreedIsForgotten'
  BY <1>2, <1>3 DEF Owned, FreedIsForgotten
<1>6. \A t \in Sources : IF t = s THEN mPConnection'[t] = h /\ rpc'[t] = "fill"
                                  ELSE mPConnection'[t] = mPConnection[t] /\ rpc'[t] = rpc[t]
  BY <1>1, <1>2, <1>3
<1>7. \A t \in Sources : mPConnection[t] # None => mPConnection[t] \in alive \ mDeleteList
  BY DEF Owned, Ownership
<1>8. (mAddList \cap mDeleteList = {})'
  BY <1>2, <1>3, <1>4 DEF Owned, Ownership
<1>9. ASSUME NEW t \in Sources
      PROVE  /\ rpc'[t] \in Filling \cup {"replace", "take"} => mPConnection'[t] # None
             /\ rpc'[t] = "connect" => mPConnection'[t] = None
             /\ mPConnection'[t] # None => mPConnection'[t] \in alive' \ mDeleteList'
             /\ \A u \in Sources :
                  mPConnection'[t] # None /\ mPConnection'[t] = mPConnection'[u] => t = u
  <2>1. CASE t = s
    BY <1>2, <1>3, <1>4, <1>6, <1>7, <2>1
  <2>2. CASE t # s
    <3>1. mPConnection'[t] = mPConnection[t] /\ rpc'[t] = rpc[t]
      BY <1>6, <2>2
    <3>2. ASSUME NEW u \in Sources, mPConnection'[t] # None, mPConnection'[t] = mPConnection'[u]
          PROVE  t = u
      <4>1. CASE u = s
        BY <1>2, <1>6, <1>7, <3>1, <3>2, <4>1
      <4>2. CASE u # s
        BY <1>6, <3>1, <3>2, <4>2 DEF Owned, Ownership
      <4>. QED  BY <4>1, <4>2
    <3>. QED  BY <1>2, <1>3, <1>7, <3>1, <3>2 DEF Owned, Ownership
  <2>. QED  BY <2>1, <2>2
<1>. QED  BY <1>5, <1>8, <1>9 DEF Owned, Ownership

LEMMA OwnedStep == TypeOK /\ Owned /\ [Next]_vars => Owned'
<1> SUFFICES ASSUME TypeOK, Owned, [Next]_vars
             PROVE  Owned'
  OBVIOUS
<1>1. Ownership /\ FreedIsForgotten
  BY DEF Owned
<1>2. ASSUME UNCHANGED <<mPConnection, rpc, alive, mAddList, mDeleteList, multi>>
      PROVE  Owned'
  BY <1>2 DEF Owned, Ownership, FreedIsForgotten
<1>3. ASSUME NEW s \in Sources, rpc[s] \in Filling \cup {"replace", "take"} \/ mPConnection[s] # None,
             UNCHANGED <<mPConnection, alive, mAddList, mDeleteList, multi>>,
             \/ UNCHANGED rpc
             \/ \E place \in Filling \cup {"idle", "failed", "replace", "take"} : Goto(s, place)
      PROVE  Owned'
  <2>1. mPConnection[s] # None
    BY <1>1, <1>3 DEF Ownership
  <2>2. "connect" \notin Filling \cup {"idle", "failed", "replace", "take"}
    BY DEF Filling
  <2>. QED  BY <1>3, <2>1, <2>2, SameConnection
<1>4. ASSUME NEW s \in Sources, ReaderCall(s)
      PROVE  Owned'
  <2>1. CASE Open(s)
    <3> DEFINE place == IF mPConnection[s] = None THEN "connect" ELSE "replace"
    <3>1. Goto(s, place) /\ (place = "connect" <=> mPConnection[s] = None)
      BY <2>1 DEF Open
    <3>2. UNCHANGED <<mPConnection, alive, mAddList, mDeleteList, multi>>
      BY <2>1 DEF Open, connVars, listVars, curlVars
    <3> HIDE DEF place
    <3>. QED  BY <3>1, <3>2, SameConnection
  <2>2. CASE Close(s)
    BY <2>2, GivesUp DEF Close, connVars, curlVars
  <2>3. ASSUME NEW offset \in SeekTargets, SeekCall(s, offset)
        PROVE  Owned'
    <3>1. mPConnection[s] # None /\ UNCHANGED <<mPConnection, alive, mAddList, mDeleteList, multi>>
      BY <2>3 DEF SeekCall, SeekPastEnd, SeekReconnecting, SeekInBuffer, SeekNear, SeekFar, CanSeek,
                  sourceVars, connVars, curlVars, listVars
    <3>2. UNCHANGED rpc \/ Goto(s, "replace") \/ Goto(s, "fill")
      BY <2>3 DEF SeekCall, SeekPastEnd, SeekReconnecting, SeekInBuffer, SeekNear, SeekFar
    <3>. QED  BY <1>3, <3>1, <3>2 DEF Filling
  <2>4. ASSUME NEW n \in ReadSizes, Read(s, n)
        PROVE  Owned'
    <3>1. mPConnection[s] # None /\ UNCHANGED <<mPConnection, alive, mAddList, mDeleteList, multi>>
      BY <2>4 DEF Read, sourceVars, connVars, curlVars, listVars
    <3>2. Goto(s, "idle") \/ Goto(s, "fill") \/ Goto(s, "take")
      BY <2>4 DEF Read, Returns
    <3>. QED  BY <1>3, <3>1, <3>2 DEF Filling
  <2>. QED  BY <1>4, <2>1, <2>2, <2>3, <2>4 DEF ReaderCall
<1>5. ASSUME NEW s \in Sources, ReaderStep(s)
      PROVE  Owned'
  <2>1. CASE Replace(s)
    <3>1. mPConnection[s] # None
      BY <1>1, <2>1 DEF Replace, Ownership
    <3>. QED  BY <2>1, <3>1, GivesUp DEF Replace, connVars, curlVars
  <2>2. CASE Connect(s)
    BY <2>2, Connects
  <2>3. CASE Again(s)
    <3>1. mPConnection[s] # None
      BY <1>1, <2>3 DEF Again, Ownership, Filling
    <3>2. mPConnection[s] \in alive \ mDeleteList
      BY <1>1, <3>1 DEF Ownership
    <3>3. mAddList' = mAddList \cup {mPConnection[s]} /\ rpc' = [rpc EXCEPT ![s] = "fill"]
          /\ UNCHANGED <<mPConnection, alive, mDeleteList, multi>>
      BY <2>3 DEF Again, addHandle, Goto, sourceVars, connVars
    <3>4. FreedIsForgotten' /\ (mAddList \cap mDeleteList = {})'
      BY <1>1, <3>2, <3>3 DEF FreedIsForgotten, Ownership
    <3>5. \A t \in Sources : rpc'[t] = rpc[t] \/ (rpc'[t] = "fill" /\ mPConnection[t] # None)
      BY <3>1, <3>3 DEF TypeOK, ReaderTypeOK
    <3>6. Ownership'
      BY <1>1, <3>3, <3>4, <3>5 DEF Ownership
    <3>. QED  BY <3>4, <3>6 DEF Owned
  <2>4. CASE FillCheck(s) \/ FillEos(s) \/ FillPause(s) \/ FillResume(s) \/ FillStatus(s) \/ Retry(s)
    <3>1. rpc[s] \in Filling
      BY <2>4 DEF FillCheck, FillEos, FillPause, FillResume, FillStatus, Retry, Filling
    <3>2. UNCHANGED <<mPConnection, alive, mAddList, mDeleteList, multi>>
      BY <2>4 DEF FillCheck, FillEos, FillPause, FillResume, FillStatus, Retry, resumeHandle,
                  sourceVars, connVars, curlVars, listVars
    <3>3. \E place \in Filling : Goto(s, place)
      BY <2>4 DEF FillCheck, FillEos, FillPause, FillResume, FillStatus, Retry, FillReturns, Filling
    <3>. QED  BY <1>3, <3>1, <3>2, <3>3
  <2>5. CASE Opened(s) \/ SeekConnected(s) \/ SeekNearEnds(s) \/ ReadFilled(s) \/ ReadReconnected(s)
    <3>1. rpc[s] \in Filling
      BY <2>5 DEF Opened, SeekConnected, SeekNearEnds, ReadFilled, ReadReconnected, Filling
    <3>2. UNCHANGED <<mPConnection, alive, mAddList, mDeleteList, multi>>
      BY <2>5 DEF Opened, SeekConnected, SeekNearEnds, ReadFilled, ReadReconnected,
                  sourceVars, connVars, curlVars, listVars
    <3>3. \E place \in {"idle", "failed", "replace", "take"} : Goto(s, place)
      BY <2>5 DEF Opened, SeekConnected, SeekNearEnds, ReadFilled, ReadReconnected, Returns
    <3>. QED  BY <1>3, <3>1, <3>2, <3>3
  <2>6. CASE Take(s)
    <3>1. rpc[s] = "take" /\ UNCHANGED <<mPConnection, alive, mAddList, mDeleteList, multi>>
          /\ Goto(s, "idle")
      BY <2>6 DEF Take, Returns, sourceVars, curlVars, listVars
    <3>. QED  BY <1>3, <3>1
  <2>. QED  BY <1>5, <2>1, <2>2, <2>3, <2>4, <2>5, <2>6 DEF ReaderStep
<1>6. CASE (\E s \in Sources, interrupt \in BOOLEAN : Interrupt(s, interrupt)) \/ OnReconnect
  BY <1>2, <1>6 DEF Interrupt, OnReconnect, readerVars, connVars, curlVars, listVars
<1>7. ASSUME UNCHANGED <<mPConnection, rpc, alive, mDeleteList>>, mAddList' \subseteq mAddList,
             multi' \subseteq alive
      PROVE  Owned'
  BY <1>1, <1>7 DEF Owned, Ownership, FreedIsForgotten
<1>8. CASE LApplyAdd
  <2>1. multi' = multi \cup (mAddList \ multi) /\ mAddList' = {}
    BY <1>8 DEF LApplyAdd, BeginTransfers
  <2>2. UNCHANGED <<mPConnection, rpc, alive, mDeleteList>>
    BY <1>8 DEF LApplyAdd, sourceVars, readerVars, connVars
  <2>. QED  BY <1>1, <1>7, <2>1, <2>2 DEF FreedIsForgotten
<1>9. CASE LResuming
  <2>1. UNCHANGED <<mPConnection, rpc, alive, mAddList, mDeleteList>>
    BY <1>9 DEF LResuming, sourceVars, readerVars, connVars, listVars
  <2>2. multi' = multi \/ \E h \in alive : multi' = multi \cup ({h} \ multi)
    BY <1>9 DEF LResuming, BeginTransfers
  <2>. QED  BY <1>1, <1>7, <2>1, <2>2 DEF FreedIsForgotten
<1>10. CASE LApplyDelete
  <2>1. /\ multi' = multi \ mDeleteList /\ alive' = alive \ mDeleteList /\ mDeleteList' = {}
        /\ UNCHANGED <<mPConnection, rpc, mAddList>>
    BY <1>10 DEF LApplyDelete, sourceVars, readerVars
  <2>. QED  BY <1>1, <2>1 DEF Owned, Ownership, FreedIsForgotten
<1>11. CASE LInfo
  <2>1. multi' \subseteq multi /\ UNCHANGED <<mPConnection, rpc, alive, mAddList, mDeleteList>>
    BY <1>11 DEF LInfo, sourceVars, readerVars, listVars
  <2>. QED  BY <1>1, <1>7, <2>1 DEF FreedIsForgotten
<1>12. CASE LResume \/ LWrite \/ LEnd
  BY <1>2, <1>12 DEF LResume, LWrite, LEnd, sourceVars, readerVars, connVars, curlVars, listVars
<1>13. ASSUME NEW h \in Handles, Transfer(h) \/ (\E outcome \in Outcomes : LFail(h, outcome))
      PROVE  Owned'
  BY <1>2, <1>13 DEF Transfer, LData, LDone, LProgress, LFail, sourceVars, readerVars, connVars,
                     curlVars, listVars
<1>14. CASE UNCHANGED vars
  BY <1>2, <1>14 DEF vars, sourceVars, readerVars, connVars, curlVars, listVars
<1>. QED  BY <1>4, <1>5, <1>6, <1>8, <1>9, <1>10, <1>11, <1>12, <1>13, <1>14 DEF Next, LoopStep

-----------------------------------------------------------------------------
(* What a reader does, it does to its own connection, or to a new one.     *)
LEMMA OthersUndisturbed ==
  ASSUME TypeOK, Owned, NEW s \in Sources, ReaderCall(s) \/ ReaderStep(s),
         NEW t \in Sources, t # s
  PROVE  /\ rpc'[t] = rpc[t] /\ after'[t] = after[t] /\ len'[t] = len[t]
         /\ mPConnection'[t] = mPConnection[t]
         /\ mPConnection[t] # None => /\ ring'[mPConnection[t]] = ring[mPConnection[t]]
                                      /\ mFilePos'[mPConnection[t]] = mFilePos[mPConnection[t]]
<1>1. /\ mPConnection \in [Sources -> Handles \cup {None}]
      /\ rpc \in [Sources -> Filling \cup {"idle", "failed", "connect", "replace", "take"}]
      /\ after \in [Sources -> {"open", "seek", "short", "read", "rereadData", "rereadError"}]
      /\ len \in [Sources -> Nat]
  BY DEF TypeOK, SourceTypeOK, ReaderTypeOK
<1>2. ring \in [Handles -> Window] /\ mFilePos \in [Handles -> Nat]
  BY DEF TypeOK, ConnectionTypeOK
<1> DEFINE d == mPConnection[t]
<1>3. d # None => d \in Handles /\ d \in alive /\ d # mPConnection[s]
  BY <1>1 DEF Owned, Ownership
<1>4. rpc'[t] = rpc[t]
  <2>1. UNCHANGED rpc \/ \E place : rpc' = [rpc EXCEPT ![s] = place]
    <3>1. CASE ReaderCall(s)
      BY <3>1 DEF ReaderCall, Open, Close, Read, Returns, Goto, SeekCall, SeekPastEnd,
                  SeekReconnecting, SeekInBuffer, SeekNear, SeekFar
    <3>2. CASE Replace(s) \/ Connect(s) \/ Again(s) \/ Take(s) \/ SeekConnected(s)
      BY <3>2 DEF Replace, Connect, Again, Take, SeekConnected, Returns, Goto
    <3>3. CASE FillCheck(s) \/ FillEos(s) \/ FillPause(s) \/ FillResume(s) \/ FillStatus(s) \/ Retry(s)
      BY <3>3 DEF FillCheck, FillEos, FillPause, FillResume, FillStatus, Retry, FillReturns, Goto
    <3>4. CASE Opened(s) \/ SeekNearEnds(s) \/ ReadFilled(s) \/ ReadReconnected(s)
      BY <3>4 DEF Opened, SeekNearEnds, ReadFilled, ReadReconnected, Returns, Goto
    <3>. QED  BY <3>1, <3>2, <3>3, <3>4 DEF ReaderStep
  <2>. QED  BY <1>1, <2>1
<1>5. after'[t] = after[t]
  <2>1. UNCHANGED after \/ \E what : after' = [after EXCEPT ![s] = what]
    <3>1. CASE ReaderCall(s)
      BY <3>1 DEF ReaderCall, Open, Close, Read, SeekCall, SeekPastEnd,
                  SeekReconnecting, SeekInBuffer, SeekNear, SeekFar
    <3>2. CASE ReaderStep(s)
      BY <3>2 DEF ReaderStep, Replace, Connect, FillCheck, FillEos, FillPause, FillResume, FillStatus,
                  Retry, Again, Opened, SeekConnected, SeekNearEnds, ReadFilled, ReadReconnected, Take
    <3>. QED  BY <3>1, <3>2
  <2>. QED  BY <1>1, <2>1
<1>6. len'[t] = len[t]
  <2>1. UNCHANGED len \/ \E n : len' = [len EXCEPT ![s] = n]
    <3>1. CASE ReaderCall(s)
      BY <3>1 DEF ReaderCall, Open, Close, Read, SeekCall, SeekPastEnd,
                  SeekReconnecting, SeekInBuffer, SeekNear, SeekFar
    <3>2. CASE ReaderStep(s)
      BY <3>2 DEF ReaderStep, Replace, Connect, FillCheck, FillEos, FillPause, FillResume, FillStatus,
                  Retry, Again, Opened, SeekConnected, SeekNearEnds, ReadFilled, ReadReconnected, Take
    <3>. QED  BY <3>1, <3>2
  <2>. QED  BY <1>1, <2>1
<1>7. mPConnection'[t] = mPConnection[t]
  <2>1. UNCHANGED mPConnection \/ \E h : mPConnection' = [mPConnection EXCEPT ![s] = h]
    <3>1. CASE ReaderCall(s)
      BY <3>1 DEF ReaderCall, Open, Close, Delete, Read, SeekCall, SeekPastEnd,
                  SeekReconnecting, SeekInBuffer, SeekNear, SeekFar, sourceVars
    <3>2. CASE ReaderStep(s)
      BY <3>2 DEF ReaderStep, Replace, Delete, Connect, FillCheck, FillEos, FillPause, FillResume,
                  FillStatus, Retry, Again, Opened, SeekConnected, SeekNearEnds, ReadFilled,
                  ReadReconnected, Take, sourceVars
    <3>. QED  BY <3>1, <3>2
  <2>. QED  BY <1>1, <2>1
<1>8. ASSUME d # None
      PROVE  ring'[d] = ring[d]
  <2>1. \/ UNCHANGED ring
        \/ \E w : ring' = [ring EXCEPT ![mPConnection[s]] = w]
        \/ \E h \in Handles \ alive : ring' = [ring EXCEPT ![h] = EmptyWindow]
    <3>1. CASE ReaderCall(s)
      BY <3>1 DEF ReaderCall, Open, Close, Read, SeekCall, SeekPastEnd,
                  SeekReconnecting, SeekInBuffer, SeekNear, SeekFar, connVars
    <3>2. CASE ReaderStep(s)
      BY <3>2 DEF ReaderStep, Replace, Connect, FillCheck, FillEos, FillPause, FillResume, FillStatus,
                  Reset, Retry, Again, Opened, SeekConnected, SeekNearEnds, ReadFilled,
                  ReadReconnected, Take, connVars
    <3>. QED  BY <3>1, <3>2
  <2>. QED  BY <1>2, <1>3, <1>8, <2>1
<1>9. ASSUME d # None
      PROVE  mFilePos'[d] = mFilePos[d]
  <2>1. \/ UNCHANGED mFilePos
        \/ \E n : mFilePos' = [mFilePos EXCEPT ![mPConnection[s]] = n]
        \/ \E h \in Handles \ alive : mFilePos' = [mFilePos EXCEPT ![h] = target[s]]
    <3>1. CASE ReaderCall(s)
      BY <3>1 DEF ReaderCall, Open, Close, Read, SeekCall, SeekPastEnd,
                  SeekReconnecting, SeekInBuffer, SeekNear, SeekFar, connVars
    <3>2. CASE ReaderStep(s)
      BY <3>2 DEF ReaderStep, Replace, Connect, FillCheck, FillEos, FillPause, FillResume, FillStatus,
                  Retry, Again, Opened, SeekConnected, SeekNearEnds, ReadFilled,
                  ReadReconnected, Take, connVars
    <3>. QED  BY <3>1, <3>2
  <2>. QED  BY <1>2, <1>3, <1>9, <2>1
<1>. QED  BY <1>4, <1>5, <1>6, <1>7, <1>8, <1>9

SkippedBy(s) ==
    /\ rpc[s] = "retry" => ring[mPConnection[s]].kept = <<>>
    /\ rpc[s] \in Filling /\ after[s] = "short" =>
          len[s] <= mFilePos[mPConnection[s]] \/ ring[mPConnection[s]].kept = <<>>

(* The reader that makes the step.                                         *)
LEMMA SkippedByReader ==
  ASSUME TypeOK, Owned, NEW s \in Sources, SkippedBy(s), ReaderCall(s) \/ ReaderStep(s)
  PROVE  SkippedBy(s)'
<1> DEFINE c == mPConnection[s]
<1>1. /\ rpc \in [Sources -> Filling \cup {"idle", "failed", "connect", "replace", "take"}]
      /\ after \in [Sources -> {"open", "seek", "short", "read", "rereadData", "rereadError"}]
      /\ len \in [Sources -> Nat] /\ mPConnection \in [Sources -> Handles \cup {None}]
  BY DEF TypeOK, SourceTypeOK, ReaderTypeOK
<1>2. ring \in [Handles -> Window] /\ mFilePos \in [Handles -> Nat]
  BY DEF TypeOK, ConnectionTypeOK
<1>3. rpc[s] \in Filling \/ c # None => c \in Handles
  BY ReaderFacts DEF Owned
<1>4. ASSUME NEW place \in {"idle", "failed", "connect", "replace", "take"}, Goto(s, place)
      PROVE  SkippedBy(s)'
  BY <1>1, <1>4 DEF Goto, SkippedBy, Filling
<1>5. ASSUME NEW place \in Filling \ {"retry"}, rpc[s] \in Filling, Goto(s, place),
             UNCHANGED <<mPConnection, after, len, ring, mFilePos>>
      PROVE  SkippedBy(s)'
  BY <1>1, <1>5 DEF Goto, SkippedBy
<1>6. CASE ReaderCall(s)
  <2>1. CASE Open(s) \/ Close(s)
    BY <1>4, <2>1 DEF Open, Close
  <2>2. ASSUME NEW offset \in SeekTargets, SeekCall(s, offset)
        PROVE  SkippedBy(s)'
    <3>1. CASE SeekPastEnd(s, offset) \/ SeekInBuffer(s, offset)
      <4>1. rpc'[s] = "idle"
        BY <3>1 DEF SeekPastEnd, SeekInBuffer, CanSeek
      <4>. QED  BY <4>1 DEF SkippedBy, Filling
    <3>2. CASE SeekReconnecting(s, offset) \/ SeekFar(s, offset)
      BY <1>4, <3>2 DEF SeekReconnecting, SeekFar
    <3>3. CASE SeekNear(s, offset)
      <4>1. c # None /\ UNCHANGED mPConnection /\ rpc' = [rpc EXCEPT ![s] = "fill"]
            /\ len' = [len EXCEPT ![s] = Fill(c)]
            /\ mFilePos' = [mFilePos EXCEPT ![c] = mFilePos[c] + Fill(c)]
        BY <3>3 DEF SeekNear, CanSeek, Goto, sourceVars
      <4>2. c \in Handles /\ Fill(c) \in Nat /\ mFilePos[c] \in Nat
        BY <1>3, <4>1, ReaderFacts DEF Owned
      <4>3. rpc'[s] = "fill" /\ len'[s] = Fill(c) /\ mFilePos'[c] = mFilePos[c] + Fill(c)
        BY <1>1, <1>2, <4>1, <4>2
      <4>. QED  BY <4>1, <4>2, <4>3 DEF SkippedBy
    <3>. QED  BY <2>2, <3>1, <3>2, <3>3 DEF SeekCall
  <2>3. ASSUME NEW n \in ReadSizes, Read(s, n)
        PROVE  SkippedBy(s)'
    <3>1. \/ Goto(s, "idle") \/ Goto(s, "take")
          \/ Goto(s, "fill") /\ after' = [after EXCEPT ![s] = "read"]
      BY <2>3 DEF Read, Returns
    <3>2. CASE Goto(s, "fill") /\ after' = [after EXCEPT ![s] = "read"]
      BY <1>1, <3>2 DEF SkippedBy, Goto
    <3>. QED  BY <1>4, <3>1, <3>2
  <2>. QED  BY <1>6, <2>1, <2>2, <2>3 DEF ReaderCall
<1>7. CASE Replace(s) \/ Opened(s) \/ SeekConnected(s) \/ SeekNearEnds(s) \/ ReadFilled(s)
           \/ ReadReconnected(s) \/ Take(s)
  <2>1. \E place \in {"idle", "failed", "connect", "replace", "take"} : Goto(s, place)
    BY <1>7 DEF Replace, Opened, SeekConnected, SeekNearEnds, ReadFilled, ReadReconnected, Take,
                Returns
  <2>. QED  BY <1>4, <2>1
<1>8. CASE Connect(s)
  <2>1. PICK h \in Handles : ring' = [ring EXCEPT ![h] = EmptyWindow]
                             /\ mPConnection' = [mPConnection EXCEPT ![s] = h]
    BY <1>8 DEF Connect
  <2>2. rpc' = [rpc EXCEPT ![s] = "fill"]
    BY <1>8 DEF Connect, Goto
  <2>3. ring'[h].kept = <<>> /\ mPConnection'[s] = h /\ rpc'[s] = "fill"
    BY <1>1, <1>2, <2>1, <2>2 DEF EmptyWindow
  <2>. QED  BY <2>3 DEF SkippedBy
<1>9. CASE FillCheck(s) \/ FillEos(s) \/ FillPause(s) \/ FillResume(s) \/ Again(s)
  <2>1. rpc[s] \in Filling /\ UNCHANGED <<mPConnection, after, len, ring, mFilePos>>
    BY <1>9 DEF FillCheck, FillEos, FillPause, FillResume, Again, Filling, sourceVars, connVars
  <2>2. \E place \in Filling \ {"retry"} : Goto(s, place)
    BY <1>9 DEF FillCheck, FillEos, FillPause, FillResume, Again, FillReturns, Filling
  <2>. QED  BY <1>5, <2>1, <2>2
<1>10. CASE FillStatus(s)
  <2>1. rpc[s] \in Filling /\ UNCHANGED <<mPConnection, after, len, mFilePos>>
    BY <1>10 DEF FillStatus, Filling, sourceVars
  <2>2. CASE UNCHANGED ring /\ \E place \in Filling \ {"retry"} : Goto(s, place)
    BY <1>5, <2>1, <2>2
  <2>3. CASE Reset(c)
    <3>1. ring'[c].kept = <<>>
      BY <1>2, <1>3, <2>1, <2>3 DEF Reset, EmptyWindow
    <3>. QED  BY <2>1, <3>1 DEF SkippedBy
  <2>. QED  BY <1>10, <2>2, <2>3 DEF FillStatus, FillReturns, Filling
<1>11. CASE Retry(s)
  <2>1. rpc[s] = "retry" /\ UNCHANGED <<mPConnection, ring>>
    BY <1>11 DEF Retry, sourceVars
  <2>. QED  BY <2>1 DEF SkippedBy
<1>. QED  BY <1>6, <1>7, <1>8, <1>9, <1>10, <1>11 DEF ReaderStep

LEMMA SkippedStep == TypeOK /\ Owned /\ LoopPlaces /\ Skipped /\ [Next]_vars => Skipped'
<1> SUFFICES ASSUME TypeOK, Owned, LoopPlaces, Skipped, [Next]_vars
             PROVE  Skipped'
  OBVIOUS
<1>1. (\A s \in Sources : SkippedBy(s)) /\ ((\A s \in Sources : SkippedBy(s)') => Skipped')
  BY DEF Skipped, SkippedBy
<1>2. ring \in [Handles -> Window] /\ mFilePos \in [Handles -> Nat]
  BY DEF TypeOK, ConnectionTypeOK
<1>3. \A t \in Sources : /\ rpc[t] \in Filling => mPConnection[t] # None
                         /\ mPConnection[t] # None =>
                              mPConnection[t] \in Handles /\ mPConnection[t] \notin mDeleteList
  BY DEF Owned, Ownership, TypeOK, SourceTypeOK
<1>4. ASSUME NEW t \in Sources, rpc'[t] = rpc[t], after'[t] = after[t], len'[t] = len[t],
             mPConnection'[t] = mPConnection[t],
             mPConnection[t] # None => /\ ring'[mPConnection[t]].kept = ring[mPConnection[t]].kept
                                       /\ mFilePos'[mPConnection[t]] = mFilePos[mPConnection[t]]
      PROVE  SkippedBy(t)'
  <2>1. CASE rpc[t] \notin Filling
    BY <1>4, <2>1 DEF SkippedBy, Filling
  <2>2. CASE rpc[t] \in Filling
    BY <1>1, <1>3, <1>4, <2>2 DEF SkippedBy
  <2>. QED  BY <2>1, <2>2
<1>5. ASSUME UNCHANGED <<rpc, after, len, mPConnection>>,
             \A t \in Sources : mPConnection[t] # None =>
                /\ ring'[mPConnection[t]].kept = ring[mPConnection[t]].kept
                /\ mFilePos'[mPConnection[t]] = mFilePos[mPConnection[t]]
      PROVE  Skipped'
  BY <1>1, <1>4, <1>5
<1>6. ASSUME NEW s \in Sources, ReaderCall(s) \/ ReaderStep(s)
      PROVE  Skipped'
  <2>1. SkippedBy(s)'
    BY <1>1, <1>6, SkippedByReader
  <2>2. ASSUME NEW t \in Sources, t # s
        PROVE  SkippedBy(t)'
    BY <1>4, <1>6, <2>2, OthersUndisturbed
  <2>. QED  BY <1>1, <2>1, <2>2
<1>7. CASE (\E s \in Sources, interrupt \in BOOLEAN : Interrupt(s, interrupt)) \/ OnReconnect
  BY <1>5, <1>7 DEF Interrupt, OnReconnect, readerVars, connVars
<1>8. CASE LApplyAdd \/ LResume \/ LResuming \/ LEnd \/ LInfo
  BY <1>5, <1>8 DEF LApplyAdd, LResume, LResuming, LEnd, LInfo, sourceVars, readerVars, connVars
<1>9. CASE LApplyDelete
  <2>1. /\ ring' = Forget(ring, EmptyWindow) /\ mFilePos' = Forget(mFilePos, 0)
        /\ UNCHANGED <<rpc, after, len, mPConnection>>
    BY <1>9 DEF LApplyDelete, sourceVars, readerVars
  <2>. QED  BY <1>3, <1>5, <2>1 DEF Forget
<1>10. CASE LWrite
  <2>1. UNCHANGED <<rpc, after, len, mPConnection, mFilePos>>
    BY <1>10 DEF LWrite, sourceVars, readerVars
  <2>2. lh \in Handles
    BY <1>10 DEF LWrite, LoopPlaces, TypeOK, LoopTypeOK
  <2>3. UNCHANGED ring \/ \E bytes : ring' = [ring EXCEPT ![lh] = AfterWrite(ring[lh], bytes)]
    BY <1>10 DEF LWrite
  <2>4. \A h \in Handles : ring'[h].kept = ring[h].kept
    BY <1>2, <2>2, <2>3 DEF AfterWrite
  <2>. QED  BY <1>3, <1>5, <2>1, <2>4
<1>11. ASSUME NEW h \in Handles, Transfer(h) \/ (\E outcome \in Outcomes : LFail(h, outcome))
      PROVE  Skipped'
  BY <1>5, <1>11 DEF Transfer, LData, LDone, LProgress, LFail, sourceVars, readerVars, connVars
<1>12. CASE UNCHANGED vars
  BY <1>5, <1>12 DEF vars, sourceVars, readerVars, connVars
<1>. QED  BY <1>6, <1>7, <1>8, <1>9, <1>10, <1>11, <1>12 DEF Next, LoopStep

-----------------------------------------------------------------------------
(* Transfers that are paused.                                              *)
LEMMA ResumeNotLostStep ==
  TypeOK /\ Owned /\ LoopPlaces /\ ResumeNotLost /\ [Next]_vars => ResumeNotLost'
<1> SUFFICES ASSUME TypeOK, Owned, LoopPlaces, ResumeNotLost, [Next]_vars
             PROVE  ResumeNotLost'
  OBVIOUS
<1>1. /\ mPaused \in [Handles -> BOOLEAN] /\ stopped \in [Handles -> BOOLEAN]
      /\ multi \subseteq Handles /\ multi \subseteq alive
  BY DEF TypeOK, ConnectionTypeOK, CurlTypeOK, Owned, FreedIsForgotten
<1>2. CASE UNCHANGED <<mPaused, stopped, multi, mResumeList, batch>>
  BY <1>2 DEF ResumeNotLost
<1>3. ASSUME NEW s \in Sources, ReaderCall(s)
      PROVE  ResumeNotLost'
  <2>1. UNCHANGED <<mPaused, stopped, multi, mResumeList, batch>>
    BY <1>3 DEF ReaderCall, Open, Close, Delete, deleteHandle, Read, SeekCall, SeekPastEnd,
                SeekReconnecting, SeekInBuffer, SeekNear, SeekFar, connVars, curlVars, listVars,
                loopVars
  <2>. QED  BY <1>2, <2>1
<1>4. ASSUME NEW s \in Sources, ReaderStep(s)
      PROVE  ResumeNotLost'
  <2>1. CASE Connect(s)
    <3>1. PICK h \in Handles \ alive : mPaused' = [mPaused EXCEPT ![h] = FALSE]
      BY <2>1 DEF Connect
    <3>2. UNCHANGED <<stopped, multi, mResumeList, batch>>
      BY <2>1 DEF Connect, addHandle, loopVars
    <3>. QED  BY <1>1, <3>1, <3>2 DEF ResumeNotLost
  <2>2. CASE FillResume(s)
    <3> DEFINE c == mPConnection[s]
    <3>1. /\ mPaused' = [mPaused EXCEPT ![c] = FALSE]
          /\ mResumeList' = mResumeList \cup {c}
          /\ UNCHANGED <<stopped, multi, batch>>
      BY <2>2 DEF FillResume, resumeHandle, curlVars, loopVars
    <3>2. c \in Handles
      BY <2>2, ReaderFacts DEF Owned, FillResume, Filling
    <3> HIDE DEF c
    <3>. QED  BY <1>1, <3>1, <3>2 DEF ResumeNotLost
  <2>3. CASE Replace(s) \/ FillCheck(s) \/ FillEos(s) \/ FillPause(s) \/ FillStatus(s) \/ Retry(s)
             \/ Again(s) \/ Opened(s) \/ SeekConnected(s) \/ SeekNearEnds(s) \/ ReadFilled(s)
             \/ ReadReconnected(s) \/ Take(s)
    BY <1>2, <2>3 DEF Replace, Delete, deleteHandle, FillCheck, FillEos, FillPause, FillStatus,
                      Retry, Again, addHandle, Opened, SeekConnected, SeekNearEnds, ReadFilled,
                      ReadReconnected, Take, connVars, curlVars, listVars, loopVars
  <2>. QED  BY <1>4, <2>1, <2>2, <2>3 DEF ReaderStep
<1>5. CASE (\E s \in Sources, interrupt \in BOOLEAN : Interrupt(s, interrupt)) \/ OnReconnect
  BY <1>2, <1>5 DEF Interrupt, OnReconnect, connVars, curlVars, listVars, loopVars
<1>6. ASSUME NEW hs \in SUBSET Handles, NEW astray, BeginTransfers(hs, astray), UNCHANGED <<mPaused, mResumeList>>,
             batch' = batch \/ (batch' = batch \ hs /\ hs \cap multi = {})
      PROVE  ResumeNotLost'
  <2>1. multi' = multi \cup (hs \ multi)
    BY <1>6 DEF BeginTransfers
  <2>2. ASSUME NEW h \in multi', stopped'[h]
        PROVE  mPaused'[h] \/ h \in mResumeList' \cup batch'
    <3>1. h \in Handles
      BY <1>1, <2>1
    <3>2. stopped'[h] = (stopped[h] /\ h \notin hs \ multi)
      BY <1>6, <3>1 DEF BeginTransfers
    <3>3. stopped[h] /\ h \notin hs \ multi
      BY <2>2, <3>2
    <3>4. h \in multi
      BY <2>1, <3>3
    <3>5. mPaused[h] \/ h \in mResumeList \cup batch
      BY <3>3, <3>4 DEF ResumeNotLost
    <3>. QED  BY <1>6, <3>4, <3>5
  <2>. QED  BY <2>2 DEF ResumeNotLost
<1>7. CASE LApplyAdd
  BY <1>6, <1>7 DEF LApplyAdd, connVars, TypeOK, LoopTypeOK
<1>8. CASE LResume
  <2>1. batch = {}
    BY <1>8 DEF LResume, LoopPlaces, ListsFree
  <2>2. batch' = mResumeList /\ UNCHANGED <<mPaused, stopped, multi>>
    BY <1>8 DEF LResume, connVars, curlVars
  <2>. QED  BY <2>1, <2>2 DEF ResumeNotLost
<1>9. CASE LResuming
  <2>1. UNCHANGED <<mPaused, mResumeList>>
    BY <1>9 DEF LResuming, connVars, listVars
  <2>2. CASE UNCHANGED <<multi, stopped, batch>>
    BY <1>2, <2>1, <2>2
  <2>3. ASSUME NEW h \in batch, batch' = batch \ {h}, h \in alive \ multi,
               NEW astray, BeginTransfers({h}, astray)
        PROVE  ResumeNotLost'
    <3>1. {h} \in SUBSET Handles
      BY DEF TypeOK, LoopTypeOK
    <3>2. batch' = batch \ {h} /\ {h} \cap multi = {}
      BY <2>3
    <3>. QED  BY <1>6, <2>1, <2>3, <3>1, <3>2
  <2>4. ASSUME NEW h \in batch, batch' = batch \ {h}, UNCHANGED multi,
               stopped' = [stopped EXCEPT ![h] = FALSE]
        PROVE  ResumeNotLost'
    BY <1>1, <2>1, <2>4 DEF ResumeNotLost
  <2>. QED  BY <1>9, <2>2, <2>3, <2>4 DEF LResuming, Continue
<1>10. CASE LApplyDelete
  <2>1. /\ multi' = multi \ mDeleteList /\ UNCHANGED <<mResumeList, batch>>
        /\ mPaused' = Forget(mPaused, FALSE) /\ stopped' = Forget(stopped, FALSE)
    BY <1>10 DEF LApplyDelete
  <2>. QED  BY <1>1, <2>1 DEF ResumeNotLost, Forget
<1>11. CASE LWrite
  <2>1. /\ UNCHANGED <<multi, mResumeList, batch>>
        /\ \/ UNCHANGED <<mPaused, stopped>>
           \/ /\ mPaused' = [mPaused EXCEPT ![lh] = TRUE]
              /\ stopped' = [stopped EXCEPT ![lh] = TRUE]
    BY <1>11 DEF LWrite, listVars
  <2>. QED  BY <1>1, <2>1 DEF ResumeNotLost
<1>12. CASE LInfo
  <2>1. /\ UNCHANGED <<mPaused, mResumeList, batch>>
        /\ \/ UNCHANGED <<multi, stopped>>
           \/ \E h : multi' = multi \ {h} /\ stopped' = [stopped EXCEPT ![h] = FALSE]
    BY <1>12 DEF LInfo, listVars
  <2>. QED  BY <1>1, <2>1 DEF ResumeNotLost
<1>13. CASE LEnd
  BY <1>2, <1>13 DEF LEnd, connVars, curlVars, listVars
<1>14. ASSUME NEW h \in Handles, Transfer(h) \/ (\E outcome \in Outcomes : LFail(h, outcome))
      PROVE  ResumeNotLost'
  <2>1. CASE LProgress(h)
    <3>1. /\ mPaused' = [mPaused EXCEPT ![h] = FALSE] /\ stopped' = [stopped EXCEPT ![h] = FALSE]
          /\ UNCHANGED <<multi, mResumeList, batch>>
      BY <2>1 DEF LProgress, Continue, listVars
    <3>. QED  BY <1>1, <3>1 DEF ResumeNotLost
  <2>2. CASE LData(h) \/ LDone(h) \/ (\E outcome \in Outcomes : LFail(h, outcome))
    BY <1>2, <2>2 DEF LData, LDone, LFail, connVars, curlVars, listVars, loopVars
  <2>. QED  BY <1>14, <2>1, <2>2 DEF Transfer
<1>15. CASE UNCHANGED vars
  BY <1>2, <1>15 DEF vars, connVars, curlVars, listVars, loopVars
<1>. QED  BY <1>3, <1>4, <1>5, <1>7, <1>8, <1>9, <1>10, <1>11, <1>12, <1>13, <1>14, <1>15
          DEF Next, LoopStep

-----------------------------------------------------------------------------
(* The inductive invariant.  No part of it is inductive without the others:*)
(* the types of the buffers need that a seek goes back over what it has    *)
(* skipped, that needs readers that share no connection, that needs that   *)
(* an address which is free is in no list, and a paused transfer that      *)
(* begins anew needs all of it.                                            *)
IInv == TypeOK /\ Owned /\ Skipped /\ LoopPlaces /\ ResumeNotLost

LEMMA InitIInv == Init => IInv
<1> SUFFICES ASSUME Init
             PROVE  IInv
  OBVIOUS
<1>1. TypeOK
  BY InitTypeOK
<1>2. Owned
  BY DEF Init, Owned, Ownership, FreedIsForgotten, Filling
<1>3. Skipped /\ LoopPlaces
  BY DEF Init, Skipped, LoopPlaces, Filling
<1>4. ResumeNotLost
  BY DEF Init, ResumeNotLost
<1>. QED  BY <1>1, <1>2, <1>3, <1>4 DEF IInv

LEMMA NextIInv == IInv /\ [Next]_vars => IInv'
<1> SUFFICES ASSUME IInv, [Next]_vars
             PROVE  IInv'
  OBVIOUS
<1>1. TypeOK /\ Owned /\ Ownership /\ Skipped /\ LoopPlaces /\ ResumeNotLost
  BY DEF IInv, Owned
<1>2. TypeOK'
  BY <1>1, SourceTypes, ReaderTypes, ConnectionTypes, CurlTypes, LoopTypes DEF TypeOK
<1>3. Owned' /\ Skipped' /\ LoopPlaces' /\ ResumeNotLost'
  BY <1>1, OwnedStep, SkippedStep, LoopPlacesStep, ResumeNotLostStep
<1>. QED  BY <1>2, <1>3 DEF IInv

(* What the rest follows from: whatever the sources, the loop thread and   *)
(* libcurl do in any order, each reader works with a connection of its own *)
(* that nobody deletes but it, and the loop thread keeps the lists locked  *)
(* while it has one of them in hand.                                       *)
THEOREM Invariance == Spec => []IInv
<1>. QED  BY InitIInv, NextIInv, PTL DEF Spec

(* Every variable keeps its type; that of the buffers says that the ring   *)
(* buffer never holds more than its m_size bytes, though reads, short      *)
(* seeks and write_callback() of another thread share it, and that no      *)
(* position goes below 0 when short_seek() goes back.                      *)
THEOREM TypeCorrect == Spec => []TypeOK
<1>1. IInv => TypeOK
  BY DEF IInv
<1>. QED  BY <1>1, Invariance, PTL

(* CurlMulti adds, runs and deletes only connections that exist, though    *)
(* the readers give them up at any time: deleteHandle() takes a connection *)
(* out of mAddList in the step that puts it into mDeleteList, and the loop *)
(* removes it from the multi handle in the step that deletes it.           *)
THEOREM ConnectionsExist == Spec => []FreedIsForgotten
<1>1. IInv => FreedIsForgotten
  BY DEF IInv, Owned
<1>. QED  BY <1>1, Invariance, PTL

(* No transfer that write_callback() paused is forgotten: mPaused is still *)
(* set for FillBuffer() and xferinfo(), or the connection is in            *)
(* mResumeList or in what the loop thread took from it.                    *)
THEOREM PausedIsResumed == Spec => []ResumeNotLost
<1>1. IInv => ResumeNotLost
  BY DEF IInv
<1>. QED  BY <1>1, Invariance, PTL

-----------------------------------------------------------------------------
(* The bytes in a window                                                   *)

LEMMA ElementsOfConcatenation ==
  ASSUME NEW S, NEW q \in Seq(S), NEW r \in Seq(S), NEW i \in 1 .. Len(q \o r)
  PROVE  (q \o r)[i] = IF i <= Len(q) THEN q[i] ELSE r[i - Len(q)]
OBVIOUS

LEMMA ElementsOfPart ==
  ASSUME NEW S, NEW q \in Seq(S), NEW m \in Nat, NEW n \in Nat, 1 <= m, n <= Len(q), m <= n + 1
  PROVE  /\ SubSeq(q, m, n) \in Seq(S) /\ Len(SubSeq(q, m, n)) = n - m + 1
         /\ \A i \in 1 .. n - m + 1 : SubSeq(q, m, n)[i] = q[m + i - 1]
OBVIOUS

(* A window as one sequence, from the oldest byte that is kept on.         *)
Whole(w) == w.kept \o w.unread

Located(q, pos) ==
    \A i \in 1 .. Len(q) : pos + i - 1 < FileSize => q[i] = pos + i - 1

LEMMA RightIsLocated ==
  ASSUME NEW w \in Window, NEW pos \in Int
  PROVE  Right(w, pos) <=> Located(Whole(w), pos - Len(w.kept))
<1> DEFINE k == w.kept
           u == w.unread
           q == Whole(w)
<1>1. k \in Seq(Byte) /\ u \in Seq(Byte)
  BY DEF Window, Byte
<1>2. q \in Seq(Byte) /\ Len(q) = Len(k) + Len(u) /\ Len(k) \in Nat /\ Len(u) \in Nat
  BY <1>1, Concatenation DEF Whole
<1>3. \A i \in 1 .. Len(q) : q[i] = IF i <= Len(k) THEN k[i] ELSE u[i - Len(k)]
  BY <1>1, ElementsOfConcatenation DEF Whole
<1>4. Right(w, pos) <=> /\ \A i \in 1 .. Len(k) :
                             pos - Len(k) + i - 1 < FileSize => k[i] = pos - Len(k) + i - 1
                        /\ \A i \in 1 .. Len(u) :
                             pos + i - 1 < FileSize => u[i] = pos + i - 1
  BY DEF Right
<1> HIDE DEF k, u, q
<1>5. ASSUME Right(w, pos), NEW i \in 1 .. Len(q), pos - Len(k) + i - 1 < FileSize
      PROVE  q[i] = pos - Len(k) + i - 1
  <2>1. CASE i <= Len(k)
    BY <1>2, <1>3, <1>4, <1>5, <2>1
  <2>2. CASE i > Len(k)
    <3>1. i - Len(k) \in 1 .. Len(u) /\ pos + (i - Len(k)) - 1 = pos - Len(k) + i - 1
      BY <1>2, <2>2
    <3>2. q[i] = u[i - Len(k)]
      BY <1>2, <1>3, <2>2
    <3>. QED  BY <1>4, <1>5, <3>1, <3>2
  <2>. QED  BY <1>2, <2>1, <2>2
<1>6. ASSUME Located(q, pos - Len(k))
      PROVE  Right(w, pos)
  <2>1. \A i \in 1 .. Len(q) : pos - Len(k) + i - 1 < FileSize => q[i] = pos - Len(k) + i - 1
    BY <1>6 DEF Located
  <2>2. ASSUME NEW i \in 1 .. Len(k), pos - Len(k) + i - 1 < FileSize
        PROVE  k[i] = pos - Len(k) + i - 1
    <3>1. i \in 1 .. Len(q) /\ i <= Len(k)
      BY <1>2
    <3>. QED  BY <1>3, <2>1, <2>2, <3>1
  <2>3. ASSUME NEW i \in 1 .. Len(u), pos + i - 1 < FileSize
        PROVE  u[i] = pos + i - 1
    <3> DEFINE j == Len(k) + i
    <3>1. j \in 1 .. Len(q) /\ ~(j <= Len(k)) /\ j - Len(k) = i /\ pos - Len(k) + j - 1 = pos + i - 1
      BY <1>2
    <3> HIDE DEF j
    <3>2. q[j] = u[i]
      BY <1>3, <3>1
    <3>. QED  BY <2>1, <2>3, <3>1, <3>2
  <2>. QED  BY <1>4, <2>2, <2>3
<1>7. Right(w, pos) => Located(q, pos - Len(k))
  BY <1>5 DEF Located
<1>. QED  BY <1>6, <1>7 DEF q, k

(* A part of it is located where it was cut out.                           *)
LEMMA LocatedFirst ==
  ASSUME NEW q \in Seq(Byte), NEW pos \in Int, Located(q, pos), NEW n \in 0 .. Len(q)
  PROVE  Located(SubSeq(q, 1, n), pos)
<1>1. n \in Nat /\ n <= Len(q)
  OBVIOUS
<1>2. Len(SubSeq(q, 1, n)) = n /\ \A i \in 1 .. n : SubSeq(q, 1, n)[i] = q[i]
  BY <1>1
<1>. QED  BY <1>1, <1>2 DEF Located

LEMMA LocatedRest ==
  ASSUME NEW q \in Seq(Byte), NEW pos \in Int, Located(q, pos), NEW n \in 0 .. Len(q)
  PROVE  Located(Rest(q, n), pos + n)
<1>1. n \in Nat /\ n <= Len(q) /\ Len(q) \in Nat
  OBVIOUS
<1>2. Len(Rest(q, n)) = Len(q) - n /\ \A i \in 1 .. Len(q) - n : Rest(q, n)[i] = q[n + i]
  <2>1. /\ Len(SubSeq(q, n + 1, Len(q))) = Len(q) - (n + 1) + 1
        /\ \A i \in 1 .. Len(q) - (n + 1) + 1 : SubSeq(q, n + 1, Len(q))[i] = q[(n + 1) + i - 1]
    <3>1. n + 1 \in Nat /\ 1 <= n + 1 /\ Len(q) \in Nat /\ Len(q) <= Len(q) /\ n + 1 <= Len(q) + 1
      BY <1>1
    <3>. QED  BY <3>1, ElementsOfPart
  <2>. QED  BY <1>1, <2>1 DEF Rest
<1>3. ASSUME NEW i \in 1 .. Len(q) - n, pos + n + i - 1 < FileSize
      PROVE  Rest(q, n)[i] = pos + n + i - 1
  <2>1. n + i \in 1 .. Len(q) /\ pos + (n + i) - 1 = pos + n + i - 1
    BY <1>1
  <2>. QED  BY <1>2, <1>3, <2>1 DEF Located
<1>. QED  BY <1>2, <1>3 DEF Located

LEMMA LocatedNewest ==
  ASSUME NEW q \in Seq(Byte), NEW pos \in Int, Located(q, pos), NEW m \in 0 .. Len(q)
  PROVE  Located(Newest(q, m), pos + Len(q) - m) /\ Len(Newest(q, m)) = m
<1> DEFINE n == Len(q) - m
<1>1. n \in 0 .. Len(q) /\ pos + n = pos + Len(q) - m /\ m \in Nat /\ Len(q) \in Nat
  OBVIOUS
<1>2. Newest(q, m) = Rest(q, n)
  BY DEF Newest, Rest
<1>3. Len(Newest(q, m)) = m
  BY <1>1 DEF Newest
<1> HIDE DEF n
<1>. QED  BY <1>1, <1>2, <1>3, LocatedRest

LEMMA LocatedParts ==
  ASSUME NEW w, NEW pos
  PROVE  Right(w, pos) <=> Located(w.kept, pos - Len(w.kept)) /\ Located(w.unread, pos)
BY DEF Right, Located

(* Reading and skipping move the position with the bytes...                *)
LEMMA RightConsumed ==
  ASSUME NEW w \in Window, NEW pos \in Int, Right(w, pos),
         NEW n \in 0 .. Len(w.unread), NEW limit \in Nat
  PROVE  Right(Consumed(w, n, limit), pos + n)
<1> DEFINE first == SubSeq(w.unread, 1, n)
           behind == w.kept \o first
           k == Len(w.kept)
           m == AtMost(limit, k + n)
<1>1. w.kept \in Seq(Byte) /\ w.unread \in Seq(Byte) /\ k \in Nat /\ Len(w.unread) \in Nat
      /\ n \in Nat /\ n <= Len(w.unread)
  BY DEF Window, Byte
<1>2. first \in Seq(Byte) /\ Len(first) = n
  BY <1>1
<1>11. Located(w.kept, pos - k) /\ Located(w.unread, pos)
  BY LocatedParts
<1>3. Located(first, pos)
  BY <1>1, <1>11, LocatedFirst
<1>4. Located(Rest(w.unread, n), pos + n)
  BY <1>1, <1>11, LocatedRest
<1> HIDE DEF first
<1>5. behind \in Seq(Byte) /\ Len(behind) = k + n
  BY <1>1, <1>2, Concatenation
<1>6. Located(behind, pos - k)
  <2> DEFINE v == [kept |-> w.kept, unread |-> first]
  <2>1. v \in Window /\ v.kept = w.kept /\ v.unread = first
    BY <1>1, <1>2 DEF Window, Byte
  <2>2. Right(v, pos)
    BY <1>3, <2>1, LocatedParts
  <2> HIDE DEF v
  <2>. QED  BY <2>1, <2>2, RightIsLocated DEF Whole
<1>7. m \in Nat /\ m <= k + n /\ m = AtMost(limit, Len(behind))
  BY <1>1, <1>5 DEF AtMost
<1> HIDE DEF behind, m, k
<1>8. m \in 0 .. Len(behind) /\ pos - k \in Int /\ (pos - k) + Len(behind) - m = (pos + n) - m
  BY <1>1, <1>5, <1>7 DEF k
<1>9. Located(Newest(behind, m), (pos + n) - m) /\ Len(Newest(behind, m)) = m
  BY <1>5, <1>6, <1>8, LocatedNewest
<1>10. Consumed(w, n, limit) = [kept |-> Newest(behind, m), unread |-> Rest(w.unread, n)]
  BY <1>7 DEF Consumed, behind, first
<1> DEFINE v == Consumed(w, n, limit)
<1>13. v.kept = Newest(behind, m) /\ v.unread = Rest(w.unread, n)
  BY <1>10
<1> HIDE DEF v
<1>14. Located(v.kept, (pos + n) - Len(v.kept)) /\ Located(v.unread, pos + n)
  BY <1>4, <1>9, <1>13
<1>15. Right(v, pos + n)
  BY <1>14, LocatedParts
<1>. QED  BY <1>15 DEF v

(* ...and so does going back.                                              *)
LEMMA RightSkipBack ==
  ASSUME NEW w \in Window, NEW pos \in Int, Right(w, pos), NEW n \in 0 .. Len(w.kept)
  PROVE  Right(AfterSkipBack(w, n), pos - n)
<1> DEFINE k == Len(w.kept)
           older == SubSeq(w.kept, 1, k - n)
           newer == Newest(w.kept, n)
<1>1. w.kept \in Seq(Byte) /\ w.unread \in Seq(Byte) /\ k \in Nat /\ n \in Nat /\ n <= k
      /\ k - n \in Nat
  BY DEF Window, Byte
<1>2. older \in Seq(Byte) /\ Len(older) = k - n /\ newer \in Seq(Byte) /\ Len(newer) = n
  BY <1>1 DEF Newest
<1>3. Located(w.kept, pos - k) /\ Located(w.unread, pos)
  BY LocatedParts
<1>4. Located(older, pos - k)
  <2>1. pos - k \in Int /\ k - n \in 0 .. k
    BY <1>1
  <2>. QED  BY <1>1, <1>3, <2>1, LocatedFirst
<1>5. Located(newer, pos - n)
  <2>1. pos - k \in Int /\ (pos - k) + Len(w.kept) - n = pos - n
    BY <1>1
  <2>. QED  BY <1>1, <1>3, <2>1, LocatedNewest
<1> HIDE DEF older, newer
<1>6. Located(newer \o w.unread, pos - n)
  <2> DEFINE v == [kept |-> newer, unread |-> w.unread]
  <2>1. v \in Window /\ v.kept = newer /\ v.unread = w.unread
    BY <1>1, <1>2 DEF Window, Byte
  <2>3. pos - n + Len(newer) = pos /\ pos - Len(newer) = pos - n
    BY <1>1, <1>2
  <2>2. Right(v, pos)
    BY <1>3, <1>5, <2>1, <2>3, LocatedParts
  <2> HIDE DEF v
  <2>. QED  BY <2>1, <2>2, <2>3, RightIsLocated DEF Whole
<1>7. AfterSkipBack(w, n) = [kept |-> older, unread |-> newer \o w.unread]
  BY DEF AfterSkipBack, older, newer
<1>8. pos - n - Len(older) = pos - k
  BY <1>1, <1>2
<1> DEFINE v == AfterSkipBack(w, n)
<1>9. v.kept = older /\ v.unread = newer \o w.unread
  BY <1>7
<1> HIDE DEF v
<1>10. Right(v, pos - n)
  BY <1>4, <1>6, <1>8, <1>9, LocatedParts
<1>. QED  BY <1>10 DEF v

(* What is written comes behind what is there.                             *)
LEMMA RightWritten ==
  ASSUME NEW w \in Window, NEW pos \in Int, Right(w, pos), NEW bytes \in Seq(Byte),
         Located(bytes, pos + Len(w.unread))
  PROVE  Right(AfterWrite(w, bytes), pos)
<1>1. w.kept \in Seq(Byte) /\ w.unread \in Seq(Byte) /\ Len(w.unread) \in Nat
  BY DEF Window, Byte
<1>2. Located(w.unread \o bytes, pos)
  <2> DEFINE v == [kept |-> w.unread, unread |-> bytes]
  <2>1. v \in Window /\ v.kept = w.unread /\ v.unread = bytes
    BY <1>1 DEF Window, Byte
  <2>2. pos + Len(w.unread) - Len(w.unread) = pos /\ pos + Len(w.unread) \in Int
    BY <1>1
  <2>3. Right(v, pos + Len(w.unread))
    BY <2>1, <2>2, LocatedParts
  <2> HIDE DEF v
  <2>. QED  BY <2>1, <2>2, <2>3, RightIsLocated DEF Whole
<1>. QED  BY <1>2, LocatedParts DEF AfterWrite

LEMMA RightEmpty == ASSUME NEW pos PROVE Right(EmptyWindow, pos)
BY DEF Right, EmptyWindow

-----------------------------------------------------------------------------
(* What a step leaves alone                                                *)

SameBuffer(h) == ring'[h] = ring[h] /\ mFilePos'[h] = mFilePos[h]

SameTransfer(h) ==
    /\ at'[h] = at[h] /\ page'[h] = page[h] /\ resumeFrom'[h] = resumeFrom[h]
    /\ mEOS'[h] = mEOS[h] /\ mStatus'[h] = mStatus[h]
    /\ (h \in multi' => h \in multi) /\ (h \in mAddList' => h \in mAddList)
    /\ (h \in Completed' => h \in Completed)

(* The steps of a reader that neither touch a buffer nor begin a transfer. *)
Quiet(s) ==
    \/ Open(s) \/ Close(s) \/ Replace(s) \/ \E n \in ReadSizes : Read(s, n)
    \/ \E offset \in SeekTargets : SeekReconnecting(s, offset) \/ SeekFar(s, offset)
    \/ FillCheck(s) \/ FillEos(s) \/ FillPause(s) \/ FillResume(s)
    \/ Opened(s) \/ SeekConnected(s) \/ ReadFilled(s) \/ ReadReconnected(s)

MovesBytes(s) ==
    \/ \E offset \in SeekTargets : SeekInBuffer(s, offset) \/ SeekNear(s, offset)
    \/ SeekNearEnds(s) \/ Take(s)

LEMMA ReaderKinds ==
  ASSUME NEW s \in Sources, ReaderCall(s) \/ ReaderStep(s)
  PROVE  \/ Quiet(s) \/ MovesBytes(s) \/ Connect(s) \/ FillStatus(s) \/ Retry(s) \/ Again(s)
         \/ \E offset \in SeekTargets : SeekPastEnd(s, offset)
BY DEF ReaderCall, ReaderStep, SeekCall, Quiet, MovesBytes

LEMMA QuietLeaves ==
  ASSUME NEW s \in Sources, Quiet(s)
  PROVE  /\ UNCHANGED <<ring, mFilePos, mEOS, mStatus, resumeFrom, strayed, alive>>
         /\ mAddList' \subseteq mAddList
<1>1. CASE Open(s) \/ Close(s) \/ Replace(s) \/ \E n \in ReadSizes : Read(s, n)
  BY <1>1 DEF Open, Close, Replace, Delete, deleteHandle, Read, connVars, curlVars, listVars, history
<1>2. CASE \E offset \in SeekTargets : SeekReconnecting(s, offset) \/ SeekFar(s, offset)
  BY <1>2 DEF SeekReconnecting, SeekFar, connVars, curlVars, listVars, history
<1>3. CASE FillCheck(s) \/ FillEos(s) \/ FillPause(s) \/ FillResume(s)
  BY <1>3 DEF FillCheck, FillEos, FillPause, FillResume, resumeHandle, connVars, curlVars, listVars,
              history
<1>4. CASE Opened(s) \/ SeekConnected(s) \/ ReadFilled(s) \/ ReadReconnected(s)
  BY <1>4 DEF Opened, SeekConnected, ReadFilled, ReadReconnected, connVars, curlVars, listVars, history
<1>. QED  BY <1>1, <1>2, <1>3, <1>4 DEF Quiet

LEMMA ReaderLeaves ==
  ASSUME NEW s \in Sources, ReaderCall(s) \/ ReaderStep(s)
  PROVE  UNCHANGED <<multi, at, page, stopped, msgs, lpc, back, lh, batch, eof, errors, reconnects>>
<1>1. CASE ReaderCall(s)
  BY <1>1 DEF ReaderCall, Open, Close, Read, SeekCall, SeekPastEnd, SeekReconnecting,
              SeekInBuffer, SeekNear, SeekFar, curlVars, loopVars, history
<1>2. CASE Replace(s) \/ Connect(s) \/ FillCheck(s) \/ FillEos(s) \/ FillPause(s) \/ FillResume(s)
  BY <1>2 DEF Replace, Connect, FillCheck, FillEos, FillPause, FillResume, curlVars, loopVars, history
<1>3. CASE FillStatus(s) \/ Retry(s) \/ Again(s) \/ Opened(s) \/ SeekConnected(s) \/ SeekNearEnds(s)
           \/ ReadFilled(s) \/ ReadReconnected(s) \/ Take(s)
  BY <1>3 DEF FillStatus, Retry, Again, Opened, SeekConnected, SeekNearEnds, ReadFilled,
              ReadReconnected, Take, curlVars, loopVars, history
<1>. QED  BY <1>1, <1>2, <1>3 DEF ReaderStep

(* Moving the bytes of a buffer, and the position with them: the place     *)
(* where the buffer ends stays, and the bytes stay where they are in the   *)
(* file.                                                                   *)
MovesTo(h, w, p) ==
    /\ w \in Window /\ p \in Int
    /\ ring' = [ring EXCEPT ![h] = w] /\ mFilePos' = [mFilePos EXCEPT ![h] = p]
    /\ p + Len(w.unread) = Reached(h)
    /\ Len(w.kept) <= Len(ring[h].kept) \/ Len(w.kept) <= m_back_size
    /\ Right(ring[h], mFilePos[h]) => Right(w, p)

LEMMA ReadMoves ==
  ASSUME NEW h, ring[h] \in Window, mFilePos[h] \in Nat, NEW n \in 0 .. Fill(h),
         ring' = [ring EXCEPT ![h] = AfterRead(ring[h], n)],
         mFilePos' = [mFilePos EXCEPT ![h] = mFilePos[h] + n]
  PROVE  MovesTo(h, AfterRead(ring[h], n), mFilePos[h] + n)
<1> DEFINE w == ring[h]
<1>1. n \in 0 .. Len(w.unread) /\ n \in Nat /\ Len(w.unread) \in Nat /\ Len(w.kept) \in Nat
      /\ m_back_size \in Nat /\ mFilePos[h] \in Int
  BY WindowAssumption DEF Fill, Window
<1>2. /\ AfterRead(w, n) \in Window
      /\ Len(AfterRead(w, n).unread) = Len(w.unread) - n
      /\ Len(AfterRead(w, n).kept) = AtMost(m_back_size, Len(w.kept) + n)
  BY <1>1, Consuming DEF AfterRead
<1>3. Right(w, mFilePos[h]) => Right(AfterRead(w, n), mFilePos[h] + n)
  BY <1>1, RightConsumed DEF AfterRead
<1>4. AtMost(m_back_size, Len(w.kept) + n) <= m_back_size
  BY <1>1 DEF AtMost
<1>5. (mFilePos[h] + n) + (Len(w.unread) - n) = mFilePos[h] + Len(w.unread)
  BY <1>1
<1>. QED  BY <1>1, <1>2, <1>3, <1>4, <1>5 DEF MovesTo, Reached, Fill

LEMMA SkipMoves ==
  ASSUME NEW h, ring[h] \in Window, mFilePos[h] \in Nat, NEW n \in 0 .. Fill(h),
         ring' = [ring EXCEPT ![h] = AfterSkip(ring[h], n)],
         mFilePos' = [mFilePos EXCEPT ![h] = mFilePos[h] + n]
  PROVE  MovesTo(h, AfterSkip(ring[h], n), mFilePos[h] + n)
<1> DEFINE w == ring[h]
<1>1. n \in 0 .. Len(w.unread) /\ n \in Nat /\ Len(w.unread) \in Nat /\ Len(w.kept) \in Nat
      /\ mFilePos[h] \in Int
  BY DEF Fill, Window
<1>2. /\ AfterSkip(w, n) \in Window
      /\ Len(AfterSkip(w, n).unread) = Len(w.unread) - n
      /\ Len(AfterSkip(w, n).kept) = AtMost(Len(w.kept), Len(w.kept) + n)
  BY <1>1, Consuming DEF AfterSkip
<1>3. Right(w, mFilePos[h]) => Right(AfterSkip(w, n), mFilePos[h] + n)
  BY <1>1, RightConsumed DEF AfterSkip
<1>4. AtMost(Len(w.kept), Len(w.kept) + n) <= Len(w.kept)
  BY <1>1 DEF AtMost
<1>5. (mFilePos[h] + n) + (Len(w.unread) - n) = mFilePos[h] + Len(w.unread)
  BY <1>1
<1>. QED  BY <1>1, <1>2, <1>3, <1>4, <1>5 DEF MovesTo, Reached, Fill

LEMMA SkipBackMoves ==
  ASSUME NEW h, ring[h] \in Window, mFilePos[h] \in Nat, NEW n \in 0 .. Len(ring[h].kept),
         ring' = [ring EXCEPT ![h] = AfterSkipBack(ring[h], n)],
         mFilePos' = [mFilePos EXCEPT ![h] = mFilePos[h] - n]
  PROVE  MovesTo(h, AfterSkipBack(ring[h], n), mFilePos[h] - n)
<1> DEFINE w == ring[h]
           k == Len(w.kept)
           u == Len(w.unread)
<1>1. w.kept \in Seq(Byte) /\ w.unread \in Seq(Byte) /\ n \in Nat /\ n <= k /\ u \in Nat /\ k \in Nat
      /\ mFilePos[h] \in Int
  BY DEF Window, Byte
<1>2. SubSeq(w.kept, 1, k - n) \in Seq(Byte) /\ Len(SubSeq(w.kept, 1, k - n)) = k - n
      /\ Newest(w.kept, n) \in Seq(Byte) /\ Len(Newest(w.kept, n)) = n
  BY <1>1 DEF Newest
<1>3. Newest(w.kept, n) \o w.unread \in Seq(Byte) /\ Len(Newest(w.kept, n) \o w.unread) = n + u
  BY <1>1, <1>2, Concatenation
<1>4. AfterSkipBack(w, n) \in Window /\ Len(AfterSkipBack(w, n).kept) = k - n
      /\ Len(AfterSkipBack(w, n).unread) = n + u
  BY <1>2, <1>3 DEF AfterSkipBack, Window, Byte
<1>5. Right(w, mFilePos[h]) => Right(AfterSkipBack(w, n), mFilePos[h] - n)
  BY <1>1, RightSkipBack
<1> HIDE DEF k, u
<1>6. k - n <= k /\ (mFilePos[h] - n) + (n + u) = mFilePos[h] + u /\ mFilePos[h] - n \in Int
  BY <1>1
<1>. QED  BY <1>4, <1>5, <1>6 DEF MovesTo, Reached, Fill, k, u

LEMMA MovingMoves ==
  ASSUME TypeOK, Owned, NEW s \in Sources, MovesBytes(s)
  PROVE  /\ mPConnection[s] \in Handles /\ mPConnection[s] \in alive
         /\ \E w, p : MovesTo(mPConnection[s], w, p)
         /\ UNCHANGED <<mEOS, mStatus, resumeFrom, mAddList, strayed, alive>>
<1> DEFINE c == mPConnection[s]
<1>1. UNCHANGED <<mEOS, mStatus, resumeFrom, mAddList, strayed, alive>>
  BY DEF MovesBytes, SeekInBuffer, SeekNear, SeekNearEnds, Take, curlVars, listVars, history
<1>2. rpc[s] \in Filling \cup {"take"} \/ c # None
  BY DEF MovesBytes, SeekInBuffer, SeekNear, SeekNearEnds, Take, CanSeek, Filling
<1>3. c \in Handles /\ c \in alive
  BY <1>2, ReaderFacts DEF Owned, Ownership
<1>4. /\ ring[c] \in Window /\ mFilePos[c] \in Nat /\ Fill(c) \in Nat /\ Len(ring[c].kept) \in Nat
      /\ ring = [ring EXCEPT ![c] = ring[c]] /\ mFilePos = [mFilePos EXCEPT ![c] = mFilePos[c]]
  BY <1>3, ReaderFacts DEF Owned, TypeOK, ConnectionTypeOK
<1>5. \A t \in Sources : target[t] \in Nat /\ size[t] \in Nat /\ len[t] \in Nat
  BY DEF TypeOK, ReaderTypeOK
<1>6. \A offset \in SeekTargets : offset \in Nat
  BY CurlAssumption
<1> HIDE DEF c
<1>7. ASSUME NEW offset \in SeekTargets, SeekInBuffer(s, offset)
      PROVE  \E w, p : MovesTo(c, w, p)
  <2> DEFINE delta == offset - mFilePos[c]
  <2>1. /\ mFilePos' = [mFilePos EXCEPT ![c] = offset]
        /\ \/ /\ delta < 0 /\ Len(ring[c].kept) >= -delta
              /\ ring' = [ring EXCEPT ![c] = AfterSkipBack(ring[c], -delta)]
           \/ /\ delta > 0 /\ delta <= Fill(c)
              /\ ring' = [ring EXCEPT ![c] = AfterSkip(ring[c], delta)]
    BY <1>7 DEF SeekInBuffer, c
  <2>2. delta \in Int /\ offset = mFilePos[c] + delta /\ offset = mFilePos[c] - (-delta)
    BY <1>4, <1>6
  <2> HIDE DEF delta
  <2>3. CASE delta < 0 /\ Len(ring[c].kept) >= -delta
             /\ ring' = [ring EXCEPT ![c] = AfterSkipBack(ring[c], -delta)]
    <3>1. -delta \in 0 .. Len(ring[c].kept)
      BY <1>4, <2>2, <2>3
    <3>2. mFilePos' = [mFilePos EXCEPT ![c] = mFilePos[c] - (-delta)]
      BY <2>1, <2>2
    <3>3. MovesTo(c, AfterSkipBack(ring[c], -delta), mFilePos[c] - (-delta))
      BY <1>4, <2>3, <3>1, <3>2, SkipBackMoves
    <3>. QED  BY <3>3
  <2>4. CASE delta > 0 /\ delta <= Fill(c)
             /\ ring' = [ring EXCEPT ![c] = AfterSkip(ring[c], delta)]
    <3>1. delta \in 0 .. Fill(c)
      BY <1>4, <2>2, <2>4
    <3>2. mFilePos' = [mFilePos EXCEPT ![c] = mFilePos[c] + delta]
      BY <2>1, <2>2
    <3>3. MovesTo(c, AfterSkip(ring[c], delta), mFilePos[c] + delta)
      BY <1>4, <2>4, <3>1, <3>2, SkipMoves
    <3>. QED  BY <3>3
  <2>. QED  BY <2>1, <2>3, <2>4
<1>8. ASSUME NEW offset \in SeekTargets, SeekNear(s, offset)
      PROVE  \E w, p : MovesTo(c, w, p)
  <2>1. /\ mFilePos' = [mFilePos EXCEPT ![c] = mFilePos[c] + Fill(c)]
        /\ ring' = [ring EXCEPT ![c] = AfterSkip(ring[c], Fill(c))]
    BY <1>8 DEF SeekNear, c
  <2>2. Fill(c) \in 0 .. Fill(c)
    BY <1>4
  <2>. QED  BY <1>4, <2>1, <2>2, SkipMoves
<1>9. ASSUME SeekNearEnds(s)
      PROVE  \E w, p : MovesTo(c, w, p)
  <2> DEFINE rest == target[s] - mFilePos[c]
  <2>1. \/ /\ rest > 0 /\ rest <= Fill(c) /\ ring' = [ring EXCEPT ![c] = AfterSkip(ring[c], rest)]
           /\ mFilePos' = [mFilePos EXCEPT ![c] = target[s]]
        \/ /\ len[s] > 0 /\ Len(ring[c].kept) >= len[s]
           /\ ring' = [ring EXCEPT ![c] = AfterSkipBack(ring[c], len[s])]
           /\ mFilePos' = [mFilePos EXCEPT ![c] = mFilePos[c] - len[s]]
        \/ ring' = [ring EXCEPT ![c] = ring[c]] /\ mFilePos' = [mFilePos EXCEPT ![c] = mFilePos[c]]
    BY <1>9 DEF SeekNearEnds, c
  <2>2. rest \in Int /\ target[s] = mFilePos[c] + rest
    BY <1>4, <1>5
  <2> HIDE DEF rest
  <2>3. CASE /\ rest > 0 /\ rest <= Fill(c) /\ ring' = [ring EXCEPT ![c] = AfterSkip(ring[c], rest)]
             /\ mFilePos' = [mFilePos EXCEPT ![c] = target[s]]
    <3>1. rest \in 0 .. Fill(c)
      BY <1>4, <2>2, <2>3
    <3>. QED  BY <1>4, <2>2, <2>3, <3>1, SkipMoves
  <2>4. CASE /\ len[s] > 0 /\ Len(ring[c].kept) >= len[s]
             /\ ring' = [ring EXCEPT ![c] = AfterSkipBack(ring[c], len[s])]
             /\ mFilePos' = [mFilePos EXCEPT ![c] = mFilePos[c] - len[s]]
    <3>1. len[s] \in 0 .. Len(ring[c].kept)
      BY <1>4, <1>5, <2>4
    <3>. QED  BY <1>4, <2>4, <3>1, SkipBackMoves
  <2>5. CASE ring' = [ring EXCEPT ![c] = ring[c]] /\ mFilePos' = [mFilePos EXCEPT ![c] = mFilePos[c]]
    <3>1. MovesTo(c, ring[c], mFilePos[c])
      BY <1>4, <2>5 DEF MovesTo, Reached, Fill
    <3>. QED  BY <3>1
  <2>. QED  BY <2>1, <2>3, <2>4, <2>5
<1>10. ASSUME Take(s)
       PROVE  \E w, p : MovesTo(c, w, p)
  <2> DEFINE n == AtMost(Fill(c), size[s])
  <2>1. /\ ring' = [ring EXCEPT ![c] = AfterRead(ring[c], n)]
        /\ mFilePos' = [mFilePos EXCEPT ![c] = mFilePos[c] + n]
    BY <1>10 DEF Take, c
  <2>2. n \in 0 .. Fill(c)
    BY <1>4, <1>5 DEF AtMost
  <2> HIDE DEF n
  <2>. QED  BY <1>4, <2>1, <2>2, ReadMoves
<1>11. \E w, p : MovesTo(c, w, p)
  BY <1>7, <1>8, <1>9, <1>10 DEF MovesBytes
<1>. QED  BY <1>1, <1>3, <1>11 DEF c

LEMMA MovedBuffer ==
  ASSUME ConnectionTypeOK, NEW h \in Handles, NEW w, NEW p, MovesTo(h, w, p)
  PROVE  /\ ring'[h] = w /\ mFilePos'[h] = p /\ Reached(h)' = Reached(h)
         /\ \A k \in Handles : k # h => SameBuffer(k)
<1>1. ring'[h] = w /\ mFilePos'[h] = p
      /\ \A k \in Handles : k # h => ring'[k] = ring[k] /\ mFilePos'[k] = mFilePos[k]
  BY DEF MovesTo, ConnectionTypeOK
<1>. QED  BY <1>1 DEF MovesTo, Reached, Fill, SameBuffer

(* A reader does what it does to its own connection, or to a new one.      *)
LEMMA OthersConnections ==
  ASSUME TypeOK, Owned, NEW s \in Sources, ReaderCall(s) \/ ReaderStep(s),
         NEW h \in alive, h # mPConnection[s]
  PROVE  SameBuffer(h) /\ SameTransfer(h) /\ (h \in strayed' <=> h \in strayed)
<1> DEFINE c == mPConnection[s]
<1>1. /\ ring \in [Handles -> Window] /\ mFilePos \in [Handles -> Nat]
      /\ mEOS \in [Handles -> BOOLEAN] /\ mStatus \in [Handles -> Outcomes]
      /\ resumeFrom \in [Handles -> Nat] /\ h \in Handles
  BY DEF TypeOK, ConnectionTypeOK, CurlTypeOK
<1>2. UNCHANGED <<multi, at, page, msgs>>
  BY ReaderLeaves
<1>3. Completed' = Completed
  BY <1>2 DEF Completed
<1>4. ASSUME SameBuffer(h), mEOS'[h] = mEOS[h], mStatus'[h] = mStatus[h],
             resumeFrom'[h] = resumeFrom[h], h \in mAddList' => h \in mAddList,
             h \in strayed' <=> h \in strayed
      PROVE  SameBuffer(h) /\ SameTransfer(h) /\ (h \in strayed' <=> h \in strayed)
  BY <1>2, <1>3, <1>4 DEF SameTransfer
<1>5. CASE Quiet(s)
  BY <1>4, <1>5, QuietLeaves DEF SameBuffer
<1>6. CASE MovesBytes(s)
  <2>1. c \in Handles /\ (\E w, p : MovesTo(c, w, p))
        /\ UNCHANGED <<mEOS, mStatus, resumeFrom, mAddList, strayed>>
    BY <1>6, MovingMoves
  <2>2. SameBuffer(h)
    BY <1>1, <2>1, MovedBuffer DEF TypeOK
  <2>. QED  BY <1>4, <2>1, <2>2
<1>7. CASE Connect(s)
  <2>1. PICK k \in Handles \ alive :
          /\ ring' = [ring EXCEPT ![k] = EmptyWindow]
          /\ mFilePos' = [mFilePos EXCEPT ![k] = target[s]]
          /\ resumeFrom' = [resumeFrom EXCEPT ![k] = target[s]]
          /\ mEOS' = [mEOS EXCEPT ![k] = FALSE]
          /\ mStatus' = [mStatus EXCEPT ![k] = "ok"]
          /\ strayed' = strayed \ {k}
          /\ mAddList' = mAddList \cup {k}
    BY <1>7 DEF Connect, addHandle
  <2>. QED  BY <1>1, <1>4, <2>1 DEF SameBuffer
<1>8. CASE FillStatus(s)
  <2>1. UNCHANGED <<mFilePos, resumeFrom, mAddList, strayed>>
        /\ (UNCHANGED <<ring, mEOS, mStatus>> \/ Reset(c))
    BY <1>8 DEF FillStatus, curlVars, listVars, history
  <2>. QED  BY <1>1, <1>4, <2>1 DEF Reset, SameBuffer
<1>9. CASE Retry(s)
  <2>1. UNCHANGED <<ring, mEOS, mStatus, resumeFrom, mAddList, strayed>>
        /\ (UNCHANGED mFilePos \/ mFilePos' = [mFilePos EXCEPT ![c] = 0])
    BY <1>9 DEF Retry, curlVars, listVars, history
  <2>. QED  BY <1>1, <1>4, <2>1 DEF SameBuffer
<1>10. CASE Again(s)
  <2>1. UNCHANGED <<ring, mFilePos, mEOS, mStatus, strayed>>
        /\ resumeFrom' = [resumeFrom EXCEPT ![c] = mFilePos[c]] /\ mAddList' = mAddList \cup {c}
    BY <1>10 DEF Again, addHandle, connVars, history
  <2>. QED  BY <1>1, <1>4, <2>1 DEF SameBuffer
<1>11. ASSUME NEW offset \in SeekTargets, SeekPastEnd(s, offset)
       PROVE  SameBuffer(h) /\ SameTransfer(h) /\ (h \in strayed' <=> h \in strayed)
  <2>1. UNCHANGED <<ring, mEOS, mStatus, mAddList>>
        /\ mFilePos' = [mFilePos EXCEPT ![c] = offset]
        /\ resumeFrom' = [resumeFrom EXCEPT ![c] = offset] /\ strayed' = strayed \cup {c}
    BY <1>11 DEF SeekPastEnd, listVars
  <2>. QED  BY <1>1, <1>4, <2>1 DEF SameBuffer
<1>. QED  BY <1>5, <1>6, <1>7, <1>8, <1>9, <1>10, <1>11, ReaderKinds

(* A connection whose buffer still ends where it did, and whose transfer   *)
(* is the same.                                                            *)
LEMMA StraightKept ==
  ASSUME NEW h, Straight(h), Right(ring'[h], mFilePos'[h]), Reached(h)' = Reached(h), SameTransfer(h)
  PROVE  Straight(h)'
BY DEF Straight, SameTransfer

LEMMA StraightUndisturbed ==
  ASSUME NEW h, Straight(h), SameBuffer(h), SameTransfer(h)
  PROVE  Straight(h)'
<1>1. Reached(h)' = Reached(h)
  BY DEF SameBuffer, Reached, Fill
<1>2. Right(ring'[h], mFilePos'[h])
  BY DEF SameBuffer, Straight
<1>. QED  BY <1>1, <1>2, StraightKept

LEMMA CompletedInMulti == Messages => Completed \subseteq multi
BY DEF Messages, Completed, Ended

(* The connection of the reader that makes the step.                       *)
LEMMA OwnStraight ==
  ASSUME TypeOK, Owned, AllStraight, Retrying, Messages,
         NEW s \in Sources, ReaderCall(s) \/ ReaderStep(s),
         NEW c \in alive, c = mPConnection[s], c \notin strayed'
  PROVE  Straight(c)'
<1>1. c \in Handles /\ Fill(c) \in Nat /\ mFilePos[c] \in Nat
  BY ReaderFacts DEF Owned, TypeOK, ConnectionTypeOK
<1>2. /\ ring \in [Handles -> Window] /\ mFilePos \in [Handles -> Nat]
      /\ mEOS \in [Handles -> BOOLEAN] /\ mStatus \in [Handles -> Outcomes]
      /\ resumeFrom \in [Handles -> Nat]
  BY DEF TypeOK, ConnectionTypeOK, CurlTypeOK
<1>3. UNCHANGED <<multi, at, page, msgs>>
  BY ReaderLeaves
<1>4. Completed' = Completed /\ Completed \subseteq multi
  BY <1>3, CompletedInMulti DEF Completed
<1>5. ASSUME c \notin strayed
      PROVE  Straight(c)
  BY <1>5 DEF AllStraight
<1>6. CASE Quiet(s)
  <2>1. c \notin strayed /\ SameBuffer(c) /\ SameTransfer(c)
    BY <1>3, <1>4, <1>6, QuietLeaves DEF SameBuffer, SameTransfer
  <2>. QED  BY <1>5, <2>1, StraightUndisturbed
<1>7. CASE MovesBytes(s)
  <2>1. PICK w, p : MovesTo(c, w, p)
    BY <1>7, MovingMoves
  <2>2. UNCHANGED <<mEOS, mStatus, resumeFrom, mAddList, strayed>>
    BY <1>7, MovingMoves
  <2>3. Straight(c) /\ SameTransfer(c)
    BY <1>3, <1>4, <1>5, <2>2 DEF SameTransfer
  <2>4. ring'[c] = w /\ mFilePos'[c] = p /\ Reached(c)' = Reached(c)
    BY <1>1, <2>1, MovedBuffer DEF TypeOK
  <2>5. Right(w, p)
    BY <2>1, <2>3 DEF MovesTo, Straight
  <2>6. Right(ring'[c], mFilePos'[c])
    BY <2>4, <2>5
  <2>. QED  BY <2>3, <2>4, <2>6, StraightKept
<1>8. CASE Connect(s)
  <2>1. rpc[s] = "connect"
    BY <1>8 DEF Connect
  <2>2. c = None
    BY <2>1 DEF Owned, Ownership
  <2>. QED  BY <1>1, <2>2, CurlAssumption
<1>9. CASE FillStatus(s)
  <2>1. UNCHANGED <<mFilePos, resumeFrom, mAddList, strayed>> /\ rpc[s] = "fillStatus"
        /\ (UNCHANGED <<ring, mEOS, mStatus>> \/ (Reset(c) /\ seen[s] = "retry"))
    BY <1>9 DEF FillStatus, curlVars, listVars, history
  <2>2. CASE UNCHANGED <<ring, mEOS, mStatus>>
    <3>1. SameBuffer(c) /\ SameTransfer(c) /\ Straight(c)
      BY <1>3, <1>4, <1>5, <2>1, <2>2 DEF SameBuffer, SameTransfer
    <3>. QED  BY <3>1, StraightUndisturbed
  <2>3. CASE Reset(c) /\ seen[s] = "retry"
    <3>1. mStatus[c] = "retry" /\ c \notin strayed
      BY <2>1, <2>3 DEF Retrying, RetryingOf, Filling
    <3>2. c \notin multi \cup mAddList
      BY <1>5, <3>1 DEF Straight
    <3>3. ring'[c] = EmptyWindow /\ ~mEOS'[c] /\ mStatus'[c] = "ok"
      BY <1>1, <1>2, <2>3 DEF Reset
    <3>4. Right(ring'[c], mFilePos'[c])
      BY <3>3, RightEmpty
    <3>. QED  BY <1>3, <1>4, <2>1, <3>2, <3>3, <3>4 DEF Straight
  <2>. QED  BY <2>1, <2>2, <2>3
<1>10. CASE Retry(s)
  <2>1. UNCHANGED <<ring, mEOS, mStatus, resumeFrom, mAddList, strayed>> /\ rpc[s] = "retry"
    BY <1>10 DEF Retry, curlVars, listVars, history
  <2>2. /\ c \notin multi \cup mAddList /\ ~mEOS[c] /\ mStatus[c] = "ok"
        /\ ring[c] = EmptyWindow
    BY <2>1 DEF Retrying, RetryingOf, Filling
  <2>3. Right(ring'[c], mFilePos'[c])
    BY <2>1, <2>2, RightEmpty
  <2>. QED  BY <1>3, <1>4, <2>1, <2>2, <2>3 DEF Straight
<1>11. CASE Again(s)
  <2>1. UNCHANGED <<ring, mFilePos, mEOS, mStatus, strayed>> /\ rpc[s] = "again"
        /\ resumeFrom' = [resumeFrom EXCEPT ![c] = mFilePos[c]] /\ mAddList' = mAddList \cup {c}
    BY <1>11 DEF Again, addHandle, connVars, history
  <2>2. /\ c \notin multi \cup mAddList /\ ~mEOS[c] /\ mStatus[c] = "ok"
        /\ ring[c] = EmptyWindow
    BY <2>1 DEF Retrying, RetryingOf, Filling
  <2>3. Right(ring'[c], mFilePos'[c])
    BY <2>1, <2>2, RightEmpty
  <2>4. Reached(c)' = mFilePos[c]
    <3>1. Len(ring'[c].unread) = 0
      BY <2>1, <2>2 DEF EmptyWindow
    <3>. QED  BY <1>1, <2>1, <3>1 DEF Reached, Fill
  <2>5. resumeFrom'[c] = mFilePos[c]
    BY <1>1, <1>2, <2>1
  <2>. QED  BY <1>3, <1>4, <2>1, <2>2, <2>3, <2>4, <2>5 DEF Straight
<1>12. ASSUME NEW offset \in SeekTargets, SeekPastEnd(s, offset)
       PROVE  FALSE
  BY <1>12 DEF SeekPastEnd
<1>. QED  BY <1>6, <1>7, <1>8, <1>9, <1>10, <1>11, <1>12, ReaderKinds

(* A new connection.                                                       *)
LEMMA NewStraight ==
  ASSUME TypeOK, Owned, Messages, NEW s \in Sources, Connect(s)
  PROVE  \E h \in Handles \ alive : alive' = alive \cup {h} /\ Straight(h)'
<1>1. PICK h \in Handles \ alive :
          /\ alive' = alive \cup {h}
          /\ ring' = [ring EXCEPT ![h] = EmptyWindow]
          /\ mFilePos' = [mFilePos EXCEPT ![h] = target[s]]
          /\ resumeFrom' = [resumeFrom EXCEPT ![h] = target[s]]
          /\ mEOS' = [mEOS EXCEPT ![h] = FALSE]
          /\ mStatus' = [mStatus EXCEPT ![h] = "ok"]
  BY DEF Connect
<1>2. /\ ring \in [Handles -> Window] /\ mFilePos \in [Handles -> Nat]
      /\ mEOS \in [Handles -> BOOLEAN] /\ mStatus \in [Handles -> Outcomes]
      /\ resumeFrom \in [Handles -> Nat] /\ target[s] \in Nat
  BY DEF TypeOK, ConnectionTypeOK, CurlTypeOK, ReaderTypeOK
<1>3. /\ ring'[h] = EmptyWindow /\ mFilePos'[h] = target[s] /\ resumeFrom'[h] = target[s]
      /\ ~mEOS'[h] /\ mStatus'[h] = "ok"
  BY <1>1, <1>2
<1>4. UNCHANGED <<multi, msgs>>
  BY ReaderLeaves DEF ReaderStep
<1>5. h \notin multi' /\ h \notin Completed'
  <2>1. h \notin multi
    BY <1>1 DEF Owned, FreedIsForgotten
  <2>2. Completed' = Completed
    BY <1>4 DEF Completed
  <2>. QED  BY <1>4, <2>1, <2>2, CompletedInMulti
<1>6. Right(ring'[h], mFilePos'[h])
  BY <1>3, RightEmpty
<1>7. Reached(h)' = target[s]
  <2>1. Len(ring'[h].unread) = 0
    BY <1>3 DEF EmptyWindow
  <2>. QED  BY <1>2, <1>3, <2>1 DEF Reached, Fill
<1>8. Straight(h)'
  BY <1>3, <1>5, <1>6, <1>7 DEF Straight
<1>. QED  BY <1>1, <1>8

LEMMA ReaderStraight ==
  ASSUME TypeOK, Owned, AllStraight, Retrying, Messages,
         NEW s \in Sources, ReaderCall(s) \/ ReaderStep(s)
  PROVE  AllStraight'
<1>1. ASSUME NEW h \in alive, h \notin strayed'
      PROVE  Straight(h)'
  <2>1. CASE h = mPConnection[s]
    BY <1>1, <2>1, OwnStraight
  <2>2. CASE h # mPConnection[s]
    <3>1. SameBuffer(h) /\ SameTransfer(h) /\ h \notin strayed
      BY <1>1, <2>2, OthersConnections
    <3>2. Straight(h)
      BY <3>1 DEF AllStraight
    <3>. QED  BY <3>1, <3>2, StraightUndisturbed
  <2>. QED  BY <2>1, <2>2
<1>2. ASSUME ~Connect(s)
      PROVE  alive' = alive
  <2>1. CASE Quiet(s) \/ MovesBytes(s)
    BY <2>1, QuietLeaves, MovingMoves
  <2>2. CASE FillStatus(s) \/ Retry(s) \/ Again(s) \/ \E offset \in SeekTargets : SeekPastEnd(s, offset)
    BY <2>2 DEF FillStatus, Retry, Again, SeekPastEnd, connVars
  <2>. QED  BY <1>2, <2>1, <2>2, ReaderKinds
<1>3. CASE Connect(s)
  <2>1. PICK h \in Handles \ alive : alive' = alive \cup {h} /\ Straight(h)'
    BY <1>3, NewStraight
  <2>. QED  BY <1>1, <2>1 DEF AllStraight
<1>4. CASE ~Connect(s)
  BY <1>1, <1>2, <1>4 DEF AllStraight
<1>. QED  BY <1>3, <1>4

-----------------------------------------------------------------------------
(* The transfers and their messages                                        *)

OneEach == \A i, j \in DOMAIN msgs : msgs[i].handle = msgs[j].handle => i = j

LEMMA MessageSaid ==
  ASSUME CurlTypeOK, NEW h \in Handles, NEW outcome \in Outcomes, Says(h, outcome)
  PROVE  /\ Ended' = Ended \cup {h}
         /\ Completed' \subseteq Completed \cup {h} /\ (outcome # "ok" => Completed' = Completed)
         /\ OneEach /\ h \notin Ended => OneEach'
<1> DEFINE Message == [handle : Handles, outcome : Outcomes]
           e == [handle |-> h, outcome |-> outcome]
           n == Len(msgs)
<1>1. msgs \in Seq(Message) /\ e \in Message /\ msgs' = Append(msgs, e)
      /\ e.handle = h /\ e.outcome = outcome
  BY DEF CurlTypeOK, Says
<1> HIDE DEF Message, e
<1>2. n \in Nat /\ DOMAIN msgs = 1 .. n /\ DOMAIN msgs' = 1 .. n + 1
      /\ msgs'[n + 1] = e /\ \A i \in 1 .. n : msgs'[i] = msgs[i]
  BY <1>1
<1>3. (DOMAIN msgs)' = DOMAIN msgs \cup {n + 1} /\ n + 1 \notin DOMAIN msgs
  BY <1>2
<1> HIDE DEF n
<1>4. Ended' = Ended \cup {h}
  BY <1>1, <1>2, <1>3 DEF Ended
<1>5. Completed' \subseteq Completed \cup {h} /\ (outcome # "ok" => Completed' = Completed)
  BY <1>1, <1>2, <1>3 DEF Completed
<1>6. ASSUME OneEach, h \notin Ended
      PROVE  OneEach'
  <2>1. \A i \in DOMAIN msgs : msgs[i].handle # h
    BY <1>6 DEF Ended
  <2>. QED  BY <1>1, <1>2, <1>3, <1>6, <2>1 DEF OneEach
<1>. QED  BY <1>4, <1>5, <1>6

LEMMA MessageRead ==
  ASSUME CurlTypeOK, msgs # <<>>, msgs' = Tail(msgs)
  PROVE  /\ Head(msgs).handle \in Ended /\ Head(msgs).handle \in Handles
         /\ Head(msgs).outcome \in Outcomes
         /\ Head(msgs).outcome = "ok" => Head(msgs).handle \in Completed
         /\ Completed' \subseteq Completed
         /\ OneEach => OneEach' /\ Ended' \subseteq Ended \ {Head(msgs).handle}
<1> DEFINE Message == [handle : Handles, outcome : Outcomes]
           n == Len(msgs)
<1>1. msgs \in Seq(Message)
  BY DEF CurlTypeOK
<1>2. Head(msgs) \in [handle : Handles, outcome : Outcomes]
  BY FirstAndRest DEF CurlTypeOK
<1> HIDE DEF Message
<1>3. n \in Nat /\ n >= 1 /\ DOMAIN msgs = 1 .. n /\ Head(msgs) = msgs[1]
      /\ DOMAIN msgs' = 1 .. n - 1 /\ \A i \in 1 .. n - 1 : msgs'[i] = msgs[i + 1]
  BY <1>1
<1>4. 1 \in DOMAIN msgs /\ \A i \in DOMAIN msgs' : i + 1 \in DOMAIN msgs /\ msgs'[i] = msgs[i + 1]
                                                   /\ i \in Nat /\ i + 1 # 1
  BY <1>3
<1>5. Head(msgs).handle \in Ended /\ (Head(msgs).outcome = "ok" => Head(msgs).handle \in Completed)
  BY <1>3, <1>4 DEF Ended, Completed
<1>6. Completed' \subseteq Completed
  BY <1>4 DEF Completed
<1>7. ASSUME OneEach
      PROVE  OneEach'
  <2>1. ASSUME NEW i \in DOMAIN msgs', NEW j \in DOMAIN msgs', msgs'[i].handle = msgs'[j].handle
        PROVE  i = j
    <3>1. i + 1 = j + 1
      BY <1>4, <1>7, <2>1 DEF OneEach
    <3>. QED  BY <1>4, <3>1
  <2>. QED  BY <2>1 DEF OneEach
<1>8. ASSUME OneEach
      PROVE  Ended' \subseteq Ended \ {Head(msgs).handle}
  <2>1. ASSUME NEW i \in DOMAIN msgs'
        PROVE  msgs'[i].handle \in Ended /\ msgs'[i].handle # Head(msgs).handle
    BY <1>3, <1>4, <1>8 DEF OneEach, Ended
  <2>. QED  BY <2>1 DEF Ended
<1>. QED  BY <1>2, <1>5, <1>6, <1>7, <1>8

LEMMA BeginTransfersDoes ==
  ASSUME NEW hs \in SUBSET Handles, NEW astray, BeginTransfers(hs, astray), NEW h \in Handles
  PROVE  /\ multi' = multi \cup hs
         /\ strayed \cup astray \subseteq strayed'
         /\ h \in hs \ multi => at'[h] = resumeFrom[h] /\ (page'[h] => ErrorPages /\ h \in strayed')
         /\ h \notin hs \ multi => at'[h] = at[h] /\ page'[h] = page[h]
         /\ stopped'[h] => stopped[h]
<1>1. PICK pages \in SUBSET (IF ErrorPages THEN hs \ multi ELSE {}) :
          /\ page' = [k \in Handles |-> IF k \in hs \ multi THEN k \in pages ELSE page[k]]
          /\ strayed' = strayed \cup astray \cup pages
  BY Zenon DEF BeginTransfers
<1>2. h \in hs \ multi => page'[h] = (h \in pages)
  BY <1>1, Zenon
<1>3. h \notin hs \ multi => page'[h] = page[h]
  BY <1>1, Zenon
<1>4. strayed \cup astray \subseteq strayed' /\ (h \in pages => h \in strayed')
  BY <1>1
<1>5. h \in pages => ErrorPages
  BY <1>1
<1>6. multi' = multi \cup hs /\ (stopped'[h] => stopped[h])
  BY DEF BeginTransfers
<1>7. /\ h \in hs \ multi => at'[h] = resumeFrom[h]
      /\ h \notin hs \ multi => at'[h] = at[h]
  BY DEF BeginTransfers
<1>. QED  BY <1>2, <1>3, <1>4, <1>5, <1>6, <1>7

(* The steps of the loop thread that begin, write to, end and delete.      *)
LEMMA BegunStraight ==
  ASSUME TypeOK, AllStraight, NEW hs \in SUBSET Handles, NEW astray, BeginTransfers(hs, astray),
         \/ mAddList' = {} /\ hs = mAddList
         \/ mAddList' = mAddList /\ \A h \in hs \ (multi \cup astray) : mEOS[h],
         UNCHANGED <<ring, mFilePos, mEOS, mStatus, resumeFrom, msgs, alive>>
  PROVE  AllStraight'
<1>1. ASSUME NEW h \in alive, h \notin strayed'
      PROVE  Straight(h)'
  <2>1. h \in Handles
    BY DEF TypeOK, ConnectionTypeOK
  <2>2. /\ multi' = multi \cup hs /\ h \notin astray /\ h \notin strayed
        /\ h \in hs \ multi => at'[h] = resumeFrom[h] /\ (page'[h] => h \in strayed')
        /\ h \notin hs \ multi => at'[h] = at[h] /\ page'[h] = page[h]
    BY <1>1, <2>1, BeginTransfersDoes
  <2>3. Straight(h)
    BY <2>2 DEF AllStraight
  <2>4. SameBuffer(h) /\ Completed' = Completed /\ Reached(h)' = Reached(h)
    BY DEF SameBuffer, Completed, Reached, Fill
  <2>5. Right(ring'[h], mFilePos'[h])
    BY <2>3, <2>4 DEF SameBuffer, Straight
  <2>6. CASE h \notin hs \ multi
    <3>1. SameTransfer(h)
      BY <2>2, <2>4, <2>6 DEF SameTransfer
    <3>. QED  BY <2>3, <2>4, <3>1, StraightUndisturbed
  <2>7. CASE h \in hs \ multi
    <3>1. h \in mAddList \/ mEOS[h]
      BY <2>2, <2>7
    <3>2. at'[h] = Reached(h)' \/ Reached(h)' >= FileSize
      BY <2>2, <2>3, <2>4, <2>7, <3>1 DEF Straight
    <3>3. mStatus[h] = "ok"
      BY <2>3, <3>1 DEF Straight
    <3>4. h \notin mAddList'
      BY <2>2, <2>3, <2>7 DEF Straight
    <3>. QED  BY <1>1, <2>2, <2>3, <2>4, <2>5, <2>7, <3>2, <3>3, <3>4 DEF Straight
  <2>. QED  BY <2>6, <2>7
<1>. QED  BY <1>1 DEF AllStraight

LEMMA WrittenStraight ==
  ASSUME TypeOK, Owned, LoopPlaces, AllStraight, Messages, LWrite
  PROVE  AllStraight'
<1>1. /\ lh \in Handles /\ lh \in multi /\ lh \in alive
      /\ UNCHANGED <<alive, mFilePos, mEOS, mStatus, multi, resumeFrom, page, msgs, mAddList, strayed>>
  BY DEF LWrite, Messages, TypeOK, CurlTypeOK, Owned, FreedIsForgotten, listVars, history
<1>2. ring \in [Handles -> Window] /\ at \in [Handles -> Nat] /\ mFilePos \in [Handles -> Nat]
  BY DEF TypeOK, ConnectionTypeOK, CurlTypeOK
<1>3. Completed' = Completed
  BY <1>1 DEF Completed
<1>4. ASSUME NEW h \in alive, h \notin strayed
      PROVE  Straight(h)'
  <2>1. h \in Handles /\ Straight(h)
    BY <1>4 DEF TypeOK, ConnectionTypeOK, AllStraight
  <2>2. PICK amount \in 1 .. AtMost(READ_BUFFER_SIZE, End(lh) - at[lh]) :
          \/ UNCHANGED <<ring, at>>
          \/ /\ ring' = [ring EXCEPT ![lh] = AfterWrite(ring[lh],
                    [i \in 1 .. amount |-> IF page[lh] THEN PageByte ELSE at[lh] + i - 1])]
             /\ at' = [at EXCEPT ![lh] = at[lh] + amount]
    BY DEF LWrite
  <2>3. CASE UNCHANGED <<ring, at>> \/ h # lh
    <3>1. ring'[h] = ring[h] /\ at'[h] = at[h]
      BY <1>1, <1>2, <2>1, <2>2, <2>3
    <3>2. SameBuffer(h) /\ SameTransfer(h)
      BY <1>1, <1>3, <3>1 DEF SameBuffer, SameTransfer
    <3>. QED  BY <2>1, <3>2, StraightUndisturbed
  <2>4. ASSUME h = lh,
               ring' = [ring EXCEPT ![lh] = AfterWrite(ring[lh],
                    [i \in 1 .. amount |-> IF page[lh] THEN PageByte ELSE at[lh] + i - 1])],
               at' = [at EXCEPT ![lh] = at[lh] + amount]
        PROVE  Straight(h)'
    <3> DEFINE bytes == [i \in 1 .. amount |-> at[h] + i - 1]
               w == ring[h]
               r == Reached(h)
    <3>1. ~page[h] /\ (at[h] = r \/ r >= FileSize)
      BY <1>1, <2>1, <2>4 DEF Straight
    <3>2. amount \in Nat /\ at[h] \in Nat /\ FileSize \in Nat
      <4>1. amount \in Int /\ amount >= 1
        OBVIOUS
      <4>. QED  BY <1>2, <2>1, <4>1, CurlAssumption
    <3>3. \A i \in 1 .. amount : bytes[i] \in Byte
      BY <3>2 DEF Byte
    <3>4. bytes \in Seq(Byte) /\ Len(bytes) = amount /\ \A i \in 1 .. amount : bytes[i] = at[h] + i - 1
      BY <3>2, <3>3
    <3>5. [i \in 1 .. amount |-> IF page[h] THEN PageByte ELSE at[h] + i - 1] = bytes
      BY <3>1
    <3> HIDE DEF bytes
    <3>6. ring'[h] = AfterWrite(w, bytes) /\ at'[h] = at[h] + amount
      BY <1>2, <2>1, <2>4, <3>5
    <3>7. w \in Window /\ w.unread \in Seq(Byte) /\ Len(w.unread) \in Nat /\ mFilePos[h] \in Int
          /\ r = mFilePos[h] + Len(w.unread) /\ r \in Int
      BY <1>2, <2>1 DEF Window, Byte, Reached, Fill
    <3> HIDE DEF r
    <3>8. Located(bytes, mFilePos[h] + Len(w.unread))
      BY <3>1, <3>2, <3>4, <3>7 DEF Located
    <3>9. Right(w, mFilePos[h])
      BY <2>1 DEF Straight
    <3> HIDE DEF w
    <3>10. Right(AfterWrite(w, bytes), mFilePos[h])
      BY <3>4, <3>7, <3>8, <3>9, RightWritten
    <3>11. Len(AfterWrite(w, bytes).unread) = Len(w.unread) + amount
      <4>1. Len(w.unread \o bytes) = Len(w.unread) + Len(bytes)
        BY <3>4, <3>7, Concatenation
      <4>. QED  BY <3>4, <4>1 DEF AfterWrite
    <3>12. Reached(h)' = r + amount
      <4>1. Reached(h)' = mFilePos[h] + (Len(w.unread) + amount)
        BY <1>1, <3>6, <3>11 DEF Reached, Fill
      <4>. QED  BY <3>2, <3>7, <4>1
    <3>13. (r >= FileSize => Reached(h)' >= FileSize) /\ (at[h] = r => at'[h] = Reached(h)')
      BY <3>2, <3>6, <3>7, <3>12
    <3>14. Straight(h) /\ r = Reached(h)
      BY <2>1 DEF r
    <3>15. h \notin mAddList /\ mStatus[h] = "ok"
      BY <1>1, <2>4, <3>14 DEF Straight
    <3>. QED  BY <1>1, <1>3, <2>4, <3>1, <3>6, <3>10, <3>13, <3>14, <3>15 DEF Straight
  <2>. QED  BY <2>2, <2>3, <2>4
<1>. QED  BY <1>1, <1>4 DEF AllStraight

LEMMA InfoStraight ==
  ASSUME TypeOK, Owned, AllStraight, Messages, LInfo
  PROVE  AllStraight'
<1>1. UNCHANGED <<alive, ring, mFilePos, resumeFrom, at, page, mAddList>>
  BY DEF LInfo, listVars
<1>2. mEOS \in [Handles -> BOOLEAN] /\ mStatus \in [Handles -> Outcomes] /\ CurlTypeOK
      /\ alive \subseteq Handles
  BY DEF TypeOK, ConnectionTypeOK
<1>3. CASE msgs = <<>>
  <2>1. UNCHANGED <<mEOS, mStatus, multi, msgs, strayed>>
    BY <1>3 DEF LInfo
  <2>2. \A h \in alive : SameBuffer(h) /\ SameTransfer(h)
    BY <1>1, <2>1 DEF SameBuffer, SameTransfer, Completed
  <2>. QED  BY <1>1, <2>1, <2>2, StraightUndisturbed DEF AllStraight
<1>4. CASE msgs # <<>>
  <2> DEFINE k == Head(msgs).handle
             o == Head(msgs).outcome
  <2>1. /\ eof' = (eof \/ o = "ok") /\ mEOS' = [mEOS EXCEPT ![k] = eof']
        /\ mStatus' = [mStatus EXCEPT ![k] = o] /\ multi' = multi \ {k} /\ msgs' = Tail(msgs)
        /\ strayed' = IF eof' /\ o # "ok" THEN strayed \cup {k} ELSE strayed
    BY <1>4 DEF LInfo
  <2>2. k \in Ended /\ k \in Handles /\ (o = "ok" => k \in Completed) /\ Completed' \subseteq Completed
    BY <1>2, <1>4, <2>1, MessageRead
  <2>3. k \in multi
    BY <2>2 DEF Messages
  <2> HIDE DEF k, o
  <2>4. ASSUME NEW h \in alive, h \notin strayed'
        PROVE  Straight(h)'
    <3>1. h \in Handles /\ h \notin strayed /\ Straight(h)
      BY <1>2, <2>1, <2>4 DEF AllStraight
    <3>2. SameBuffer(h) /\ Reached(h)' = Reached(h)
      BY <1>1 DEF SameBuffer, Reached, Fill
    <3>3. CASE h # k
      <4>1. SameTransfer(h)
        BY <1>1, <1>2, <2>1, <2>2, <3>1, <3>3 DEF SameTransfer
      <4>. QED  BY <3>1, <3>2, <4>1, StraightUndisturbed
    <3>4. CASE h = k
      <4>1. mEOS'[h] = eof' /\ mStatus'[h] = o /\ h \notin multi'
        BY <1>2, <2>1, <2>2, <3>4
      <4>2. h \notin mAddList
        BY <2>3, <3>1, <3>4 DEF Straight
      <4>3. mEOS'[h] => o = "ok"
        BY <2>1, <2>4, <3>4, <4>1
      <4>4. mEOS'[h] \/ h \in Completed' => Reached(h)' >= FileSize
        BY <2>2, <3>1, <3>2, <3>4, <4>3 DEF Straight
      <4>5. Right(ring'[h], mFilePos'[h])
        BY <3>1, <3>2 DEF SameBuffer, Straight
      <4>. QED  BY <1>1, <4>1, <4>2, <4>3, <4>4, <4>5 DEF Straight
    <3>. QED  BY <3>3, <3>4
  <2>. QED  BY <1>1, <2>4 DEF AllStraight
<1>. QED  BY <1>3, <1>4

LEMMA StraightStep ==
  TypeOK /\ Owned /\ LoopPlaces /\ AllStraight /\ Retrying /\ Messages /\ [Next]_vars => AllStraight'
<1> SUFFICES ASSUME TypeOK, Owned, LoopPlaces, AllStraight, Retrying, Messages, [Next]_vars
             PROVE  AllStraight'
  OBVIOUS
<1>1. ASSUME UNCHANGED <<ring, mFilePos, mEOS, mStatus, at, page, resumeFrom, multi, mAddList, alive, strayed>>,
             \A h \in alive \ strayed : h \in Completed' => h \in Completed
      PROVE  AllStraight'
  <2>1. \A h \in alive \ strayed : SameBuffer(h) /\ SameTransfer(h) /\ Straight(h)
    BY <1>1 DEF SameBuffer, SameTransfer, AllStraight
  <2>. QED  BY <1>1, <2>1, StraightUndisturbed DEF AllStraight
<1>2. ASSUME UNCHANGED <<ring, mFilePos, mEOS, mStatus, at, page, resumeFrom, multi, mAddList, alive, strayed>>,
             UNCHANGED msgs
      PROVE  AllStraight'
  BY <1>1, <1>2 DEF Completed
<1>3. ASSUME NEW s \in Sources, ReaderCall(s) \/ ReaderStep(s)
      PROVE  AllStraight'
  BY <1>3, ReaderStraight
<1>4. CASE (\E s \in Sources, interrupt \in BOOLEAN : Interrupt(s, interrupt)) \/ OnReconnect
  BY <1>2, <1>4 DEF Interrupt, OnReconnect, connVars, curlVars, listVars, history
<1>5. CASE LApplyAdd
  <2>1. BeginTransfers(mAddList, {}) /\ mAddList' = {} /\ mAddList \in SUBSET Handles
        /\ UNCHANGED <<ring, mFilePos, mEOS, mStatus, resumeFrom, msgs, alive>>
    BY <1>5 DEF LApplyAdd, connVars, TypeOK, LoopTypeOK
  <2>. QED  BY <2>1, BegunStraight
<1>6. CASE LResume \/ LEnd
  BY <1>2, <1>6 DEF LResume, LEnd, connVars, curlVars, listVars, history
<1>7. CASE LResuming
  <2>1. UNCHANGED <<ring, mFilePos, mEOS, mStatus, resumeFrom, msgs, alive, mAddList>>
    BY <1>7 DEF LResuming, connVars, listVars
  <2>2. CASE UNCHANGED <<multi, at, page, strayed>>
    BY <1>2, <2>1, <2>2
  <2>3. ASSUME NEW h \in batch, BeginTransfers({h}, IF mEOS[h] THEN {} ELSE {h})
        PROVE  AllStraight'
    <3> DEFINE astray == IF mEOS[h] THEN {} ELSE {h}
    <3>1. {h} \in SUBSET Handles /\ \A k \in {h} \ (multi \cup astray) : mEOS[k]
      BY DEF TypeOK, LoopTypeOK
    <3>2. BeginTransfers({h}, astray)
      BY <2>3
    <3> HIDE DEF astray
    <3>. QED  BY <2>1, <3>1, <3>2, BegunStraight
  <2>. QED  BY <1>7, <2>2, <2>3 DEF LResuming
<1>8. CASE LApplyDelete
  <2>1. /\ ring' = Forget(ring, EmptyWindow) /\ mFilePos' = Forget(mFilePos, 0)
        /\ mEOS' = Forget(mEOS, FALSE) /\ mStatus' = Forget(mStatus, "ok")
        /\ resumeFrom' = Forget(resumeFrom, 0) /\ at' = Forget(at, 0) /\ page' = Forget(page, FALSE)
        /\ multi' = multi \ mDeleteList /\ alive' = alive \ mDeleteList
        /\ UNCHANGED <<msgs, mAddList, strayed>>
    BY <1>8 DEF LApplyDelete, history
  <2>2. \A h \in alive' : h \in Handles /\ h \notin mDeleteList /\ h \in alive
    BY <2>1 DEF TypeOK, ConnectionTypeOK
  <2>3. \A h \in alive' \ strayed' : SameBuffer(h) /\ SameTransfer(h) /\ Straight(h)
    BY <2>1, <2>2 DEF Forget, SameBuffer, SameTransfer, Completed, AllStraight
  <2>. QED  BY <2>3, StraightUndisturbed DEF AllStraight
<1>9. CASE LWrite
  BY <1>9, WrittenStraight
<1>10. CASE LInfo
  BY <1>10, InfoStraight
<1>11. ASSUME NEW h \in Handles, Transfer(h) \/ (\E outcome \in Outcomes : LFail(h, outcome))
       PROVE  AllStraight'
  <2>1. CASE LData(h) \/ LProgress(h)
    BY <1>2, <2>1 DEF LData, LProgress, connVars, curlVars, listVars, history
  <2>2. CASE LDone(h)
    <3>1. Says(h, "ok") /\ h \in multi /\ at[h] >= End(h)
          /\ UNCHANGED <<ring, mFilePos, mEOS, mStatus, at, page, resumeFrom, multi, mAddList, alive, strayed>>
      BY <2>2 DEF LDone, Moving, connVars, listVars, history
    <3>2. Completed' \subseteq Completed \cup {h}
      BY <3>1, MessageSaid DEF Outcomes, TypeOK
    <3>3. ASSUME h \in alive \ strayed
          PROVE  Straight(h)'
      <4>1. Straight(h)
        BY <3>3 DEF AllStraight
      <4>2. Reached(h) >= FileSize
        BY <3>1, <4>1 DEF Straight, End
      <4>3. Reached(h)' = Reached(h) /\ Right(ring'[h], mFilePos'[h])
        BY <3>1, <4>1 DEF Reached, Fill, Straight
      <4>. QED  BY <3>1, <4>1, <4>2, <4>3 DEF Straight
    <3>4. ASSUME NEW k \in alive \ strayed, k # h
          PROVE  Straight(k)'
      <4>1. SameBuffer(k) /\ SameTransfer(k) /\ Straight(k)
        BY <3>1, <3>2, <3>4 DEF SameBuffer, SameTransfer, AllStraight
      <4>. QED  BY <4>1, StraightUndisturbed
    <3>. QED  BY <3>1, <3>3, <3>4 DEF AllStraight
  <2>3. ASSUME NEW outcome \in Outcomes, LFail(h, outcome)
        PROVE  AllStraight'
    <3>1. Says(h, outcome) /\ outcome # "ok"
          /\ UNCHANGED <<ring, mFilePos, mEOS, mStatus, at, page, resumeFrom, multi, mAddList, alive, strayed>>
      BY <2>3 DEF LFail, connVars, listVars
    <3>2. Completed' = Completed
      BY <3>1, MessageSaid DEF TypeOK
    <3>. QED  BY <1>1, <3>1, <3>2
  <2>. QED  BY <1>11, <2>1, <2>2, <2>3 DEF Transfer
<1>12. CASE UNCHANGED vars
  BY <1>2, <1>12 DEF vars, connVars, curlVars, listVars, history
<1>. QED  BY <1>3, <1>4, <1>5, <1>6, <1>7, <1>8, <1>9, <1>10, <1>11, <1>12 DEF Next, LoopStep

LEMMA MessagesStep == TypeOK /\ Messages /\ [Next]_vars => Messages'
<1> SUFFICES ASSUME TypeOK, Messages, [Next]_vars
             PROVE  Messages'
  OBVIOUS
<1>1. stopped \in [Handles -> BOOLEAN] /\ multi \subseteq Handles /\ CurlTypeOK
      /\ back \in {"resuming", "perform"} /\ mAddList \subseteq Handles /\ batch \subseteq Handles
  BY DEF TypeOK, CurlTypeOK, LoopTypeOK
<1>2. CASE UNCHANGED <<multi, stopped, msgs, lpc, back, lh>>
  BY <1>2 DEF Messages, Ended
<1>3. ASSUME msgs = <<>>, UNCHANGED msgs, \A h \in Handles : stopped'[h] => h \in multi',
             lpc' = "write" => lh' \in multi'
      PROVE  Messages'
  <2>1. DOMAIN msgs = {} /\ DOMAIN msgs' = {}
    BY <1>3
  <2>. QED  BY <1>3, <2>1 DEF Messages, Ended
<1>4. ASSUME NEW s \in Sources, ReaderCall(s) \/ ReaderStep(s)
      PROVE  Messages'
  BY <1>2, <1>4, ReaderLeaves
<1>5. CASE (\E s \in Sources, interrupt \in BOOLEAN : Interrupt(s, interrupt)) \/ OnReconnect
  BY <1>2, <1>5 DEF Interrupt, OnReconnect, curlVars, loopVars
<1>6. CASE LApplyAdd
  <2>1. lpc = "add" /\ lpc' = "resume" /\ BeginTransfers(mAddList, {}) /\ UNCHANGED msgs
    BY <1>6 DEF LApplyAdd
  <2>2. msgs = <<>>
    BY <2>1 DEF Messages
  <2>3. \A h \in Handles : stopped'[h] => h \in multi'
    BY <1>1, <2>1, BeginTransfersDoes DEF Messages
  <2>. QED  BY <1>3, <2>1, <2>2, <2>3
<1>7. CASE LResume
  <2>1. lpc = "resume" /\ lpc' = "resuming" /\ UNCHANGED <<multi, stopped, msgs>>
    BY <1>7 DEF LResume, curlVars
  <2>. QED  BY <1>3, <2>1 DEF Messages
<1>8. CASE LResuming
  <2>1. lpc = "resuming" /\ msgs = <<>> /\ UNCHANGED msgs
    BY <1>8 DEF LResuming, Messages
  <2>2. CASE lpc' = "delete" /\ UNCHANGED <<multi, stopped>>
    BY <1>3, <2>1, <2>2 DEF Messages
  <2>3. ASSUME NEW h \in batch, NEW astray, BeginTransfers({h}, astray), UNCHANGED lpc
        PROVE  Messages'
    <3>1. {h} \in SUBSET Handles
      BY <1>1
    <3>2. \A k \in Handles : stopped'[k] => k \in multi'
      BY <2>3, <3>1, BeginTransfersDoes DEF Messages
    <3>. QED  BY <1>3, <2>1, <2>3, <3>2
  <2>4. ASSUME NEW h \in batch, Continue(h, "resuming"), UNCHANGED multi
        PROVE  Messages'
    <3>1. h \in Handles
      BY <1>1
    <3>2. \A k \in Handles : stopped'[k] => k \in multi'
      BY <1>1, <2>4 DEF Continue, Messages
    <3>3. lpc' = "write" => lh' \in multi'
      BY <2>4, <3>1 DEF Continue, Messages
    <3>. QED  BY <1>3, <2>1, <3>2, <3>3
  <2>. QED  BY <1>8, <2>2, <2>3, <2>4 DEF LResuming
<1>9. CASE LApplyDelete
  <2>1. lpc = "delete" /\ lpc' = "perform" /\ multi' = multi \ mDeleteList
        /\ stopped' = Forget(stopped, FALSE) /\ UNCHANGED msgs
    BY <1>9 DEF LApplyDelete
  <2>2. msgs = <<>>
    BY <2>1 DEF Messages
  <2>3. \A h \in Handles : stopped'[h] => h \in multi'
    BY <1>1, <2>1 DEF Forget, Messages
  <2>. QED  BY <1>3, <2>1, <2>2, <2>3
<1>10. CASE LWrite
  <2>1. lpc = "write" /\ lpc' = back /\ UNCHANGED <<multi, msgs, back>>
        /\ (UNCHANGED stopped \/ stopped' = [stopped EXCEPT ![lh] = TRUE])
    BY <1>10 DEF LWrite
  <2>2. lh \in multi
    BY <2>1 DEF Messages
  <2>3. \A h \in Handles : stopped'[h] => h \in multi'
    BY <1>1, <2>1, <2>2 DEF Messages
  <2>. QED  BY <1>1, <2>1, <2>3 DEF Messages, Ended
<1>11. CASE LEnd
  <2>1. lpc = "perform" /\ lpc' = "info" /\ UNCHANGED <<multi, stopped, msgs>>
    BY <1>11 DEF LEnd, curlVars
  <2>. QED  BY <2>1 DEF Messages, Ended
<1>12. CASE LInfo
  <2>1. CASE msgs = <<>>
    BY <1>3, <1>12, <2>1 DEF LInfo, Messages
  <2>2. CASE msgs # <<>>
    <3>1. /\ multi' = multi \ {Head(msgs).handle} /\ msgs' = Tail(msgs)
          /\ stopped' = [stopped EXCEPT ![Head(msgs).handle] = FALSE] /\ lpc = "info" /\ UNCHANGED lpc
      BY <1>12, <2>2 DEF LInfo
    <3>2. OneEach' /\ Ended' \subseteq Ended \ {Head(msgs).handle}
      BY <1>1, <2>2, <3>1, MessageRead DEF Messages, OneEach
    <3>3. \A h \in Handles : stopped'[h] => h \in multi'
      BY <1>1, <3>1 DEF Messages
    <3>. QED  BY <3>1, <3>2, <3>3 DEF Messages, OneEach
  <2>. QED  BY <2>1, <2>2
<1>13. ASSUME NEW h \in Handles, Transfer(h) \/ (\E outcome \in Outcomes : LFail(h, outcome))
       PROVE  Messages'
  <2>1. CASE LData(h)
    <3>1. lpc' = "write" /\ back' = "perform" /\ lh' = h /\ h \in multi
          /\ UNCHANGED <<multi, stopped, msgs>>
      BY <2>1 DEF LData, Moving, curlVars
    <3>. QED  BY <3>1 DEF Messages, Ended
  <2>2. CASE LProgress(h)
    <3>1. h \in multi /\ Continue(h, "perform") /\ UNCHANGED <<multi, msgs>>
      BY <2>2 DEF LProgress
    <3>2. \A k \in Handles : stopped'[k] => k \in multi'
      BY <1>1, <3>1 DEF Continue, Messages
    <3>3. lpc' = "perform" \/ (lpc' = "write" /\ back' = "perform" /\ lh' = h)
      BY <3>1 DEF Continue
    <3>. QED  BY <3>1, <3>2, <3>3 DEF Messages, Ended
  <2>3. ASSUME NEW outcome \in Outcomes, Says(h, outcome), h \in Moving, lpc = "perform",
               UNCHANGED <<multi, stopped, lpc>>
        PROVE  Messages'
    <3>1. h \in multi /\ h \notin Ended
      BY <2>3 DEF Moving
    <3>2. Ended' = Ended \cup {h} /\ OneEach'
      BY <1>1, <2>3, <3>1, MessageSaid DEF Messages, OneEach
    <3>. QED  BY <2>3, <3>1, <3>2 DEF Messages, OneEach
  <2>4. CASE LDone(h)
    BY <2>3, <2>4 DEF LDone, Outcomes, loopVars
  <2>5. ASSUME NEW outcome \in Outcomes, LFail(h, outcome)
        PROVE  Messages'
    BY <2>3, <2>5 DEF LFail, loopVars
  <2>. QED  BY <1>13, <2>1, <2>2, <2>4, <2>5 DEF Transfer
<1>14. CASE UNCHANGED vars
  BY <1>2, <1>14 DEF vars, curlVars, loopVars
<1>. QED  BY <1>4, <1>5, <1>6, <1>7, <1>8, <1>9, <1>10, <1>11, <1>12, <1>13, <1>14
          DEF Next, LoopStep

-----------------------------------------------------------------------------
(* Readers that retry                                                      *)

LEMMA ToldByOthersOnly ==
  ASSUME NEW s \in Sources, ReaderCall(s) \/ ReaderStep(s)
  PROVE  UNCHANGED mNeedReconnect \/ mNeedReconnect' = [mNeedReconnect EXCEPT ![s] = FALSE]
<1>1. CASE ReaderCall(s)
  BY <1>1 DEF ReaderCall, Open, Close, Read, SeekCall, SeekPastEnd, SeekReconnecting, SeekInBuffer,
              SeekNear, SeekFar, sourceVars
<1>2. CASE ReaderStep(s)
  BY <1>2 DEF ReaderStep, Replace, Connect, FillCheck, FillEos, FillPause, FillResume, FillStatus,
              Retry, Again, Opened, SeekConnected, SeekNearEnds, ReadFilled, ReadReconnected, Take,
              sourceVars
<1>. QED  BY <1>1, <1>2

(* The other variables of another reader.                                  *)
LEMMA OthersVariables ==
  ASSUME TypeOK, NEW s \in Sources, ReaderCall(s) \/ ReaderStep(s), NEW t \in Sources, t # s
  PROVE  /\ want'[t] = want[t] /\ size'[t] = size[t] /\ seen'[t] = seen[t] /\ ret'[t] = ret[t]
         /\ result'[t] = result[t] /\ mFileSize'[t] = mFileSize[t]
         /\ mNeedReconnect'[t] = mNeedReconnect[t]
<1>1. /\ want \in [Sources -> Nat] /\ size \in [Sources -> Nat] /\ seen \in [Sources -> Outcomes]
      /\ ret \in [Sources -> {"ok", "exit", "error"}]
      /\ result \in [Sources -> {"none", "ok", "eos", "exit", "error"}]
      /\ mFileSize \in [Sources -> Nat] /\ mNeedReconnect \in [Sources -> BOOLEAN]
  BY DEF TypeOK, SourceTypeOK, ReaderTypeOK
<1>2. UNCHANGED want \/ \E n : want' = [want EXCEPT ![s] = n]
  <2>1. CASE ReaderCall(s)
    BY <2>1 DEF ReaderCall, Open, Close, Read, SeekCall, SeekPastEnd, SeekReconnecting, SeekInBuffer,
                SeekNear, SeekFar
  <2>2. CASE ReaderStep(s)
    BY <2>2 DEF ReaderStep, Replace, Connect, FillCheck, FillEos, FillPause, FillResume, FillStatus,
                Retry, Again, Opened, SeekConnected, SeekNearEnds, ReadFilled, ReadReconnected, Take
  <2>. QED  BY <2>1, <2>2
<1>3. UNCHANGED size \/ \E n : size' = [size EXCEPT ![s] = n]
  <2>1. CASE ReaderCall(s)
    BY <2>1 DEF ReaderCall, Open, Close, Read, SeekCall, SeekPastEnd, SeekReconnecting, SeekInBuffer,
                SeekNear, SeekFar
  <2>2. CASE ReaderStep(s)
    BY <2>2 DEF ReaderStep, Replace, Connect, FillCheck, FillEos, FillPause, FillResume, FillStatus,
                Retry, Again, Opened, SeekConnected, SeekNearEnds, ReadFilled, ReadReconnected, Take
  <2>. QED  BY <2>1, <2>2
<1>4. UNCHANGED seen \/ \E o : seen' = [seen EXCEPT ![s] = o]
  <2>1. CASE ReaderCall(s)
    BY <2>1 DEF ReaderCall, Open, Close, Read, SeekCall, SeekPastEnd, SeekReconnecting, SeekInBuffer,
                SeekNear, SeekFar
  <2>2. CASE ReaderStep(s)
    BY <2>2 DEF ReaderStep, Replace, Connect, FillCheck, FillEos, FillPause, FillResume, FillStatus,
                Retry, Again, Opened, SeekConnected, SeekNearEnds, ReadFilled, ReadReconnected, Take
  <2>. QED  BY <2>1, <2>2
<1>5. UNCHANGED ret \/ \E what : ret' = [ret EXCEPT ![s] = what]
  <2>1. CASE ReaderCall(s)
    BY <2>1 DEF ReaderCall, Open, Close, Read, SeekCall, SeekPastEnd, SeekReconnecting, SeekInBuffer,
                SeekNear, SeekFar
  <2>2. CASE ReaderStep(s)
    BY <2>2 DEF ReaderStep, Replace, Connect, FillCheck, FillEos, FillPause, FillResume, FillStatus,
                Retry, Again, Opened, SeekConnected, SeekNearEnds, ReadFilled, ReadReconnected, Take,
                FillReturns
  <2>. QED  BY <2>1, <2>2
<1>6. UNCHANGED result \/ \E what : result' = [result EXCEPT ![s] = what]
  <2>1. CASE ReaderCall(s)
    BY <2>1 DEF ReaderCall, Open, Close, Read, Returns, SeekCall, SeekPastEnd, SeekReconnecting,
                SeekInBuffer, SeekNear, SeekFar
  <2>2. CASE Replace(s) \/ Connect(s) \/ FillCheck(s) \/ FillEos(s) \/ FillPause(s) \/ FillResume(s)
             \/ FillStatus(s) \/ Retry(s) \/ Again(s)
    BY <2>2 DEF Replace, Connect, FillCheck, FillEos, FillPause, FillResume, FillStatus, Retry, Again
  <2>3. CASE SeekConnected(s) \/ SeekNearEnds(s) \/ ReadFilled(s) \/ ReadReconnected(s) \/ Take(s)
    BY <2>3 DEF SeekConnected, SeekNearEnds, ReadFilled, ReadReconnected, Take, Returns
  <2>4. CASE Opened(s)
    BY <2>4 DEF Opened
  <2>. QED  BY <2>1, <2>2, <2>3, <2>4 DEF ReaderStep
<1>7. UNCHANGED mFileSize \/ \E n : mFileSize' = [mFileSize EXCEPT ![s] = n]
  <2>1. CASE ReaderCall(s)
    BY <2>1 DEF ReaderCall, Open, Close, Read, SeekCall, SeekPastEnd, SeekReconnecting, SeekInBuffer,
                SeekNear, SeekFar, sourceVars
  <2>2. CASE Replace(s) \/ Connect(s) \/ FillCheck(s) \/ FillEos(s) \/ FillPause(s) \/ FillResume(s)
             \/ FillStatus(s) \/ Retry(s) \/ Again(s) \/ SeekNearEnds(s) \/ ReadFilled(s) \/ Take(s)
    BY <2>2 DEF Replace, Connect, FillCheck, FillEos, FillPause, FillResume, FillStatus, Retry, Again,
                SeekNearEnds, ReadFilled, Take, sourceVars
  <2>3. CASE Opened(s) \/ SeekConnected(s) \/ ReadReconnected(s)
    <3>1. Measure(s)
      BY <2>3 DEF Opened, SeekConnected, ReadReconnected
    <3>. QED  BY <3>1 DEF Measure
  <2>. QED  BY <2>1, <2>2, <2>3 DEF ReaderStep
<1>8. UNCHANGED mNeedReconnect \/ mNeedReconnect' = [mNeedReconnect EXCEPT ![s] = FALSE]
  BY ToldByOthersOnly
<1>. QED  BY <1>1, <1>2, <1>3, <1>4, <1>5, <1>6, <1>7, <1>8

(* A connection that has no transfer and has not come to its end is left   *)
(* alone by all but its reader, if it is not led astray.                   *)
LeftAlone(h) ==
    h \notin strayed' =>
        /\ h \notin strayed
        /\ h \notin multi \cup mAddList /\ ~mEOS[h] =>
              /\ h \notin multi' \cup mAddList'
              /\ ring'[h] = ring[h] /\ mEOS'[h] = mEOS[h] /\ mStatus'[h] = mStatus[h]

LEMMA LeftAloneByLoop ==
  ASSUME TypeOK, Messages, LoopStep, NEW h \in alive, h \notin mDeleteList
  PROVE  LeftAlone(h)
<1>1. /\ ring \in [Handles -> Window] /\ mEOS \in [Handles -> BOOLEAN]
      /\ mStatus \in [Handles -> Outcomes] /\ h \in Handles /\ CurlTypeOK
      /\ mAddList \subseteq Handles /\ batch \subseteq Handles
  BY DEF TypeOK, ConnectionTypeOK, CurlTypeOK, LoopTypeOK
<1>2. CASE LApplyAdd
  <2>1. BeginTransfers(mAddList, {}) /\ mAddList' = {} /\ UNCHANGED <<ring, mEOS, mStatus>>
    BY <1>2 DEF LApplyAdd, connVars
  <2>2. multi' = multi \cup mAddList /\ strayed \subseteq strayed'
    BY <1>1, <2>1, BeginTransfersDoes
  <2>. QED  BY <2>1, <2>2 DEF LeftAlone
<1>3. CASE LResuming
  <2>1. UNCHANGED <<ring, mEOS, mStatus, mAddList>>
    BY <1>3 DEF LResuming, connVars, listVars
  <2>2. CASE UNCHANGED <<multi, strayed>>
    BY <2>1, <2>2 DEF LeftAlone
  <2>3. ASSUME NEW k \in batch, BeginTransfers({k}, IF mEOS[k] THEN {} ELSE {k})
        PROVE  LeftAlone(h)
    <3> DEFINE astray == IF mEOS[k] THEN {} ELSE {k}
    <3>1. {k} \in SUBSET Handles /\ (~mEOS[k] => k \in astray) /\ BeginTransfers({k}, astray)
      BY <1>1, <2>3
    <3> HIDE DEF astray
    <3>2. multi' = multi \cup {k} /\ strayed \cup astray \subseteq strayed'
      BY <1>1, <3>1, BeginTransfersDoes
    <3>. QED  BY <2>1, <3>1, <3>2 DEF LeftAlone
  <2>. QED  BY <1>3, <2>2, <2>3 DEF LResuming
<1>4. CASE LApplyDelete
  <2>1. /\ multi' = multi \ mDeleteList /\ UNCHANGED <<mAddList, strayed>>
        /\ ring' = Forget(ring, EmptyWindow)
        /\ mEOS' = Forget(mEOS, FALSE) /\ mStatus' = Forget(mStatus, "ok")
    BY <1>4 DEF LApplyDelete, history
  <2>. QED  BY <1>1, <2>1 DEF LeftAlone, Forget
<1>5. CASE LWrite
  <2>1. lh \in multi /\ UNCHANGED <<multi, mAddList, mEOS, mStatus, strayed>>
    BY <1>5 DEF LWrite, Messages, listVars, history
  <2>2. UNCHANGED ring \/ \E w : ring' = [ring EXCEPT ![lh] = w]
    BY <1>5 DEF LWrite
  <2>. QED  BY <1>1, <2>1, <2>2 DEF LeftAlone
<1>6. CASE LInfo
  <2>1. UNCHANGED <<ring, mAddList>>
    BY <1>6 DEF LInfo, listVars
  <2>2. CASE UNCHANGED <<mEOS, mStatus, multi, strayed>>
    BY <2>1, <2>2 DEF LeftAlone
  <2>3. CASE msgs # <<>>
    <3> DEFINE k == Head(msgs).handle
    <3>1. /\ mEOS' = [mEOS EXCEPT ![k] = eof'] /\ mStatus' = [mStatus EXCEPT ![k] = Head(msgs).outcome]
          /\ multi' = multi \ {k} /\ strayed \subseteq strayed' /\ msgs' = Tail(msgs)
      BY <1>6, <2>3 DEF LInfo
    <3>2. k \in multi
      BY <1>1, <2>3, <3>1, MessageRead DEF Messages
    <3> HIDE DEF k
    <3>. QED  BY <1>1, <2>1, <3>1, <3>2 DEF LeftAlone
  <2>. QED  BY <1>6, <2>2, <2>3 DEF LInfo
<1>7. CASE LResume \/ LEnd
  BY <1>7 DEF LResume, LEnd, connVars, curlVars, listVars, history, LeftAlone
<1>. QED  BY <1>2, <1>3, <1>4, <1>5, <1>6, <1>7 DEF LoopStep

(* The reader that makes the step.                                         *)
LEMMA RetryingByReader ==
  ASSUME TypeOK, Owned, AllStraight, NEW s \in Sources, RetryingOf(s), ReaderCall(s) \/ ReaderStep(s)
  PROVE  RetryingOf(s)'
<1> DEFINE c == mPConnection[s]
           Within == {"fillEos", "fillPause", "fillResume", "fillStatus"}
<1>1. /\ rpc \in [Sources -> Filling \cup {"idle", "failed", "connect", "replace", "take"}]
      /\ seen \in [Sources -> Outcomes]
      /\ ring \in [Handles -> Window] /\ mEOS \in [Handles -> BOOLEAN]
      /\ mStatus \in [Handles -> Outcomes]
  BY DEF TypeOK, ReaderTypeOK, ConnectionTypeOK
<1>2. ASSUME NEW place, place \notin Within \cup {"retry", "again"}, Goto(s, place)
      PROVE  RetryingOf(s)'
  BY <1>1, <1>2 DEF Goto, RetryingOf
<1>3. CASE ReaderCall(s)
  <2>1. rpc'[s] \notin Within \cup {"retry", "again"}
    <3>1. CASE Open(s) \/ Close(s) \/ \E n \in ReadSizes : Read(s, n)
      BY <1>1, <3>1 DEF Open, Close, Read, Returns, Goto
    <3>2. CASE \E offset \in SeekTargets : SeekCall(s, offset)
      BY <1>1, <3>2 DEF SeekCall, SeekPastEnd, SeekReconnecting, SeekInBuffer, SeekNear, SeekFar,
                        CanSeek, Goto
    <3>. QED  BY <1>3, <3>1, <3>2 DEF ReaderCall
  <2>. QED  BY <2>1 DEF RetryingOf
<1>4. CASE Replace(s) \/ Connect(s) \/ Again(s) \/ Opened(s) \/ SeekConnected(s) \/ SeekNearEnds(s)
           \/ ReadFilled(s) \/ ReadReconnected(s) \/ Take(s)
  <2>1. rpc'[s] \notin Within \cup {"retry", "again"}
    BY <1>1, <1>4 DEF Replace, Connect, Again, Opened, SeekConnected, SeekNearEnds, ReadFilled,
                      ReadReconnected, Take, Returns, Goto
  <2>. QED  BY <2>1 DEF RetryingOf
<1>5. CASE FillCheck(s)
  <2>1. UNCHANGED <<mPConnection, mStatus>> /\ rpc[s] = "fill"
    BY <1>5 DEF FillCheck, sourceVars, connVars
  <2>2. CASE Goto(s, "filled")
    BY <1>2, <2>2
  <2>3. CASE Goto(s, "fillEos") /\ seen' = [seen EXCEPT ![s] = mStatus[c]]
    <3>1. rpc'[s] = "fillEos" /\ seen'[s] = mStatus[c]
      BY <1>1, <2>3 DEF Goto
    <3>. QED  BY <2>1, <3>1 DEF RetryingOf
  <2>. QED  BY <1>5, <2>2, <2>3 DEF FillCheck, FillReturns
<1>6. CASE FillEos(s) \/ FillPause(s) \/ FillResume(s)
  <2>1. rpc[s] \in Within /\ rpc[s] \in Filling
        /\ UNCHANGED <<mPConnection, mStatus, seen, strayed>>
    BY <1>6 DEF FillEos, FillPause, FillResume, sourceVars, connVars, history, Filling
  <2>2. rpc'[s] \in Within \cup {"filled"}
    BY <1>1, <1>6 DEF FillEos, FillPause, FillResume, FillReturns, Goto
  <2>. QED  BY <2>1, <2>2 DEF RetryingOf
<1>7. CASE FillStatus(s)
  <2>1. rpc[s] = "fillStatus" /\ UNCHANGED <<mPConnection, multi, mAddList, strayed>>
        /\ c \in Handles /\ c \in alive
    <3>1. rpc[s] = "fillStatus" /\ UNCHANGED <<mPConnection, multi, mAddList, strayed>>
      BY <1>7 DEF FillStatus, sourceVars, curlVars, listVars, history
    <3>. QED  BY <3>1, ReaderFacts DEF Owned, Ownership, Filling
  <2>2. CASE Goto(s, "fill") \/ Goto(s, "filled")
    BY <1>2, <2>2
  <2>3. CASE seen[s] = "retry" /\ Reset(c) /\ Goto(s, "retry")
    <3>1. rpc'[s] = "retry"
      BY <1>1, <2>3 DEF Goto
    <3>2. ring'[c] = EmptyWindow /\ ~mEOS'[c] /\ mStatus'[c] = "ok"
      BY <1>1, <2>1, <2>3 DEF Reset
    <3>3. c \notin strayed => c \notin multi \cup mAddList
      BY <2>1, <2>3 DEF RetryingOf, AllStraight, Straight, Filling
    <3>. QED  BY <2>1, <3>1, <3>2, <3>3 DEF RetryingOf
  <2>. QED  BY <1>7, <2>2, <2>3 DEF FillStatus, FillReturns
<1>8. CASE Retry(s)
  <2>1. rpc[s] = "retry" /\ UNCHANGED <<mPConnection, multi, mAddList, strayed, ring, mEOS, mStatus>>
    BY <1>8 DEF Retry, sourceVars, curlVars, listVars, history
  <2>2. rpc'[s] \in {"filled", "again"}
    BY <1>1, <1>8 DEF Retry, FillReturns, Goto
  <2>. QED  BY <2>1, <2>2 DEF RetryingOf, Filling
<1>. QED  BY <1>3, <1>4, <1>5, <1>6, <1>7, <1>8 DEF ReaderStep

LEMMA RetryingStep ==
  TypeOK /\ Owned /\ AllStraight /\ Retrying /\ Messages /\ [Next]_vars => Retrying'
<1> SUFFICES ASSUME TypeOK, Owned, AllStraight, Retrying, Messages, [Next]_vars
             PROVE  Retrying'
  OBVIOUS
<1>1. \A t \in Sources : rpc[t] \in Filling =>
        mPConnection[t] \in alive /\ mPConnection[t] \notin mDeleteList
  BY DEF Owned, Ownership
<1>2. ASSUME NEW t \in Sources, rpc'[t] = rpc[t], seen'[t] = seen[t], mPConnection'[t] = mPConnection[t],
             rpc[t] \in Filling => LeftAlone(mPConnection[t])
      PROVE  RetryingOf(t)'
  <2>1. CASE rpc[t] \notin Filling
    BY <1>2, <2>1 DEF RetryingOf
  <2>2. CASE rpc[t] \in Filling
    <3> DEFINE c == mPConnection[t]
    <3>1. RetryingOf(t) /\ c \in alive /\ LeftAlone(c)
      BY <1>1, <1>2, <2>2 DEF Retrying
    <3>2. ASSUME c \notin strayed', mStatus[c] = "retry"
          PROVE  mStatus'[c] = "retry"
      BY <3>1, <3>2 DEF LeftAlone, AllStraight, Straight
    <3>3. c \notin strayed' => c \notin strayed
      BY <3>1 DEF LeftAlone
    <3>4. c \notin strayed' /\ rpc[t] \in {"retry", "again"} =>
              /\ c \notin multi' \cup mAddList' /\ ~mEOS'[c] /\ mStatus'[c] = "ok"
              /\ ring'[c] = EmptyWindow
      BY <2>2, <3>1 DEF LeftAlone, RetryingOf
    <3>. QED  BY <1>2, <2>2, <3>1, <3>2, <3>3, <3>4 DEF RetryingOf
  <2>. QED  BY <2>1, <2>2
<1>3. ASSUME NEW s \in Sources, ReaderCall(s) \/ ReaderStep(s)
      PROVE  Retrying'
  <2>1. RetryingOf(s)'
    BY <1>3, RetryingByReader DEF Retrying
  <2>2. ASSUME NEW t \in Sources, t # s
        PROVE  RetryingOf(t)'
    <3>1. rpc'[t] = rpc[t] /\ seen'[t] = seen[t] /\ mPConnection'[t] = mPConnection[t]
      BY <1>3, <2>2, OthersUndisturbed, OthersVariables
    <3>2. ASSUME rpc[t] \in Filling
          PROVE  LeftAlone(mPConnection[t])
      <4>1. mPConnection[t] \in alive /\ mPConnection[t] # mPConnection[s]
        BY <2>2, <3>2 DEF Owned, Ownership
      <4>2. /\ SameBuffer(mPConnection[t]) /\ SameTransfer(mPConnection[t])
            /\ mPConnection[t] \in strayed' <=> mPConnection[t] \in strayed
        BY <1>3, <4>1, OthersConnections
      <4>. QED  BY <4>2 DEF SameBuffer, SameTransfer, LeftAlone
    <3>. QED  BY <1>2, <3>1, <3>2
  <2>. QED  BY <2>1, <2>2 DEF Retrying
<1>4. ASSUME UNCHANGED <<rpc, seen, mPConnection, strayed, multi, mAddList, ring, mEOS, mStatus>>
      PROVE  Retrying'
  BY <1>2, <1>4 DEF LeftAlone, Retrying
<1>5. CASE (\E s \in Sources, interrupt \in BOOLEAN : Interrupt(s, interrupt)) \/ OnReconnect
  BY <1>4, <1>5 DEF Interrupt, OnReconnect, readerVars, connVars, curlVars, listVars, history
<1>6. CASE LoopStep
  <2>1. UNCHANGED <<rpc, seen, mPConnection>>
    BY <1>6 DEF LoopStep, LApplyAdd, LResume, LResuming, LApplyDelete, LWrite, LEnd, LInfo,
                sourceVars, readerVars
  <2>2. \A t \in Sources : rpc[t] \in Filling => LeftAlone(mPConnection[t])
    BY <1>1, <1>6, LeftAloneByLoop
  <2>. QED  BY <1>2, <2>1, <2>2 DEF Retrying
<1>7. ASSUME NEW h \in Handles, Transfer(h) \/ (\E outcome \in Outcomes : LFail(h, outcome))
      PROVE  Retrying'
  BY <1>4, <1>7 DEF Transfer, LData, LDone, LProgress, LFail, sourceVars, readerVars, connVars,
                    curlVars, listVars, history
<1>8. CASE UNCHANGED vars
  BY <1>4, <1>8 DEF vars, sourceVars, readerVars, connVars, curlVars, listVars, history
<1>. QED  BY <1>3, <1>5, <1>6, <1>7, <1>8 DEF Next

-----------------------------------------------------------------------------
(* What is kept for seeks, and the size of the file                        *)

LEMMA KeptFitsStep == TypeOK /\ Owned /\ LoopPlaces /\ KeptFits /\ [Next]_vars => KeptFits'
<1> SUFFICES ASSUME TypeOK, Owned, LoopPlaces, KeptFits, [Next]_vars
             PROVE  KeptFits'
  OBVIOUS
<1>1. ring \in [Handles -> Window] /\ m_back_size \in Nat /\ ConnectionTypeOK
  BY WindowAssumption DEF TypeOK, ConnectionTypeOK
<1>2. CASE UNCHANGED ring
  BY <1>2 DEF KeptFits
<1>3. ASSUME NEW k \in Handles, ring' = [ring EXCEPT ![k] = EmptyWindow]
      PROVE  KeptFits'
  <2>1. Len(ring'[k].kept) = 0
    BY <1>1, <1>3 DEF EmptyWindow
  <2>. QED  BY <1>1, <1>3, <2>1 DEF KeptFits
<1>4. ASSUME NEW s \in Sources, ReaderCall(s) \/ ReaderStep(s)
      PROVE  KeptFits'
  <2>1. CASE Quiet(s)
    BY <1>2, <2>1, QuietLeaves
  <2>2. CASE MovesBytes(s)
    <3>1. mPConnection[s] \in Handles /\ \E w, p : MovesTo(mPConnection[s], w, p)
      BY <2>2, MovingMoves
    <3>2. PICK w, p : MovesTo(mPConnection[s], w, p)
      BY <3>1
    <3>3. w \in Window /\ (Len(w.kept) <= Len(ring[mPConnection[s]].kept) \/ Len(w.kept) <= m_back_size)
      BY <3>2 DEF MovesTo
    <3>4. Len(w.kept) <= m_back_size
      <4>1. Len(w.kept) \in Nat /\ Len(ring[mPConnection[s]].kept) \in Nat
        BY <1>1, <3>1, <3>3 DEF Window
      <4>. QED  BY <1>1, <3>1, <3>3, <4>1 DEF KeptFits
    <3>5. ring'[mPConnection[s]] = w
          /\ \A k \in Handles : k # mPConnection[s] => ring'[k] = ring[k]
      BY <1>1, <3>1, <3>2, MovedBuffer DEF SameBuffer
    <3>. QED  BY <3>4, <3>5 DEF KeptFits
  <2>3. CASE Connect(s)
    BY <1>3, <2>3 DEF Connect
  <2>4. CASE FillStatus(s)
    <3>1. mPConnection[s] \in Handles
      BY <2>4, ReaderFacts DEF Owned, FillStatus, Filling
    <3>. QED  BY <1>2, <1>3, <2>4, <3>1 DEF FillStatus, Reset
  <2>5. CASE Retry(s) \/ Again(s) \/ \E offset \in SeekTargets : SeekPastEnd(s, offset)
    BY <1>2, <2>5 DEF Retry, Again, SeekPastEnd, connVars
  <2>. QED  BY <1>4, <2>1, <2>2, <2>3, <2>4, <2>5, ReaderKinds
<1>5. CASE (\E s \in Sources, interrupt \in BOOLEAN : Interrupt(s, interrupt)) \/ OnReconnect
  BY <1>2, <1>5 DEF Interrupt, OnReconnect, connVars
<1>6. CASE LApplyAdd \/ LResume \/ LResuming \/ LEnd \/ LInfo
  BY <1>2, <1>6 DEF LApplyAdd, LResume, LResuming, LEnd, LInfo, connVars
<1>7. CASE LApplyDelete
  <2>1. ring' = Forget(ring, EmptyWindow)
    BY <1>7 DEF LApplyDelete
  <2>2. Len(EmptyWindow.kept) <= m_back_size
    BY <1>1 DEF EmptyWindow
  <2>. QED  BY <1>1, <2>1, <2>2 DEF Forget, KeptFits
<1>8. CASE LWrite
  <2>1. UNCHANGED ring \/ \E bytes : ring' = [ring EXCEPT ![lh] = AfterWrite(ring[lh], bytes)]
    BY <1>8 DEF LWrite
  <2>2. \A h \in Handles : ring'[h].kept = ring[h].kept
    BY <1>1, <2>1 DEF AfterWrite
  <2>. QED  BY <2>2 DEF KeptFits
<1>9. ASSUME NEW h \in Handles, Transfer(h) \/ (\E outcome \in Outcomes : LFail(h, outcome))
      PROVE  KeptFits'
  BY <1>2, <1>9 DEF Transfer, LData, LDone, LProgress, LFail, connVars
<1>10. CASE UNCHANGED vars
  BY <1>2, <1>10 DEF vars, connVars
<1>. QED  BY <1>4, <1>5, <1>6, <1>7, <1>8, <1>9, <1>10 DEF Next, LoopStep

(* The reader that measures the file finds its size, or none.              *)
LEMMA MeasureRight ==
  ASSUME TypeOK, Owned, NoErrorPages, ~ErrorPages, NEW s \in Sources, ReaderCall(s) \/ ReaderStep(s)
  PROVE  SizeIsRight(s)'
<1>1. mFileSize \in [Sources -> Nat] /\ SizeIsRight(s) /\ \A h \in Handles : ~page[h]
  BY DEF TypeOK, SourceTypeOK, NoErrorPages
<1>2. CASE UNCHANGED mFileSize
  BY <1>1, <1>2 DEF SizeIsRight
<1>3. CASE Opened(s) \/ SeekConnected(s) \/ ReadReconnected(s)
  <2>1. Measure(s) /\ rpc[s] = "filled"
    BY <1>3 DEF Opened, SeekConnected, ReadReconnected
  <2>2. ~page[mPConnection[s]]
    BY <1>1, <2>1, ReaderFacts DEF Owned, Filling
  <2>3. UNCHANGED mFileSize \/ mFileSize' = [mFileSize EXCEPT ![s] = 0]
                            \/ mFileSize' = [mFileSize EXCEPT ![s] = FileSize]
    BY <2>1, <2>2 DEF Measure
  <2>. QED  BY <1>1, <2>3 DEF SizeIsRight
<1>4. CASE ReaderCall(s)
  BY <1>2, <1>4 DEF ReaderCall, Open, Close, Read, SeekCall, SeekPastEnd, SeekReconnecting,
                    SeekInBuffer, SeekNear, SeekFar, sourceVars
<1>5. CASE Replace(s) \/ Connect(s) \/ FillCheck(s) \/ FillEos(s) \/ FillPause(s) \/ FillResume(s)
           \/ FillStatus(s) \/ Retry(s) \/ Again(s) \/ SeekNearEnds(s) \/ ReadFilled(s) \/ Take(s)
  BY <1>2, <1>5 DEF Replace, Connect, FillCheck, FillEos, FillPause, FillResume, FillStatus, Retry,
                    Again, SeekNearEnds, ReadFilled, Take, sourceVars
<1>. QED  BY <1>3, <1>4, <1>5 DEF ReaderStep

LEMMA NoErrorPagesStep == TypeOK /\ Owned /\ NoErrorPages /\ [Next]_vars => NoErrorPages'
<1> SUFFICES ASSUME TypeOK, Owned, NoErrorPages, [Next]_vars, ~ErrorPages
             PROVE  (\A h \in Handles : ~page'[h]) /\ \A s \in Sources : SizeIsRight(s)'
  BY DEF NoErrorPages
<1>1. (\A h \in Handles : ~page[h]) /\ \A s \in Sources : SizeIsRight(s)
  BY DEF NoErrorPages
<1>2. ASSUME NEW s \in Sources, ReaderCall(s) \/ ReaderStep(s)
      PROVE  (\A h \in Handles : ~page'[h]) /\ \A t \in Sources : SizeIsRight(t)'
  <2>1. UNCHANGED page
    BY <1>2, ReaderLeaves
  <2>2. SizeIsRight(s)'
    BY <1>2, MeasureRight
  <2>3. \A t \in Sources : t # s => mFileSize'[t] = mFileSize[t]
    BY <1>2, OthersVariables
  <2>. QED  BY <1>1, <2>1, <2>2, <2>3 DEF SizeIsRight
<1>3. ASSUME UNCHANGED mFileSize, \A h \in Handles : page'[h] => page[h]
      PROVE  (\A h \in Handles : ~page'[h]) /\ \A t \in Sources : SizeIsRight(t)'
  BY <1>1, <1>3 DEF SizeIsRight
<1>4. CASE (\E s \in Sources, interrupt \in BOOLEAN : Interrupt(s, interrupt)) \/ OnReconnect
  BY <1>3, <1>4 DEF Interrupt, OnReconnect, curlVars
<1>5. ASSUME NEW hs \in SUBSET Handles, NEW astray, BeginTransfers(hs, astray), NEW h \in Handles, page'[h]
      PROVE  page[h]
  BY <1>5, BeginTransfersDoes
<1>6. CASE LApplyAdd
  <2>1. mAddList \in SUBSET Handles /\ BeginTransfers(mAddList, {}) /\ UNCHANGED mFileSize
    BY <1>6 DEF LApplyAdd, TypeOK, LoopTypeOK, sourceVars
  <2>. QED  BY <1>3, <1>5, <2>1
<1>7. CASE LResuming
  <2>1. UNCHANGED mFileSize
    BY <1>7 DEF LResuming, sourceVars
  <2>2. CASE UNCHANGED page
    BY <1>3, <2>1, <2>2
  <2>3. ASSUME NEW k \in batch, NEW astray, BeginTransfers({k}, astray)
        PROVE  (\A h \in Handles : ~page'[h]) /\ \A t \in Sources : SizeIsRight(t)'
    <3>1. {k} \in SUBSET Handles
      BY DEF TypeOK, LoopTypeOK
    <3>. QED  BY <1>3, <1>5, <2>1, <2>3, <3>1
  <2>. QED  BY <1>7, <2>2, <2>3 DEF LResuming
<1>8. CASE LApplyDelete
  BY <1>3, <1>8 DEF LApplyDelete, Forget, sourceVars
<1>9. CASE LResume \/ LWrite \/ LEnd \/ LInfo
  BY <1>3, <1>9 DEF LResume, LWrite, LEnd, LInfo, sourceVars, curlVars
<1>10. ASSUME NEW h \in Handles, Transfer(h) \/ (\E outcome \in Outcomes : LFail(h, outcome))
       PROVE  (\A k \in Handles : ~page'[k]) /\ \A t \in Sources : SizeIsRight(t)'
  BY <1>3, <1>10 DEF Transfer, LData, LDone, LProgress, LFail, sourceVars, curlVars
<1>11. CASE UNCHANGED vars
  BY <1>3, <1>11 DEF vars, sourceVars, curlVars
<1>. QED  BY <1>2, <1>4, <1>6, <1>7, <1>8, <1>9, <1>10, <1>11 DEF Next, LoopStep

-----------------------------------------------------------------------------
(* What a Read() finds                                                     *)

ZeroOf(s) ==
    /\ rpc[s] = "idle" /\ mPConnection[s] # None /\ result[s] = "eos"
    /\ reconnects = 0 /\ mPConnection[s] \notin strayed
    /\ ErrorPages => SizeIsRight(s)
    => mFilePos[mPConnection[s]] >= FileSize

(* A connection that only more bytes come to, if it is not led astray.     *)
Grows(h) ==
    h \notin strayed' => h \notin strayed /\ mFilePos'[h] = mFilePos[h] /\ (Fill(h) > 0 => Fill(h)' > 0)

LEMMA GrowsByLoop ==
  ASSUME TypeOK, Messages, LoopStep, NEW h \in alive, h \notin mDeleteList
  PROVE  Grows(h)
<1>1. /\ ring \in [Handles -> Window] /\ h \in Handles /\ Fill(h) \in Nat /\ CurlTypeOK
      /\ mAddList \subseteq Handles /\ batch \subseteq Handles
  BY FillType DEF TypeOK, ConnectionTypeOK, CurlTypeOK, LoopTypeOK
<1>2. ASSUME ring'[h] = ring[h], mFilePos'[h] = mFilePos[h], strayed \subseteq strayed'
      PROVE  Grows(h)
  BY <1>1, <1>2 DEF Grows, Fill
<1>3. CASE LApplyAdd
  <2>1. BeginTransfers(mAddList, {}) /\ UNCHANGED <<ring, mFilePos>>
    BY <1>3 DEF LApplyAdd, connVars
  <2>2. strayed \subseteq strayed'
    BY <1>1, <2>1, BeginTransfersDoes
  <2>. QED  BY <1>2, <2>1, <2>2
<1>4. CASE LResuming
  <2>1. UNCHANGED <<ring, mFilePos>>
    BY <1>4 DEF LResuming, connVars
  <2>2. strayed \subseteq strayed'
    <3>1. ASSUME NEW k \in batch, NEW astray, BeginTransfers({k}, astray)
          PROVE  strayed \subseteq strayed'
      <4>1. {k} \in SUBSET Handles
        BY <1>1
      <4>. QED  BY <1>1, <3>1, <4>1, BeginTransfersDoes
    <3>. QED  BY <1>4, <3>1 DEF LResuming
  <2>. QED  BY <1>2, <2>1, <2>2
<1>5. CASE LApplyDelete
  BY <1>1, <1>2, <1>5 DEF LApplyDelete, Forget, history
<1>6. CASE LWrite
  <2>1. UNCHANGED <<mFilePos, strayed>>
    BY <1>6 DEF LWrite, history
  <2>2. CASE UNCHANGED ring
    BY <1>2, <2>1, <2>2
  <2>3. CASE ring' # ring
    <3>1. PICK amount \in 1 .. AtMost(READ_BUFFER_SIZE, End(lh) - at[lh]) :
            ring' = [ring EXCEPT ![lh] = AfterWrite(ring[lh],
                      [i \in 1 .. amount |-> IF page[lh] THEN PageByte ELSE at[lh] + i - 1])]
      BY <1>6, <2>3 DEF LWrite
    <3> DEFINE bytes == [i \in 1 .. amount |-> IF page[lh] THEN PageByte ELSE at[lh] + i - 1]
    <3>2. CASE h # lh
      BY <1>1, <1>2, <2>1, <3>1, <3>2
    <3>3. CASE h = lh
      <4>1. amount \in Nat /\ at[h] \in Nat
        BY <1>1 DEF CurlTypeOK
      <4>2. \A i \in 1 .. amount : bytes[i] \in Byte
        BY <3>3, <4>1 DEF Byte
      <4>3. bytes \in Seq(Byte)
        BY <4>1, <4>2
      <4> HIDE DEF bytes
      <4>4. ring[h].unread \in Seq(Byte)
        BY <1>1 DEF Window, Byte
      <4>5. ring'[h].unread = ring[h].unread \o bytes
        <5>1. ring' = [ring EXCEPT ![h] = AfterWrite(ring[h], bytes)]
          BY <3>1, <3>3 DEF bytes
        <5>. QED  BY <1>1, <5>1 DEF AfterWrite
      <4>6. Fill(h)' = Len(ring[h].unread) + Len(bytes) /\ Fill(h) = Len(ring[h].unread)
            /\ Len(bytes) \in Nat /\ Len(ring[h].unread) \in Nat
        BY <4>3, <4>4, <4>5, Concatenation DEF Fill
      <4>7. Fill(h) > 0 => Fill(h)' > 0
        BY <4>6
      <4>. QED  BY <2>1, <4>7 DEF Grows
    <3>. QED  BY <3>2, <3>3
  <2>. QED  BY <2>2, <2>3
<1>7. CASE LResume \/ LEnd
  BY <1>2, <1>7 DEF LResume, LEnd, connVars, history
<1>8. CASE LInfo
  <2>1. UNCHANGED <<ring, mFilePos>> /\ strayed \subseteq strayed'
    BY <1>8 DEF LInfo
  <2>. QED  BY <1>2, <2>1
<1>. QED  BY <1>3, <1>4, <1>5, <1>6, <1>7, <1>8 DEF LoopStep

(* A reader that another one's step, or the loop thread's, leaves alone.   *)
LEMMA ReadingKept ==
  ASSUME TypeOK, Owned, NEW t \in Sources, ReadingOf(t), ZeroOf(t),
         rpc'[t] = rpc[t], after'[t] = after[t], want'[t] = want[t], size'[t] = size[t],
         ret'[t] = ret[t], result'[t] = result[t], mFileSize'[t] = mFileSize[t],
         NEW c, c = mPConnection[t], mPConnection'[t] = c,
         reconnects' = 0 => reconnects = 0 /\ mNeedReconnect'[t] = mNeedReconnect[t],
         c # None => Grows(c)
  PROVE  ReadingOf(t)' /\ ZeroOf(t)'
<1>1. rpc[t] \in {"filled", "take"} => c # None
  BY DEF Owned, Ownership, Filling
<1>2. SizeIsRight(t)' <=> SizeIsRight(t)
  BY DEF SizeIsRight
<1>3. ASSUME c # None, c \notin strayed'
      PROVE  c \notin strayed /\ mFilePos'[c] = mFilePos[c] /\ (AtData(c) => AtData(c)')
  <2>1. c \notin strayed /\ mFilePos'[c] = mFilePos[c] /\ (Fill(c) > 0 => Fill(c)' > 0)
    BY <1>3 DEF Grows
  <2>2. AtData(c)' <=> Fill(c)' > 0 \/ mFilePos'[c] >= FileSize
    BY DEF AtData
  <2>. QED  BY <2>1, <2>2 DEF AtData
<1>4. ZeroOf(t)'
  BY <1>2, <1>3 DEF ZeroOf
<1>5. ReadingOf(t)'
  <2>2. rpc'[t] \notin {"idle", "failed"} /\ after'[t] = "read" => want'[t] = 1 /\ size'[t] > 0
    BY DEF ReadingOf
  <2>3. ASSUME reconnects' = 0
        PROVE  /\ ~mNeedReconnect'[t]
               /\ rpc'[t] \notin {"idle", "failed"} => after'[t] \notin {"rereadData", "rereadError"}
               /\ rpc'[t] = "take" => after'[t] = "read"
    BY <2>3 DEF ReadingOf
  <2>4. ASSUME reconnects' = 0, c \notin strayed'
        PROVE  /\ rpc'[t] = "filled" /\ after'[t] = "read" /\ ret'[t] = "ok" => AtData(c)'
               /\ rpc'[t] = "take" /\ (ErrorPages => SizeIsRight(t)') => AtData(c)'
    BY <1>1, <1>2, <1>3, <2>4 DEF ReadingOf
  <2>. QED  BY <2>2, <2>3, <2>4 DEF ReadingOf
<1>. QED  BY <1>4, <1>5

(* FillBuffer() returns data, or there is none: the buffer is not full     *)
(* when nothing is unread, because what is kept for seeks leaves room.     *)
LEMMA FilledHasData ==
  ASSUME TypeOK, KeptFits, NEW h \in Handles, ~(Fill(h) < 1 /\ Room(ring[h]) > 0)
  PROVE  Fill(h) > 0
<1> DEFINE k == Len(ring[h].kept)
<1>1. Fill(h) \in Nat /\ k \in Nat /\ k <= m_back_size /\ Room(ring[h]) = m_size - k - Fill(h)
  BY FillType DEF TypeOK, KeptFits, Room
<1>2. m_size \in Nat /\ m_back_size \in Nat /\ m_size - m_back_size > 0
  <2>1. m_size \in Nat /\ m_back_size \in Nat
    BY WindowAssumption
  <2>. QED  BY <2>1, CurlAssumption
<1> DEFINE f == Fill(h)
           r == Room(ring[h])
<1>3. f \in Nat /\ r = m_size - k - f /\ ~(f < 1 /\ r > 0)
  BY <1>1
<1> HIDE DEF f, r, k
<1>4. f > 0
  BY <1>1, <1>2, <1>3
<1>. QED  BY <1>4 DEF f

LEMMA EndHasData ==
  ASSUME TypeOK, NEW h \in Handles, Straight(h), mEOS[h]
  PROVE  AtData(h)
<1> DEFINE f == Fill(h)
           p == mFilePos[h]
<1>1. f \in Nat /\ p \in Nat /\ p + f >= FileSize
  BY FillType DEF TypeOK, ConnectionTypeOK, Straight, Reached
<1> HIDE DEF f, p
<1>2. FileSize \in Nat
  BY CurlAssumption
<1>3. f > 0 \/ p >= FileSize
  BY <1>1, <1>2
<1>. QED  BY <1>3 DEF AtData, f, p

(* The reader that makes the step.                                         *)
LEMMA ReadingByReader ==
  ASSUME TypeOK, Owned, AllStraight, KeptFits, NoErrorPages,
         NEW s \in Sources, ReadingOf(s), ReaderCall(s) \/ ReaderStep(s),
         NEW c, c = mPConnection[s]
  PROVE  ReadingOf(s)'
<1> DEFINE Working == {"connect", "replace"} \cup (Filling \ {"filled"})
           Here == {"open", "seek", "short"}
<1>1. /\ rpc \in [Sources -> Filling \cup {"idle", "failed", "connect", "replace", "take"}]
      /\ after \in [Sources -> {"open", "seek", "short", "read", "rereadData", "rereadError"}]
      /\ want \in [Sources -> Nat] /\ size \in [Sources -> Nat]
      /\ ret \in [Sources -> {"ok", "exit", "error"}]
      /\ mFileSize \in [Sources -> Nat] /\ mNeedReconnect \in [Sources -> BOOLEAN]
  BY DEF TypeOK, SourceTypeOK, ReaderTypeOK
<1>2. /\ UNCHANGED reconnects
      /\ reconnects' = 0 => ~mNeedReconnect[s] /\ ~mNeedReconnect'[s]
  BY <1>1, ReaderLeaves, ToldByOthersOnly DEF ReadingOf
<1>3. rpc[s] \in Filling \cup {"replace", "take"} => c \in Handles /\ c \in alive
  BY ReaderFacts DEF Owned, Ownership
<1>4. ASSUME rpc'[s] \in {"idle", "failed"}
      PROVE  ReadingOf(s)'
  BY <1>2, <1>4 DEF ReadingOf
<1>5. ASSUME rpc'[s] \in Working, after'[s] \in Here
      PROVE  ReadingOf(s)'
  BY <1>2, <1>5 DEF ReadingOf, Filling
<1>6. ASSUME rpc[s] \notin {"idle", "failed"}, rpc'[s] \in Working, UNCHANGED <<after, size>>,
             want'[s] = want[s] \/ want'[s] = 1
      PROVE  ReadingOf(s)'
  BY <1>2, <1>6 DEF ReadingOf, Filling
<1>7. ASSUME rpc[s] \in Filling, rpc'[s] = "filled", UNCHANGED <<after, want, size, mPConnection, strayed>>,
             ret'[s] = "ok" /\ after[s] = "read" /\ want[s] = 1 /\ c \notin strayed => AtData(c)'
      PROVE  ReadingOf(s)'
  <2>1. rpc[s] \notin {"idle", "failed"} /\ rpc'[s] \notin {"idle", "failed", "take"}
    BY <1>7 DEF Filling
  <2>2. after[s] = "read" => want[s] = 1 /\ size[s] > 0
    BY <2>1 DEF ReadingOf
  <2>3. reconnects' = 0 => after[s] \notin {"rereadData", "rereadError"}
    BY <1>2, <2>1 DEF ReadingOf
  <2>4. c = mPConnection'[s]
    BY <1>7
  <2>. QED  BY <1>2, <1>7, <2>1, <2>2, <2>3, <2>4 DEF ReadingOf
<1>8. CASE Open(s) \/ Close(s)
  <2>1. rpc'[s] = "idle" \/ (rpc'[s] \in {"connect", "replace"} /\ after'[s] = "open")
    BY <1>1, <1>8 DEF Open, Close, Goto
  <2>. QED  BY <1>4, <1>5, <2>1
<1>9. ASSUME NEW offset \in SeekTargets, SeekCall(s, offset)
      PROVE  ReadingOf(s)'
  <2>1. CASE SeekPastEnd(s, offset) \/ SeekInBuffer(s, offset)
    BY <1>4, <2>1 DEF SeekPastEnd, SeekInBuffer, CanSeek
  <2>2. CASE SeekReconnecting(s, offset) \/ SeekFar(s, offset) \/ SeekNear(s, offset)
    <3>1. rpc'[s] \in {"replace", "fill"} /\ after'[s] \in {"seek", "short"}
      BY <1>1, <2>2 DEF SeekReconnecting, SeekFar, SeekNear, Goto
    <3>. QED  BY <1>5, <3>1 DEF Filling
  <2>. QED  BY <1>9, <2>1, <2>2 DEF SeekCall
<1>10. ASSUME NEW n \in ReadSizes, Read(s, n)
       PROVE  ReadingOf(s)'
  <2>1. CASE Returns(s, "eos")
    BY <1>1, <1>4, <2>1 DEF Returns, Goto
  <2>2. CASE ~Returns(s, "eos")
    <3>1. /\ c # None /\ size'[s] > 0 /\ want'[s] = 1 /\ after'[s] = "read"
          /\ rpc'[s] = IF mFileSize[s] = 0 \/ mFilePos[c] < mFileSize[s] THEN "fill" ELSE "take"
          /\ UNCHANGED <<mPConnection, mFilePos, mFileSize, strayed>>
      BY <1>1, <1>10, <2>2 DEF Read, Goto, sourceVars, connVars, history
    <3>2. c \in Handles /\ mFilePos[c] \in Nat /\ mFileSize[s] \in Nat
      BY <1>1, <3>1 DEF TypeOK, SourceTypeOK, ConnectionTypeOK
    <3>3. ASSUME rpc'[s] = "take", ErrorPages => SizeIsRight(s)
          PROVE  mFilePos'[c] >= FileSize
      <4>1. SizeIsRight(s)
        BY <3>3 DEF NoErrorPages
      <4>. QED  BY <3>1, <3>2, <3>3, <4>1 DEF SizeIsRight
    <3>4. SizeIsRight(s)' <=> SizeIsRight(s)
      BY <3>1 DEF SizeIsRight
    <3>5. mPConnection'[s] = c /\ rpc'[s] \in {"fill", "take"}
      BY <3>1
    <3>. QED  BY <1>2, <3>1, <3>3, <3>4, <3>5 DEF ReadingOf, AtData
  <2>. QED  BY <2>1, <2>2
<1>11. CASE Replace(s) \/ Again(s)
  <2>1. rpc[s] \in {"replace", "again"} /\ rpc'[s] \in {"connect", "fill"}
        /\ UNCHANGED <<after, want, size>>
    BY <1>1, <1>11 DEF Replace, Again, Goto
  <2>. QED  BY <1>6, <2>1 DEF Filling
<1>12. CASE Connect(s)
  <2>1. rpc[s] = "connect" /\ rpc'[s] = "fill" /\ want'[s] = 1 /\ UNCHANGED <<after, size>>
    BY <1>1, <1>12 DEF Connect, Goto
  <2>. QED  BY <1>6, <2>1 DEF Filling
<1>13. CASE FillCheck(s)
  <2>1. rpc[s] = "fill" /\ UNCHANGED <<after, want, size, mPConnection, strayed, ring, mFilePos>>
    BY <1>13 DEF FillCheck, sourceVars, connVars, history
  <2>2. c \in Handles
    BY <1>3, <2>1 DEF Filling
  <2>3. CASE Goto(s, "fillEos")
    <3>1. rpc'[s] = "fillEos"
      BY <1>1, <2>3 DEF Goto
    <3>. QED  BY <1>6, <2>1, <3>1 DEF Filling
  <2>4. CASE FillReturns(s, "ok") /\ ~(Fill(c) < want[s] /\ Room(ring[c]) > 0)
    <3>1. rpc'[s] = "filled"
      BY <1>1, <2>4 DEF FillReturns, Goto
    <3>2. ASSUME want[s] = 1
          PROVE  AtData(c)'
      <4>1. Fill(c) > 0
        BY <2>2, <2>4, <3>2, FilledHasData
      <4>. QED  BY <2>1, <4>1 DEF AtData, Fill
    <3>. QED  BY <1>7, <2>1, <3>1, <3>2 DEF Filling
  <2>5. CASE FillReturns(s, "exit")
    <3>1. rpc'[s] = "filled" /\ ret'[s] = "exit"
      BY <1>1, <2>5 DEF FillReturns, Goto
    <3>. QED  BY <1>7, <2>1, <3>1 DEF Filling
  <2>. QED  BY <1>13, <2>3, <2>4, <2>5 DEF FillCheck
<1>14. CASE FillEos(s)
  <2>1. rpc[s] = "fillEos" /\ UNCHANGED <<after, want, size, mPConnection, strayed, ring, mFilePos>>
    BY <1>14 DEF FillEos, sourceVars, connVars, history
  <2>2. c \in Handles /\ c \in alive
    BY <1>3, <2>1 DEF Filling
  <2>3. CASE Goto(s, "fillPause")
    <3>1. rpc'[s] = "fillPause"
      BY <1>1, <2>3 DEF Goto
    <3>. QED  BY <1>6, <2>1, <3>1 DEF Filling
  <2>4. CASE FillReturns(s, "ok") /\ mEOS[c]
    <3>1. rpc'[s] = "filled"
      BY <1>1, <2>4 DEF FillReturns, Goto
    <3>2. ASSUME c \notin strayed
          PROVE  AtData(c)'
      <4>1. AtData(c)
        BY <2>2, <2>4, <3>2, EndHasData DEF AllStraight
      <4>. QED  BY <2>1, <4>1 DEF AtData, Fill
    <3>. QED  BY <1>7, <2>1, <3>1, <3>2 DEF Filling
  <2>. QED  BY <1>14, <2>3, <2>4 DEF FillEos
<1>15. CASE FillPause(s) \/ FillResume(s)
  <2>1. rpc[s] \in {"fillPause", "fillResume"} /\ rpc'[s] \in {"fillResume", "fillStatus"}
        /\ UNCHANGED <<after, want, size>>
    BY <1>1, <1>15 DEF FillPause, FillResume, Goto
  <2>. QED  BY <1>6, <2>1 DEF Filling
<1>16. CASE FillStatus(s)
  <2>1. rpc[s] = "fillStatus" /\ UNCHANGED <<after, want, size, mPConnection, strayed, mFilePos>>
    BY <1>16 DEF FillStatus, sourceVars, history
  <2>2. CASE Goto(s, "fill") \/ Goto(s, "retry")
    <3>1. rpc'[s] \in {"fill", "retry"}
      BY <1>1, <2>2 DEF Goto
    <3>. QED  BY <1>6, <2>1, <3>1 DEF Filling
  <2>3. CASE UNCHANGED ring /\ FillReturns(s, IF Fill(c) > 0 THEN "ok" ELSE "error")
    <3>1. rpc'[s] = "filled" /\ (ret'[s] = "ok" => Fill(c) > 0)
      BY <1>1, <2>3 DEF FillReturns, Goto
    <3>2. Fill(c) > 0 => AtData(c)'
      BY <2>3 DEF AtData, Fill
    <3>. QED  BY <1>7, <2>1, <3>1, <3>2 DEF Filling
  <2>. QED  BY <1>16, <2>2, <2>3 DEF FillStatus
<1>17. CASE Retry(s)
  <2>1. rpc[s] = "retry" /\ UNCHANGED <<after, want, size, mPConnection, strayed>>
    BY <1>17 DEF Retry, sourceVars, history
  <2>2. rpc'[s] = "again" \/ (rpc'[s] = "filled" /\ ret'[s] # "ok")
    BY <1>1, <1>17 DEF Retry, FillReturns, Goto
  <2>. QED  BY <1>6, <1>7, <2>1, <2>2 DEF Filling
<1>18. CASE Opened(s) \/ SeekConnected(s) \/ Take(s)
  <2>1. rpc'[s] \in {"idle", "failed"} \/ (rpc'[s] = "replace" /\ after'[s] = "open")
    BY <1>1, <1>18 DEF Opened, SeekConnected, Take, Returns, Goto
  <2>. QED  BY <1>4, <1>5, <2>1
<1>19. CASE SeekNearEnds(s)
  <2>1. rpc'[s] = "idle" \/ (rpc'[s] = "replace" /\ after'[s] = "seek")
    BY <1>1, <1>19 DEF SeekNearEnds, Returns, Goto
  <2>. QED  BY <1>4, <1>5, <2>1
<1>20. CASE ReadFilled(s)
  <2>1. rpc[s] = "filled" /\ after[s] = "read" /\ UNCHANGED <<want, size, mPConnection, mFileSize,
                                                              strayed, ring, mFilePos>>
    BY <1>20 DEF ReadFilled, sourceVars, connVars, history
  <2>2. CASE mNeedReconnect[s]
    <3>1. after'[s] \in {"rereadData", "rereadError"} /\ rpc'[s] = "replace" /\ reconnects' # 0
      BY <1>1, <1>2, <1>20, <2>2 DEF ReadFilled, Goto
    <3>. QED  BY <3>1 DEF ReadingOf
  <2>3. CASE rpc'[s] = "idle"
    BY <1>4, <2>3
  <2>4. CASE rpc'[s] = "take" /\ ret[s] = "ok" /\ UNCHANGED after
    <3>1. size[s] > 0 /\ want[s] = 1
      BY <2>1 DEF ReadingOf
    <3>2. ASSUME reconnects' = 0, c \notin strayed'
          PROVE  AtData(c)'
      <4>1. AtData(c)
        BY <1>2, <2>1, <2>4, <3>2 DEF ReadingOf
      <4>. QED  BY <2>1, <4>1 DEF AtData, Fill
    <3>3. mPConnection'[s] = c
      BY <2>1
    <3>. QED  BY <1>2, <2>1, <2>4, <3>1, <3>2, <3>3 DEF ReadingOf
  <2>5. mNeedReconnect[s] \/ rpc'[s] = "idle" \/ (rpc'[s] = "take" /\ ret[s] = "ok" /\ UNCHANGED after)
    BY <1>1, <1>20 DEF ReadFilled, Returns, Goto
  <2>. QED  BY <2>2, <2>3, <2>4, <2>5
<1>21. CASE ReadReconnected(s)
  <2>1. rpc[s] = "filled" /\ after[s] \in {"rereadData", "rereadError"} /\ UNCHANGED after
    BY <1>21 DEF ReadReconnected
  <2>2. reconnects' # 0
    BY <1>2, <2>1 DEF ReadingOf
  <2>. QED  BY <2>1, <2>2 DEF ReadingOf
<1>. QED  BY <1>8, <1>9, <1>10, <1>11, <1>12, <1>13, <1>14, <1>15, <1>16, <1>17, <1>18, <1>19, <1>20,
             <1>21 DEF ReaderCall, ReaderStep

LEMMA ZeroByReader ==
  ASSUME TypeOK, Owned, NoErrorPages, NEW s \in Sources, ReadingOf(s), ZeroOf(s),
         ReaderCall(s) \/ ReaderStep(s), NEW c, c = mPConnection[s]
  PROVE  ZeroOf(s)'
<1>1. /\ rpc \in [Sources -> Filling \cup {"idle", "failed", "connect", "replace", "take"}]
      /\ result \in [Sources -> {"none", "ok", "eos", "exit", "error"}]
      /\ ret \in [Sources -> {"ok", "exit", "error"}]
      /\ mPConnection \in [Sources -> Handles \cup {None}]
  BY DEF TypeOK, SourceTypeOK, ReaderTypeOK
<1>2. UNCHANGED reconnects
  BY ReaderLeaves
<1>3. ASSUME rpc'[s] # "idle" \/ result'[s] # "eos" \/ mPConnection'[s] = None
      PROVE  ZeroOf(s)'
  BY <1>3 DEF ZeroOf
<1>4. CASE Open(s) \/ Close(s)
  BY <1>1, <1>3, <1>4 DEF Open, Close, Delete, Goto
<1>5. ASSUME NEW offset \in SeekTargets, SeekCall(s, offset)
      PROVE  ZeroOf(s)'
  BY <1>1, <1>3, <1>5 DEF SeekCall, SeekPastEnd, SeekReconnecting, SeekInBuffer, SeekNear, SeekFar, Goto
<1>6. ASSUME NEW n \in ReadSizes, Read(s, n)
      PROVE  ZeroOf(s)'
  <2>1. CASE Readable(s, n) > 0
    <3>1. rpc'[s] \in {"fill", "take"}
      BY <1>1, <1>6, <2>1 DEF Read, Goto
    <3>. QED  BY <1>3, <3>1
  <2>2. CASE Readable(s, n) = 0
    <3>1. c # None /\ UNCHANGED <<mPConnection, mFilePos, mFileSize, strayed>>
      BY <1>6 DEF Read, sourceVars, connVars, history
    <3>2. mFileSize[s] \in Nat /\ mFilePos[c] \in Nat /\ n \in Nat /\ n > 0 /\ FileSize \in Nat
      <4>1. c \in Handles
        BY <1>1, <3>1
      <4>2. n \in Nat \ {0} /\ FileSize \in Nat
        BY CurlAssumption
      <4>. QED  BY <4>1, <4>2 DEF TypeOK, SourceTypeOK, ConnectionTypeOK
    <3>3. mFileSize[s] > 0 /\ mFileSize[s] - mFilePos[c] = 0
      BY <2>2, <3>2 DEF Readable, AtMost
    <3>4. ASSUME ErrorPages => SizeIsRight(s)
          PROVE  mFilePos'[c] >= FileSize
      <4>1. mFileSize[s] \in {0, FileSize}
        BY <3>4 DEF NoErrorPages, SizeIsRight
      <4>. QED  BY <3>1, <3>2, <3>3, <4>1
    <3>5. (SizeIsRight(s)' <=> SizeIsRight(s)) /\ mPConnection'[s] = c
      BY <3>1 DEF SizeIsRight
    <3>. QED  BY <3>4, <3>5 DEF ZeroOf
  <2>. QED  BY <1>6, <2>1, <2>2 DEF Read
<1>7. CASE Take(s)
  <2> DEFINE f == Fill(c)
             m == size[s]
             n == AtMost(f, m)
  <2>1. /\ rpc[s] = "take" /\ mFilePos' = [mFilePos EXCEPT ![c] = mFilePos[c] + n]
        /\ result' = [result EXCEPT ![s] = IF n > 0 THEN "ok" ELSE "eos"]
        /\ UNCHANGED <<mPConnection, mFileSize, strayed>>
    BY <1>7 DEF Take, Returns, sourceVars, history
  <2>2. c \in Handles /\ f \in Nat /\ m \in Nat /\ mFilePos[c] \in Nat /\ mFilePos \in [Handles -> Nat]
    BY <2>1, ReaderFacts DEF Owned, TypeOK, ReaderTypeOK, ConnectionTypeOK
  <2>3. CASE n > 0
    <3>1. result'[s] = "ok"
      BY <1>1, <2>1, <2>3
    <3>. QED  BY <1>3, <3>1
  <2>4. CASE ~(n > 0)
    <3>1. ASSUME reconnects' = 0, c \notin strayed', ErrorPages => SizeIsRight(s)
          PROVE  mFilePos'[c] >= FileSize
      <4>1. m > 0 /\ (Fill(c) > 0 \/ mFilePos[c] >= FileSize)
        BY <1>2, <2>1, <3>1 DEF ReadingOf, AtData
      <4>2. n = 0 /\ ~(Fill(c) > 0)
        <5> HIDE DEF f, m
        <5>1. n = 0 /\ f = 0
          BY <2>2, <2>4, <4>1 DEF AtMost
        <5>. QED  BY <5>1 DEF f
      <4>3. mFilePos'[c] = mFilePos[c] + n
        <5> HIDE DEF n
        <5>. QED  BY <2>1, <2>2
      <4>. QED  BY <2>2, <4>1, <4>2, <4>3
    <3>2. (SizeIsRight(s)' <=> SizeIsRight(s)) /\ mPConnection'[s] = c
      BY <2>1 DEF SizeIsRight
    <3>. QED  BY <3>1, <3>2 DEF ZeroOf
  <2>. QED  BY <2>3, <2>4
<1>8. CASE Opened(s)
  <2> DEFINE what == IF ret[s] = "ok" /\ page[mPConnection[s]] THEN "error" ELSE ret[s]
  <2>1. rpc' = [rpc EXCEPT ![s] = "replace"] \/ result' = [result EXCEPT ![s] = what]
    BY <1>8 DEF Opened, Goto
  <2>2. what # "eos"
    BY <1>1
  <2> HIDE DEF what
  <2>3. rpc'[s] # "idle" \/ result'[s] # "eos"
    BY <1>1, <2>1, <2>2
  <2>. QED  BY <1>3, <2>3
<1>9. CASE SeekConnected(s) \/ SeekNearEnds(s) \/ ReadFilled(s) \/ ReadReconnected(s)
  <2>1. \/ \E place \in {"replace", "take"} : rpc' = [rpc EXCEPT ![s] = place]
        \/ \E what \in {"ok", "exit", "error"} : result' = [result EXCEPT ![s] = what]
    BY <1>1, <1>9 DEF SeekConnected, SeekNearEnds, ReadFilled, ReadReconnected, Returns, Goto
  <2>2. rpc'[s] # "idle" \/ result'[s] # "eos"
    BY <1>1, <2>1
  <2>. QED  BY <1>3, <2>2
<1>10. CASE Replace(s) \/ Connect(s) \/ FillCheck(s) \/ FillEos(s) \/ FillPause(s) \/ FillResume(s)
            \/ FillStatus(s) \/ Retry(s) \/ Again(s)
  <2>1. \E place \in {"connect"} \cup Filling : rpc' = [rpc EXCEPT ![s] = place]
    BY <1>10 DEF Replace, Connect, FillCheck, FillEos, FillPause, FillResume, FillStatus, Retry, Again,
                 FillReturns, Goto, Filling
  <2>2. rpc'[s] # "idle"
    BY <1>1, <2>1 DEF Filling
  <2>. QED  BY <1>3, <2>2
<1>. QED  BY <1>4, <1>5, <1>6, <1>7, <1>8, <1>9, <1>10 DEF ReaderCall, ReaderStep

LEMMA ReadingStep ==
  TypeOK /\ Owned /\ AllStraight /\ Messages /\ KeptFits /\ NoErrorPages /\ Reading /\ ZeroIsEos
     /\ [Next]_vars => Reading' /\ ZeroIsEos'
<1> SUFFICES ASSUME TypeOK, Owned, AllStraight, Messages, KeptFits, NoErrorPages, Reading, ZeroIsEos,
                    [Next]_vars
             PROVE  Reading' /\ ZeroIsEos'
  OBVIOUS
<1>1. (\A t \in Sources : ReadingOf(t) /\ ZeroOf(t))
      /\ ((\A t \in Sources : ReadingOf(t)' /\ ZeroOf(t)') => Reading' /\ ZeroIsEos')
  BY DEF Reading, ZeroIsEos, ZeroOf, SizeIsRight
<1>2. \A t \in Sources : mPConnection[t] # None =>
        mPConnection[t] \in alive /\ mPConnection[t] \notin mDeleteList
  BY DEF Owned, Ownership
<1>3. ASSUME NEW t \in Sources,
             rpc'[t] = rpc[t], after'[t] = after[t], want'[t] = want[t], size'[t] = size[t],
             ret'[t] = ret[t], result'[t] = result[t], mFileSize'[t] = mFileSize[t],
             mPConnection'[t] = mPConnection[t],
             reconnects' = 0 => reconnects = 0 /\ mNeedReconnect'[t] = mNeedReconnect[t],
             \A h \in alive : h = mPConnection[t] => Grows(h)
      PROVE  ReadingOf(t)' /\ ZeroOf(t)'
  <2> SUFFICES ASSUME NEW c, c = mPConnection[t]
               PROVE  ReadingOf(t)' /\ ZeroOf(t)'
    OBVIOUS
  <2>1. c # None => Grows(c)
    BY <1>2, <1>3
  <2>2. mPConnection'[t] = c /\ ReadingOf(t) /\ ZeroOf(t)
    BY <1>1, <1>3
  <2>. QED  BY <1>3, <2>1, <2>2, ReadingKept
<1>4. ASSUME UNCHANGED <<rpc, after, want, size, ret, result, mFileSize, mPConnection>>,
             reconnects' = 0 => reconnects = 0 /\ UNCHANGED mNeedReconnect,
             \A h \in alive : h \notin mDeleteList => Grows(h)
      PROVE  Reading' /\ ZeroIsEos'
  <2>1. ASSUME NEW t \in Sources
        PROVE  ReadingOf(t)' /\ ZeroOf(t)'
    <3>1. ASSUME NEW h \in alive, h = mPConnection[t]
          PROVE  Grows(h)
      <4>1. h # None
        BY CurlAssumption DEF TypeOK, ConnectionTypeOK
      <4>. QED  BY <1>2, <1>4, <3>1, <4>1
    <3>. QED  BY <1>3, <1>4, <3>1
  <2>. QED  BY <1>1, <2>1
<1>5. ASSUME UNCHANGED <<ring, mFilePos, strayed>>, NEW h \in alive
      PROVE  Grows(h)
  BY <1>5 DEF Grows, Fill
<1>6. ASSUME NEW s \in Sources, ReaderCall(s) \/ ReaderStep(s)
      PROVE  Reading' /\ ZeroIsEos'
  <2>1. ASSUME NEW c, c = mPConnection[s]
        PROVE  ReadingOf(s)' /\ ZeroOf(s)'
    BY <1>1, <1>6, <2>1, ReadingByReader, ZeroByReader
  <2>2. ASSUME NEW t \in Sources, t # s
        PROVE  ReadingOf(t)' /\ ZeroOf(t)'
    <3>1. /\ rpc'[t] = rpc[t] /\ after'[t] = after[t] /\ mPConnection'[t] = mPConnection[t]
          /\ want'[t] = want[t] /\ size'[t] = size[t] /\ ret'[t] = ret[t] /\ result'[t] = result[t]
          /\ mFileSize'[t] = mFileSize[t] /\ mNeedReconnect'[t] = mNeedReconnect[t]
          /\ UNCHANGED reconnects
      BY <1>6, <2>2, OthersUndisturbed, OthersVariables, ReaderLeaves
    <3>2. ASSUME NEW h \in alive, h = mPConnection[t]
          PROVE  Grows(h)
      <4>1. h # mPConnection[s]
        BY <2>2, <3>2, CurlAssumption DEF Owned, Ownership, TypeOK, ConnectionTypeOK
      <4>2. SameBuffer(h) /\ (h \in strayed' <=> h \in strayed)
        BY <1>6, <4>1, OthersConnections
      <4>. QED  BY <4>2 DEF SameBuffer, Grows, Fill
    <3>. QED  BY <1>3, <3>1, <3>2
  <2>3. ReadingOf(s)' /\ ZeroOf(s)'
    BY <2>1
  <2>. QED  BY <1>1, <2>2, <2>3
<1>7. ASSUME NEW s \in Sources, NEW interrupt \in BOOLEAN, Interrupt(s, interrupt)
      PROVE  Reading' /\ ZeroIsEos'
  <2>1. UNCHANGED <<rpc, after, want, size, ret, result, mFileSize, mPConnection, mNeedReconnect,
                    reconnects, ring, mFilePos, strayed>>
    BY <1>7 DEF Interrupt, readerVars, connVars, history
  <2>. QED  BY <1>4, <1>5, <2>1
<1>8. CASE OnReconnect
  <2>1. UNCHANGED <<rpc, after, want, size, ret, result, mFileSize, mPConnection, ring, mFilePos, strayed>>
    BY <1>8 DEF OnReconnect, readerVars, connVars
  <2>2. reconnects' # 0
    <3>1. reconnects \in Nat /\ reconnects' = reconnects + 1
      BY <1>8, CurlAssumption DEF OnReconnect, TypeOK, LoopTypeOK
    <3>. QED  BY <3>1
  <2>. QED  BY <1>4, <1>5, <2>1, <2>2
<1>9. CASE LoopStep
  <2>1. UNCHANGED <<rpc, after, want, size, ret, result, mFileSize, mPConnection, mNeedReconnect, reconnects>>
    BY <1>9 DEF LoopStep, LApplyAdd, LResume, LResuming, LApplyDelete, LWrite, LEnd, LInfo,
                sourceVars, readerVars, history
  <2>2. \A h \in alive : h \notin mDeleteList => Grows(h)
    BY <1>9, GrowsByLoop
  <2>. QED  BY <1>4, <2>1, <2>2
<1>10. ASSUME NEW h \in Handles, Transfer(h) \/ (\E outcome \in Outcomes : LFail(h, outcome))
       PROVE  Reading' /\ ZeroIsEos'
  <2>1. UNCHANGED <<rpc, after, want, size, ret, result, mFileSize, mPConnection, mNeedReconnect,
                    reconnects, ring, mFilePos, strayed>>
    BY <1>10 DEF Transfer, LData, LDone, LProgress, LFail, sourceVars, readerVars, connVars, history
  <2>. QED  BY <1>4, <1>5, <2>1
<1>11. CASE UNCHANGED vars
  <2>1. UNCHANGED <<rpc, after, want, size, ret, result, mFileSize, mPConnection, mNeedReconnect,
                    reconnects, ring, mFilePos, strayed>>
    BY <1>11 DEF vars, sourceVars, readerVars, connVars, history
  <2>. QED  BY <1>4, <1>5, <2>1
<1>. QED  BY <1>6, <1>7, <1>8, <1>9, <1>10, <1>11 DEF Next

-----------------------------------------------------------------------------
(* The inductive invariant of the bytes.  That the buffers are straight    *)
(* needs that a reader which begins a transfer again is the only one to    *)
(* use the connection, that needs that libcurl has no message left for a   *)
(* transfer that is gone, and that a Read() without data is at the end     *)
(* needs all of it.                                                        *)
Bytes == AllStraight /\ Retrying /\ Messages /\ KeptFits /\ NoErrorPages /\ Reading /\ ZeroIsEos

LEMMA InitBytes == Init => Bytes
<1> SUFFICES ASSUME Init
             PROVE  Bytes
  OBVIOUS
<1>1. AllStraight
  BY DEF Init, AllStraight
<1>2. Retrying
  BY DEF Init, Retrying, RetryingOf, Filling
<1>3. Messages
  <2>1. msgs = <<>> /\ DOMAIN msgs = {} /\ lpc = "add" /\ \A h \in Handles : ~stopped[h]
    BY DEF Init
  <2>. QED  BY <2>1 DEF Messages, Ended
<1>4. KeptFits
  <2>1. \A h \in Handles : Len(ring[h].kept) = 0
    BY DEF Init, EmptyWindow
  <2>2. m_back_size \in Nat
    BY WindowAssumption
  <2>. QED  BY <2>1, <2>2 DEF KeptFits
<1>5. NoErrorPages
  BY DEF Init, NoErrorPages, SizeIsRight
<1>6. Reading
  BY DEF Init, Reading, ReadingOf
<1>7. ZeroIsEos
  BY DEF Init, ZeroIsEos
<1>. QED  BY <1>1, <1>2, <1>3, <1>4, <1>5, <1>6, <1>7 DEF Bytes

LEMMA NextBytes == IInv /\ Bytes /\ [Next]_vars => Bytes'
<1> SUFFICES ASSUME IInv, Bytes, [Next]_vars
             PROVE  Bytes'
  OBVIOUS
<1>1. TypeOK /\ Owned /\ LoopPlaces
  BY DEF IInv
<1>2. AllStraight' /\ Retrying' /\ Messages'
  BY <1>1, StraightStep, RetryingStep, MessagesStep DEF Bytes
<1>3. KeptFits' /\ NoErrorPages' /\ Reading' /\ ZeroIsEos'
  BY <1>1, KeptFitsStep, NoErrorPagesStep, ReadingStep DEF Bytes
<1>. QED  BY <1>2, <1>3 DEF Bytes

(* The second half of what the properties follow from: the bytes of every  *)
(* connection that was not led astray are where its transfer, its reader   *)
(* and libcurl's messages say they are.                                    *)
THEOREM BytesInvariance == Spec => []Bytes
<1>. QED  BY Invariance, InitBytes, NextBytes, PTL DEF Spec

LEMMA StraightInPlace == TypeOK /\ Owned /\ AllStraight => InPlace
<1> SUFFICES ASSUME TypeOK, Owned, AllStraight,
                    NEW s \in Sources, NEW h, h = mPConnection[s],
                    Resting(s), h \notin strayed, mFilePos[h] < FileSize
             PROVE  /\ \A i \in DOMAIN ring[h].unread :
                          mFilePos[h] + i <= FileSize => ring[h].unread[i] = mFilePos[h] + i - 1
                    /\ \A i \in DOMAIN ring[h].kept :
                          ring[h].kept[i] = mFilePos[h] - Len(ring[h].kept) + i - 1
  BY DEF InPlace
<1>1. h \in alive /\ h \in Handles
  BY DEF Resting, Owned, Ownership, TypeOK, ConnectionTypeOK
<1>2. Right(ring[h], mFilePos[h])
  BY <1>1 DEF AllStraight, Straight
<1> DEFINE w == ring[h]
           p == mFilePos[h]
           k == Len(w.kept)
           u == Len(w.unread)
<1>3. /\ w.kept \in Seq(Byte) /\ w.unread \in Seq(Byte) /\ p \in Nat /\ k \in Nat /\ u \in Nat
      /\ DOMAIN w.kept = 1 .. k /\ DOMAIN w.unread = 1 .. u
  BY <1>1 DEF TypeOK, ConnectionTypeOK, Window, Byte
<1>4. FileSize \in Nat /\ p < FileSize
  BY CurlAssumption
<1>5. /\ \A i \in 1 .. k : p - k + i - 1 < FileSize => w.kept[i] = p - k + i - 1
      /\ \A i \in 1 .. u : p + i - 1 < FileSize => w.unread[i] = p + i - 1
  BY <1>2 DEF Right
<1> HIDE DEF w, p, k, u
<1>6. ASSUME NEW i \in 1 .. u, p + i <= FileSize
      PROVE  w.unread[i] = p + i - 1
  <2>1. p + i - 1 < FileSize
    BY <1>3, <1>4, <1>6
  <2>. QED  BY <1>5, <2>1
<1>7. ASSUME NEW i \in 1 .. k
      PROVE  w.kept[i] = p - k + i - 1
  <2>1. p - k + i - 1 < FileSize
    BY <1>3, <1>4
  <2>. QED  BY <1>5, <2>1
<1>. QED  BY <1>3, <1>6, <1>7 DEF w, p, k, u

(* Whatever the reader reads, seeks, pauses and retries, and whatever the  *)
(* loop thread, libcurl, the network and the other readers do meanwhile,   *)
(* the buffer holds the bytes of the file that are around the position of  *)
(* the reader, unless the connection was led astray: by a seek behind the  *)
(* end, by a transfer that begins again though it failed, by an error page *)
(* taken for the file, or by the status of another connection's message.   *)
THEOREM BytesInPlace == Spec => []InPlace
<1>1. IInv /\ Bytes => InPlace
  BY StraightInPlace DEF IInv, Bytes
<1>. QED  BY <1>1, Invariance, BytesInvariance, PTL

(* A Read() that returns 0 has come to the end of the file: FillBuffer()   *)
(* returns without data at mEOS only, which a transfer has when the file   *)
(* was delivered to its end, and Read() cuts the size to nothing there     *)
(* only.  Without a change of the network, on a connection that was not    *)
(* led astray, and with the size of the file, not of an error page.        *)
THEOREM ZeroOnlyAtEnd == Spec => []ZeroIsEos
<1>1. Bytes => ZeroIsEos
  BY DEF Bytes
<1>. QED  BY <1>1, BytesInvariance, PTL
=============================================================================
