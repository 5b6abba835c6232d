------------------------- MODULE RingBufferTheorems -------------------------
(***************************************************************************)
(* For every size of the memory and of the part kept behind the position,  *)
(* the ring buffer of framework/utils/ringBuffer.cpp is the window on a    *)
(* stream of StreamWindow.  A run of n slots from ptr, Copied(ptr, n), is    *)
(* what both sides are made of: the lemmas say how runs are split, joined  *)
(* and reached from either end.                                            *)
(***************************************************************************)
EXTENDS RingBuffer, SequenceTheorems, TLAPS

-----------------------------------------------------------------------------
(* Pointers *)

LEMMA AdvanceSlot ==
    ASSUME NEW ptr \in Slots, NEW n \in 0..m_size
    PROVE  Advance(ptr, n) \in Slots
BY WindowAssumption DEF Advance, Slots

LEMMA RetreatSlot ==
    ASSUME NEW ptr \in Slots, NEW n \in 0..m_size
    PROVE  Retreat(ptr, n) \in Slots
BY WindowAssumption DEF Retreat, Slots

LEMMA AdvanceTwice ==
    ASSUME NEW ptr \in Slots, NEW m \in 0..m_size, NEW n \in 0..m_size,
           m + n <= m_size
    PROVE  Advance(Advance(ptr, m), n) = Advance(ptr, m + n)
BY WindowAssumption DEF Advance, Slots

LEMMA RetreatTwice ==
    ASSUME NEW ptr \in Slots, NEW m \in 0..m_size, NEW n \in 0..m_size,
           m + n <= m_size
    PROVE  Retreat(Retreat(ptr, m), n) = Retreat(ptr, m + n)
BY WindowAssumption DEF Retreat, Slots

\* Forward by n and back by m leaves the pointer where one move takes it.
LEMMA AdvanceRetreat ==
    ASSUME NEW ptr \in Slots, NEW n \in 0..m_size, NEW m \in 0..m_size
    PROVE  /\ m <= n => Retreat(Advance(ptr, n), m) = Advance(ptr, n - m)
           /\ m <= n => Advance(Retreat(ptr, n), m) = Retreat(ptr, n - m)
           /\ n <= m => Retreat(Advance(ptr, n), m) = Retreat(ptr, m - n)
           /\ n <= m => Advance(Retreat(ptr, n), m) = Advance(ptr, m - n)
BY WindowAssumption DEF Advance, Retreat, Slots

\* The same slot, reached from the end and from the start of a run.
LEMMA RunEnds ==
    ASSUME NEW ptr \in Slots, NEW back \in 0..m_size, NEW n \in 0..m_size,
           NEW stay \in 0..m_size, back + n <= m_size, stay <= back + n
    PROVE  /\ Retreat(Advance(ptr, n), stay)
                  = Advance(Retreat(ptr, back), back + n - stay)
           /\ Advance(Retreat(ptr, n), n) = ptr
BY WindowAssumption DEF Advance, Retreat, Slots

\* How far in front of the writing pointer the slots of the three runs are.
LEMMA Distances ==
    ASSUME NEW ptr \in Slots, NEW fill \in 0..m_size, NEW back \in 0..m_size,
           NEW n \in 1..m_size, fill + back + n <= m_size
    PROVE  /\ \A i \in 1..back :
                  Retreat(Advance(Retreat(ptr, back), i - 1), Advance(ptr, fill)) >= n
           /\ \A i \in 1..fill :
                  Retreat(Advance(ptr, i - 1), Advance(ptr, fill)) >= n
           /\ \A i \in 1..n :
                  Retreat(Advance(Advance(ptr, fill), i - 1), Advance(ptr, fill)) = i - 1
BY WindowAssumption DEF Advance, Retreat, Slots

-----------------------------------------------------------------------------
(* Runs of slots *)

LEMMA CopiedSeq ==
    ASSUME m_buffer \in [Slots -> Byte],
           NEW ptr \in Slots, NEW n \in 0..m_size
    PROVE  /\ Copied(ptr, n) \in Seq(Byte)
           /\ Len(Copied(ptr, n)) = n
           /\ \A i \in 1..n : Copied(ptr, n)[i] = m_buffer[Advance(ptr, i - 1)]
<1>1. \A i \in 1..n : Advance(ptr, i - 1) \in Slots
    BY WindowAssumption, AdvanceSlot
<1>2. Copied(ptr, n) \in [1..n -> Byte]
    BY <1>1 DEF Copied
<1>3. n \in Nat
    BY WindowAssumption
<1>. QED BY <1>2, <1>3 DEF Copied

\* Two runs, the second where the first ends, are one.
LEMMA JoinRuns ==
    ASSUME m_buffer \in [Slots -> Byte],
           NEW ptr \in Slots, NEW m \in 0..m_size, NEW n \in 0..m_size,
           m + n <= m_size
    PROVE  Copied(ptr, m) \o Copied(Advance(ptr, m), n) = Copied(ptr, m + n)
<1> DEFINE a == Copied(ptr, m)
           b == Copied(Advance(ptr, m), n)
           c == Copied(ptr, m + n)
<1>1. /\ a \in Seq(Byte) /\ Len(a) = m
      /\ \A i \in 1..m : a[i] = m_buffer[Advance(ptr, i - 1)]
    BY CopiedSeq
<1>2. /\ b \in Seq(Byte) /\ Len(b) = n
      /\ \A i \in 1..n : b[i] = m_buffer[Advance(Advance(ptr, m), i - 1)]
    <2>1. Advance(ptr, m) \in Slots
        BY AdvanceSlot
    <2>. QED BY <2>1, CopiedSeq
<1>3. /\ c \in Seq(Byte) /\ Len(c) = m + n
      /\ \A i \in 1..(m + n) : c[i] = m_buffer[Advance(ptr, i - 1)]
    <2>1. m + n \in 0..m_size
        BY WindowAssumption
    <2>. QED BY <2>1, CopiedSeq
<1>4. /\ a \o b \in Seq(Byte) /\ Len(a \o b) = m + n
      /\ \A i \in 1..(m + n) : (a \o b)[i] = IF i <= m THEN a[i] ELSE b[i - m]
    <2>1. a \in Seq(Byte) /\ b \in Seq(Byte) /\ Len(a) = m /\ Len(b) = n
        BY <1>1, <1>2
    <2> HIDE DEF a, b
    <2>2. /\ a \o b \in Seq(Byte) /\ Len(a \o b) = Len(a) + Len(b)
          /\ \A i \in 1..(Len(a) + Len(b)) :
                 (a \o b)[i] = IF i <= Len(a) THEN a[i] ELSE b[i - Len(a)]
        BY <2>1, ConcatProperties, Zenon
    <2>. QED BY <2>1, <2>2, Zenon
<1>5. ASSUME NEW i \in 1..(m + n)
      PROVE  (a \o b)[i] = c[i]
    <2>1. CASE i <= m
        <3>1. i \in 1..m
            BY <2>1, WindowAssumption
        <3> HIDE DEF a, b, c
        <3>. QED BY <2>1, <3>1, <1>1, <1>3, <1>4
    <2>2. CASE ~(i <= m)
        <3>1. /\ i - m \in 1..n
              /\ i - m - 1 \in 0..m_size
              /\ m + (i - m - 1) <= m_size
              /\ m + (i - m - 1) = i - 1
            BY <2>2, WindowAssumption
        <3>2. Advance(Advance(ptr, m), i - m - 1) = Advance(ptr, i - 1)
            BY <3>1, AdvanceTwice
        <3> HIDE DEF a, b, c
        <3>3. (a \o b)[i] = b[i - m]
            BY <2>2, <1>4
        <3>4. b[i - m] = m_buffer[Advance(Advance(ptr, m), i - m - 1)]
            BY <3>1, <1>2
        <3>5. c[i] = m_buffer[Advance(ptr, i - 1)]
            BY <1>3
        <3>. QED BY <3>2, <3>3, <3>4, <3>5, Zenon
    <2>. QED BY <2>1, <2>2
<1> HIDE DEF a, b, c
<1>6. a \o b = c
    BY <1>3, <1>4, <1>5, SeqEqual
<1>. QED BY <1>6 DEF a, b, c

\* The first k bytes of a run, and those behind them.
LEMMA CutRun ==
    ASSUME m_buffer \in [Slots -> Byte],
           NEW ptr \in Slots, NEW n \in 0..m_size, NEW k \in 0..n
    PROVE  /\ SubSeq(Copied(ptr, n), 1, k) = Copied(ptr, k)
           /\ SubSeq(Copied(ptr, n), k + 1, n) = Copied(Advance(ptr, k), n - k)
<1> DEFINE whole == Copied(ptr, n)
           a == Copied(ptr, k)
           b == Copied(Advance(ptr, k), n - k)
<1>1. k \in 0..m_size /\ n - k \in 0..m_size /\ n \in Nat
    BY WindowAssumption
<1>2. /\ whole \in Seq(Byte) /\ Len(whole) = n
      /\ \A i \in 1..n : whole[i] = m_buffer[Advance(ptr, i - 1)]
    BY CopiedSeq
<1>3. /\ a \in Seq(Byte) /\ Len(a) = k
      /\ \A i \in 1..k : a[i] = m_buffer[Advance(ptr, i - 1)]
    BY <1>1, CopiedSeq
<1>4. /\ b \in Seq(Byte) /\ Len(b) = n - k
      /\ \A i \in 1..(n - k) : b[i] = m_buffer[Advance(Advance(ptr, k), i - 1)]
    <2>1. Advance(ptr, k) \in Slots
        BY <1>1, AdvanceSlot
    <2>. QED BY <1>1, <2>1, CopiedSeq
<1>5. ASSUME NEW i \in 1..(n - k)
      PROVE  b[i] = whole[k + i]
    <2>1. /\ i - 1 \in 0..m_size /\ k + (i - 1) <= m_size
          /\ k + i \in 1..n /\ k + i - 1 = k + (i - 1)
        BY WindowAssumption
    <2>2. Advance(Advance(ptr, k), i - 1) = Advance(ptr, k + i - 1)
        BY <1>1, <2>1, AdvanceTwice
    <2> HIDE DEF whole, b
    <2>3. b[i] = m_buffer[Advance(Advance(ptr, k), i - 1)]
        BY <1>4
    <2>4. whole[k + i] = m_buffer[Advance(ptr, k + i - 1)]
        BY <1>2, <2>1
    <2>. QED BY <2>2, <2>3, <2>4, Zenon
<1> HIDE DEF whole, a, b
<1>6. SubSeq(whole, 1, k) = a
    <2> DEFINE s == SubSeq(whole, 1, k)
    <2>1. \A i \in 1..k : whole[i] \in Byte
        BY <1>1, <1>2, ElementOfSeq
    <2>2. /\ s \in Seq(Byte) /\ Len(s) = k
          /\ \A i \in 1..k : s[i] = whole[i]
        BY <1>1, <2>1, SubSeqProperties
    <2> HIDE DEF s
    <2>3. ASSUME NEW i \in 1..k
          PROVE  s[i] = a[i]
        <3>1. i \in 1..n
            BY <1>1
        <3>. QED BY <3>1, <1>2, <1>3, <2>2
    <2>4. s = a
        BY <1>3, <2>2, <2>3, SeqEqual
    <2>. QED BY <2>4 DEF s
<1>7. SubSeq(whole, k + 1, n) = b
    <2> DEFINE s == SubSeq(whole, k + 1, n)
    <2>1. \A i \in (k + 1)..n : whole[i] \in Byte
        BY <1>1, <1>2, ElementOfSeq
    <2>2. /\ s \in Seq(Byte) /\ Len(s) = n - k
          /\ \A i \in 1..(n - k) : s[i] = whole[k + i]
        BY <1>1, <2>1, SubSeqProperties
    <2> HIDE DEF s
    <2>3. \A i \in 1..(n - k) : s[i] = b[i]
        BY <1>5, <2>2
    <2>4. s = b
        BY <1>4, <2>2, <2>3, SeqEqual
    <2>. QED BY <2>4 DEF s
<1>. QED BY <1>6, <1>7 DEF whole, a, b

-----------------------------------------------------------------------------
(* The counters and pointers *)

RingInv == TypeOK /\ WriteFollowsRead

LEMMA RingInvInductive ==
    /\ Init => RingInv
    /\ RingInv /\ [Next]_vars => RingInv'
<1>1. Init => RingInv
    BY WindowAssumption, EmptySeq
    DEF Init, RingBufferCreate, RingInv, TypeOK, WriteFollowsRead, Advance, Slots
<1>2. ASSUME RingInv, [Next]_vars
      PROVE  RingInv'
    <2>. USE <1>2 DEF RingInv
    <2>0. /\ m_fillCount \in 0..m_size /\ m_backCount \in 0..m_back_size
          /\ m_readPtr \in Slots /\ m_writePtr \in Slots
          /\ m_buffer \in [Slots -> Byte] /\ out \in Seq(Byte)
          /\ m_fillCount + m_backCount <= m_size
          /\ m_writePtr = Advance(m_readPtr, m_fillCount)
        BY DEF TypeOK, WriteFollowsRead
    <2>1. ASSUME NEW size \in 1..m_size, RingBufferReadData(size)
          PROVE  RingInv'
        <3>1. /\ size \in 0..m_size /\ m_fillCount - size \in 0..m_size
              /\ size + (m_fillCount - size) <= m_size
              /\ size + (m_fillCount - size) = m_fillCount
            BY <2>0, <2>1, WindowAssumption DEF RingBufferReadData
        <3>2. out' \in Seq(Byte)
            BY <2>0, <2>1, <3>1, CopiedSeq DEF RingBufferReadData
        <3>3. Advance(m_readPtr, size) \in Slots
            BY <2>0, <3>1, AdvanceSlot
        <3>4. TypeOK'
            BY <2>0, <2>1, <3>1, <3>2, <3>3, WindowAssumption
            DEF RingBufferReadData, TypeOK, AtMost
        <3>5. Advance(Advance(m_readPtr, size), m_fillCount - size)
                  = Advance(m_readPtr, m_fillCount)
            BY <2>0, <3>1, AdvanceTwice
        <3>6. m_fillCount' + m_backCount' <= m_size
            BY <2>0, <2>1, <3>1, WindowAssumption DEF RingBufferReadData, AtMost
        <3>7. m_writePtr' = Advance(m_readPtr', m_fillCount')
            BY <2>0, <2>1, <3>5 DEF RingBufferReadData
        <3>. QED BY <3>4, <3>6, <3>7 DEF WriteFollowsRead
    <2>2. ASSUME NEW size \in 1..m_size, SkipBack(size)
          PROVE  RingInv'
        <3>1. /\ size \in 0..m_size /\ m_fillCount + size \in 0..m_size
              /\ m_fillCount + size - size = m_fillCount
              /\ size <= m_fillCount + size
            BY <2>0, <2>2, WindowAssumption DEF SkipBack
        <3>2. Retreat(m_readPtr, size) \in Slots
            BY <2>0, <3>1, RetreatSlot
        <3>3. TypeOK'
            BY <2>0, <2>2, <3>1, <3>2, WindowAssumption DEF SkipBack, TypeOK
        <3>4. Advance(Retreat(m_readPtr, size), m_fillCount + size)
                  = Advance(m_readPtr, m_fillCount)
            BY <2>0, <3>1, AdvanceRetreat
        <3>. QED BY <2>0, <2>2, <3>1, <3>3, <3>4, WindowAssumption
             DEF SkipBack, WriteFollowsRead
    <2>3. ASSUME NEW size \in 1..m_size, SkipForward(size)
          PROVE  RingInv'
        <3>1. /\ size \in 0..m_size /\ m_fillCount - size \in 0..m_size
              /\ size + (m_fillCount - size) <= m_size
              /\ size + (m_fillCount - size) = m_fillCount
            BY <2>0, <2>3, WindowAssumption DEF SkipForward
        <3>2. Advance(m_readPtr, size) \in Slots
            BY <2>0, <3>1, AdvanceSlot
        <3>3. TypeOK'
            BY <2>0, <2>3, <3>1, <3>2, WindowAssumption DEF SkipForward, TypeOK
        <3>4. Advance(Advance(m_readPtr, size), m_fillCount - size)
                  = Advance(m_readPtr, m_fillCount)
            BY <2>0, <3>1, AdvanceTwice
        <3>. QED BY <2>0, <2>3, <3>1, <3>3, <3>4, WindowAssumption
             DEF SkipForward, WriteFollowsRead
    <2>4. ASSUME NEW n \in 1..m_size, NEW bytes \in [1..n -> Byte],
                 RingBufferWriteData(bytes)
          PROVE  RingInv'
        <3>1. n \in Nat /\ bytes \in Seq(Byte) /\ Len(bytes) = n
            BY WindowAssumption
        <3>2. /\ n \in 0..m_size /\ m_fillCount + n \in 0..m_size
              /\ m_fillCount + n + m_backCount <= m_size
              /\ m_fillCount + n <= m_size
            BY <2>0, <2>4, <3>1, WindowAssumption DEF RingBufferWriteData, MaxWriteSize
        <3>3. Advance(m_writePtr, n) \in Slots
            BY <2>0, <3>2, AdvanceSlot
        <3>4. Overwritten(bytes) \in [Slots -> Byte]
            <4>1. ASSUME NEW slot \in Slots
                  PROVE  Retreat(slot, m_writePtr) \in Nat
                BY <2>0, WindowAssumption DEF Retreat, Slots
            <4>. QED BY <2>0, <3>1, <4>1 DEF Overwritten
        <3>5. TypeOK'
            BY <2>0, <2>4, <3>1, <3>2, <3>3, <3>4 DEF RingBufferWriteData, TypeOK
        <3>6. Advance(Advance(m_readPtr, m_fillCount), n)
                  = Advance(m_readPtr, m_fillCount + n)
            BY <2>0, <3>2, AdvanceTwice
        <3>. QED BY <2>0, <2>4, <3>1, <3>2, <3>5, <3>6
             DEF RingBufferWriteData, WriteFollowsRead
    <2>5. CASE RingBufferClear
        BY <2>0, <2>5, WindowAssumption
        DEF RingBufferClear, TypeOK, WriteFollowsRead, Advance, Slots
    <2>6. CASE UNCHANGED vars
        BY <2>6
        DEF vars, TypeOK, WriteFollowsRead, Advance, Slots
    <2>. QED BY <1>2, <2>1, <2>2, <2>3, <2>4, <2>5, <2>6 DEF Next
<1>. QED BY <1>1, <1>2

\* The counters and the pointers of the ring buffer keep their meaning: what
\* is kept and what is unread do not overlap, and writing goes on behind the
\* last byte written.
THEOREM RingInvariant == Spec => [](TypeOK /\ WriteFollowsRead)
<1>. QED BY RingInvInductive, PTL DEF Spec, RingInv

-----------------------------------------------------------------------------
(* The window *)

LEMMA Typed ==
    ASSUME RingInv
    PROVE  /\ m_fillCount \in 0..m_size /\ m_backCount \in 0..m_size
           /\ m_backCount <= m_back_size
           /\ m_readPtr \in Slots /\ m_writePtr \in Slots
           /\ m_buffer \in [Slots -> Byte]
           /\ m_fillCount + m_backCount <= m_size
           /\ m_writePtr = Advance(m_readPtr, m_fillCount)
BY WindowAssumption DEF RingInv, TypeOK, WriteFollowsRead

LEMMA WindowLengths ==
    ASSUME RingInv
    PROVE  /\ Kept \in Seq(Byte) /\ Len(Kept) = m_backCount
           /\ Unread \in Seq(Byte) /\ Len(Unread) = m_fillCount
           /\ Retreat(m_readPtr, m_backCount) \in Slots
           /\ Advance(Retreat(m_readPtr, m_backCount), m_backCount) = m_readPtr
<1>1. Retreat(m_readPtr, m_backCount) \in Slots
    BY Typed, RetreatSlot
<1>2. Advance(Retreat(m_readPtr, m_backCount), m_backCount) = Advance(m_readPtr, 0)
    <2>1. m_backCount - m_backCount = 0 /\ m_backCount <= m_backCount
        BY Typed
    <2>. QED BY <2>1, Typed, AdvanceRetreat
<1>3. Advance(m_readPtr, 0) = m_readPtr
    BY Typed, WindowAssumption DEF Advance, Slots
<1>. QED BY <1>1, <1>2, <1>3, Typed, CopiedSeq DEF Kept, Unread

\* The bytes that n more put behind the position, and the newest of them.
LEMMA ConsumedRuns ==
    ASSUME RingInv, NEW n \in 0..m_fillCount, NEW stay \in 0..(m_backCount + n)
    PROVE  /\ SubSeq(Unread, 1, n) = Copied(m_readPtr, n)
           /\ Window!Rest(Unread, n)
                  = Copied(Advance(m_readPtr, n), m_fillCount - n)
           /\ Len(Kept \o SubSeq(Unread, 1, n)) = m_backCount + n
           /\ Window!Newest(Kept \o SubSeq(Unread, 1, n), stay)
                  = Copied(Retreat(Advance(m_readPtr, n), stay), stay)
<1> DEFINE start == Retreat(m_readPtr, m_backCount)
           all == m_backCount + n
<1>1. /\ n \in 0..m_size /\ all \in 0..m_size /\ stay \in 0..m_size
      /\ all - stay \in 0..all /\ all - (all - stay) = stay
      /\ m_backCount + n <= m_size /\ all \in Nat
    BY Typed, WindowAssumption
<1>2. /\ start \in Slots /\ Advance(start, m_backCount) = m_readPtr
      /\ Len(Unread) = m_fillCount
    BY WindowLengths
<1>3. /\ SubSeq(Unread, 1, n) = Copied(m_readPtr, n)
      /\ Window!Rest(Unread, n) = Copied(Advance(m_readPtr, n), m_fillCount - n)
    <2>1. m_buffer \in [Slots -> Byte] /\ m_readPtr \in Slots /\ m_fillCount \in 0..m_size
        BY Typed
    <2>2. /\ SubSeq(Copied(m_readPtr, m_fillCount), 1, n) = Copied(m_readPtr, n)
          /\ SubSeq(Copied(m_readPtr, m_fillCount), n + 1, m_fillCount)
                 = Copied(Advance(m_readPtr, n), m_fillCount - n)
        BY <2>1, CutRun
    <2>. QED BY <1>2, <2>2 DEF Unread, Window!Rest
<1>4. Kept \o SubSeq(Unread, 1, n) = Copied(start, all)
    <2>1. Copied(start, m_backCount) \o Copied(Advance(start, m_backCount), n)
              = Copied(start, all)
        BY <1>1, <1>2, Typed, JoinRuns
    <2>. QED BY <2>1, <1>2, <1>3 DEF Kept
<1>5. Len(Copied(start, all)) = all
    BY <1>1, <1>2, Typed, CopiedSeq
<1>6. SubSeq(Copied(start, all), (all - stay) + 1, all)
          = Copied(Advance(start, all - stay), stay)
    <2>1. SubSeq(Copied(start, all), (all - stay) + 1, all)
              = Copied(Advance(start, all - stay), all - (all - stay))
        <3> HIDE DEF start, all
        <3>. QED BY <1>1, <1>2, Typed, CutRun
    <2>. QED BY <2>1, <1>1
<1>7. Advance(start, all - stay) = Retreat(Advance(m_readPtr, n), stay)
    <2>1. m_readPtr \in Slots /\ m_backCount \in 0..m_size /\ stay <= m_backCount + n
        BY <1>1, Typed, WindowAssumption
    <2>. QED BY <1>1, <2>1, RunEnds
<1> HIDE DEF start, all
<1>8. Window!Newest(Copied(start, all), stay)
          = SubSeq(Copied(start, all), (all - stay) + 1, all)
    BY <1>1, <1>5 DEF Window!Newest
<1>9. Window!Newest(Kept \o SubSeq(Unread, 1, n), stay)
          = Copied(Retreat(Advance(m_readPtr, n), stay), stay)
    BY <1>4, <1>6, <1>7, <1>8
<1>. QED BY <1>3, <1>4, <1>5, <1>9 DEF all

LEMMA ReadRefines ==
    ASSUME RingInv, NEW size \in 1..m_size, RingBufferReadData(size)
    PROVE  Window!Read(size)
<1> DEFINE stay == AtMost(m_back_size, m_backCount + size)
<1>1. /\ size \in 0..m_fillCount /\ stay \in 0..(m_backCount + size)
      /\ m_backCount' = stay
    BY Typed, WindowAssumption DEF RingBufferReadData, AtMost
<1>2. Kept' = Copied(Retreat(Advance(m_readPtr, size), stay), stay)
    BY <1>1 DEF RingBufferReadData, Kept, Copied
<1>3. Unread' = Copied(Advance(m_readPtr, size), m_fillCount - size)
    BY DEF RingBufferReadData, Unread, Copied
<1>4. out' = Copied(m_readPtr, size)
    BY DEF RingBufferReadData
<1>5. Len(Unread) = m_fillCount
    BY WindowLengths
<1>6. Window!AtMost(m_back_size, m_backCount + size) = stay
    BY DEF AtMost, Window!AtMost
<1> HIDE DEF stay
<1>. QED BY <1>1, <1>2, <1>3, <1>4, <1>5, <1>6, ConsumedRuns
     DEF Window!Read, Window!AfterRead, Window!Consumed, View

LEMMA SkipForwardRefines ==
    ASSUME RingInv, NEW size \in 1..m_size, SkipForward(size)
    PROVE  Window!SkipForward(size)
<1>1. /\ size \in 0..m_fillCount /\ m_backCount \in 0..(m_backCount + size)
      /\ m_backCount' = m_backCount
    BY Typed, WindowAssumption DEF SkipForward
<1>2. Kept' = Copied(Retreat(Advance(m_readPtr, size), m_backCount), m_backCount)
    BY DEF SkipForward, Kept, Copied
<1>3. Unread' = Copied(Advance(m_readPtr, size), m_fillCount - size)
    BY DEF SkipForward, Unread, Copied
<1>4. Len(Unread) = m_fillCount /\ Len(Kept) = m_backCount
    BY WindowLengths
<1>5. Window!AtMost(m_backCount, m_backCount + size) = m_backCount
    BY <1>1, Typed DEF Window!AtMost
<1>. QED BY <1>1, <1>2, <1>3, <1>4, <1>5, ConsumedRuns
     DEF SkipForward, Window!SkipForward, Window!AfterSkip, Window!Consumed, View

LEMMA SkipBackRefines ==
    ASSUME RingInv, NEW size \in 1..m_size, SkipBack(size)
    PROVE  Window!SkipBack(size)
<1> DEFINE start == Retreat(m_readPtr, m_backCount)
           less == m_backCount - size
           back == Retreat(m_readPtr, size)
<1>1. /\ size \in 0..m_size /\ less \in 0..m_backCount
      /\ m_backCount - less = size /\ size + m_fillCount <= m_size
      /\ size + less <= m_size /\ less \in 0..m_size /\ size + less = m_backCount
    BY Typed, WindowAssumption DEF SkipBack
<1>2. /\ Len(Kept) = m_backCount /\ start \in Slots
    BY WindowLengths
<1>3. SubSeq(Kept, 1, less) = Copied(start, less)
    BY <1>1, <1>2, Typed, CutRun DEF Kept
<1>4. Retreat(back, less) = start
    BY <1>1, Typed, RetreatTwice
<1>5. Window!Newest(Kept, size) = Copied(back, size)
    <2>1. Window!Newest(Kept, size) = SubSeq(Kept, less + 1, m_backCount)
        BY <1>2 DEF Window!Newest
    <2>2. SubSeq(Kept, less + 1, m_backCount)
              = Copied(Advance(start, less), m_backCount - less)
        <3> HIDE DEF less, start
        <3>1. Kept = Copied(start, m_backCount)
            BY DEF Kept, start
        <3>. QED BY <3>1, <1>1, <1>2, Typed, CutRun
    <2>3. Advance(start, less) = back
        BY <1>1, Typed, AdvanceRetreat
    <2>. QED BY <2>1, <2>2, <2>3, <1>1
<1>6. Copied(back, size) \o Unread = Copied(back, size + m_fillCount)
    <2>1. back \in Slots
        BY <1>1, Typed, RetreatSlot
    <2>2. Advance(back, size) = m_readPtr
        <3>1. /\ m_readPtr \in Slots /\ m_backCount \in 0..m_size
              /\ 0 \in 0..m_size /\ 0 <= 0 + size /\ 0 + size <= m_size
            BY <1>1, Typed, WindowAssumption
        <3>. QED BY <1>1, <3>1, RunEnds
    <2>3. Copied(back, size) \o Copied(Advance(back, size), m_fillCount)
              = Copied(back, size + m_fillCount)
        <3> HIDE DEF back
        <3>. QED BY <1>1, <2>1, Typed, JoinRuns
    <2>. QED BY <2>2, <2>3 DEF Unread
<1>7. Kept' = Copied(Retreat(back, less), less)
    BY DEF SkipBack, Kept, Copied
<1>8. Unread' = Copied(back, m_fillCount + size)
    BY DEF SkipBack, Unread, Copied
<1>9. m_fillCount + size = size + m_fillCount
    BY Typed
<1>. QED BY <1>1, <1>2, <1>3, <1>4, <1>5, <1>6, <1>7, <1>8, <1>9
     DEF SkipBack, Window!SkipBack, Window!AfterSkipBack, View

LEMMA WriteRefines ==
    ASSUME RingInv, NEW n \in 1..m_size, NEW bytes \in [1..n -> Byte],
           RingBufferWriteData(bytes)
    PROVE  n \in 1..m_size /\ Window!Write(bytes)
<1> DEFINE start == Retreat(m_readPtr, m_backCount)
<1>1. bytes \in Seq(Byte) /\ Len(bytes) = n /\ n \in Nat
    BY WindowAssumption
<1>2. /\ n \in 1..m_size /\ n \in 0..m_size
      /\ m_fillCount + m_backCount + n <= m_size
      /\ m_fillCount + n \in 0..m_size
    BY <1>1, Typed, WindowAssumption DEF RingBufferWriteData, MaxWriteSize
<1>3. /\ m_readPtr \in Slots /\ m_writePtr = Advance(m_readPtr, m_fillCount)
      /\ m_fillCount \in 0..m_size /\ m_backCount \in 0..m_size
      /\ m_buffer \in [Slots -> Byte] /\ start \in Slots
      /\ m_backCount + m_fillCount <= m_size
    BY Typed, WindowLengths
<1>4. /\ \A i \in 1..m_backCount : Retreat(Advance(start, i - 1), m_writePtr) >= n
      /\ \A i \in 1..m_fillCount : Retreat(Advance(m_readPtr, i - 1), m_writePtr) >= n
      /\ \A i \in 1..n : Retreat(Advance(m_writePtr, i - 1), m_writePtr) = i - 1
    BY <1>2, <1>3, Distances
<1>5. ASSUME NEW slot \in Slots
      PROVE  m_buffer'[slot] = IF Retreat(slot, m_writePtr) < n
                                 THEN bytes[Retreat(slot, m_writePtr) + 1]
                                 ELSE m_buffer[slot]
    BY <1>1 DEF RingBufferWriteData, Overwritten
<1>6. /\ Kept' = [i \in 1..m_backCount |-> m_buffer'[Advance(start, i - 1)]]
      /\ Unread' = [i \in 1..(m_fillCount + n) |-> m_buffer'[Advance(m_readPtr, i - 1)]]
    BY <1>1 DEF RingBufferWriteData, Kept, Unread, Copied
<1>7. Kept' = Kept
    <2>1. ASSUME NEW i \in 1..m_backCount
          PROVE  m_buffer'[Advance(start, i - 1)] = m_buffer[Advance(start, i - 1)]
        <3>1. i - 1 \in 0..m_size
            BY <1>3, WindowAssumption
        <3>2. Advance(start, i - 1) \in Slots
            BY <1>3, <3>1, AdvanceSlot
        <3>3. Retreat(Advance(start, i - 1), m_writePtr) \in Nat
            BY <1>3, <3>2, WindowAssumption DEF Retreat, Advance, Slots
        <3>. QED BY <1>1, <1>4, <1>5, <3>2, <3>3
    <2>. QED BY <1>6, <2>1 DEF Kept, Copied
<1>8. Unread' = Unread \o bytes
    <2>1. /\ Unread \in Seq(Byte) /\ Len(Unread) = m_fillCount
          /\ \A i \in 1..m_fillCount : Unread[i] = m_buffer[Advance(m_readPtr, i - 1)]
        BY <1>3, CopiedSeq DEF Unread
    <2>2. ASSUME NEW i \in 1..m_fillCount
          PROVE  m_buffer'[Advance(m_readPtr, i - 1)] = Unread[i]
        <3>1. i - 1 \in 0..m_size
            BY <1>3, WindowAssumption
        <3>2. Advance(m_readPtr, i - 1) \in Slots
            BY <1>3, <3>1, AdvanceSlot
        <3>3. Retreat(Advance(m_readPtr, i - 1), m_writePtr) \in Nat
            BY <1>3, <3>2, WindowAssumption DEF Retreat, Advance, Slots
        <3>. QED BY <1>1, <1>4, <1>5, <2>1, <3>2, <3>3
    <2>3. ASSUME NEW i \in (m_fillCount + 1)..(m_fillCount + n)
          PROVE  m_buffer'[Advance(m_readPtr, i - 1)] = bytes[i - m_fillCount]
        <3>1. /\ i - m_fillCount \in 1..n /\ i - m_fillCount - 1 \in 0..m_size
              /\ m_fillCount + (i - m_fillCount - 1) <= m_size
              /\ m_fillCount + (i - m_fillCount - 1) = i - 1
              /\ i - m_fillCount - 1 + 1 = i - m_fillCount
              /\ i - m_fillCount - 1 < n
            BY <1>2, <1>3, WindowAssumption
        <3>2. Advance(m_readPtr, i - 1) = Advance(m_writePtr, i - m_fillCount - 1)
            BY <1>3, <3>1, AdvanceTwice
        <3>3. Advance(m_writePtr, i - m_fillCount - 1) \in Slots
            <4>1. m_writePtr \in Slots
                BY Typed
            <4>. QED BY <4>1, <3>1, AdvanceSlot
        <3>4. Retreat(Advance(m_writePtr, i - m_fillCount - 1), m_writePtr)
                  = i - m_fillCount - 1
            BY <1>4, <3>1
        <3>. QED BY <1>5, <3>1, <3>2, <3>3, <3>4
    <2>4. /\ Unread \o bytes \in Seq(Byte) /\ Len(Unread \o bytes) = m_fillCount + n
          /\ \A i \in 1..(m_fillCount + n) :
                 (Unread \o bytes)[i] =
                     IF i <= m_fillCount THEN Unread[i] ELSE bytes[i - m_fillCount]
        BY <1>1, <2>1, ConcatProperties
    <2>5. ASSUME NEW i \in 1..(m_fillCount + n)
          PROVE  m_buffer'[Advance(m_readPtr, i - 1)] = (Unread \o bytes)[i]
        <3>1. CASE i <= m_fillCount
            <4>1. i \in 1..m_fillCount
                BY <3>1, <1>3
            <4>. QED BY <3>1, <4>1, <2>2, <2>4
        <3>2. CASE ~(i <= m_fillCount)
            <4>1. i \in (m_fillCount + 1)..(m_fillCount + n)
                BY <3>2, <1>3, <1>1
            <4>. QED BY <3>2, <4>1, <2>3, <2>4
        <3>. QED BY <3>1, <3>2
    <2>6. Unread \o bytes = [i \in 1..(m_fillCount + n) |-> (Unread \o bytes)[i]]
        <3> DEFINE s == Unread \o bytes
        <3>1. s \in Seq(Byte) /\ Len(s) = m_fillCount + n
            BY <2>4
        <3> HIDE DEF s
        <3>2. s = [i \in 1..(m_fillCount + n) |-> s[i]]
            BY <3>1, LenProperties
        <3>. QED BY <3>2 DEF s
    <2>. QED BY <1>6, <2>5, <2>6
<1>9. Len(bytes) <= Window!Room(View)
    <2>1. Len(Kept) = m_backCount /\ Len(Unread) = m_fillCount
        BY WindowLengths
    <2>. QED BY <1>1, <1>2, <1>3, <2>1, WindowAssumption DEF Window!Room, View
<1>10. View' = Window!AfterWrite(View, bytes)
    BY <1>7, <1>8 DEF View, Window!AfterWrite
<1>. QED BY <1>2, <1>9, <1>10 DEF RingBufferWriteData, Window!Write

LEMMA ClearRefines ==
    ASSUME RingBufferClear
    PROVE  Window!Clear
<1>1. Kept' = <<>> /\ Unread' = <<>>
    BY DEF RingBufferClear, Kept, Unread, Copied
<1>. QED BY <1>1 DEF RingBufferClear, Window!Clear, Window!EmptyWindow, View

LEMMA StutterRefines ==
    ASSUME UNCHANGED vars
    PROVE  UNCHANGED Window!vars
BY DEF vars, Window!vars, View, Kept, Unread, Copied

LEMMA WindowStep == RingInv /\ [Next]_vars => [Window!Next]_Window!vars
<1> SUFFICES ASSUME RingInv, [Next]_vars
             PROVE  [Window!Next]_Window!vars
    OBVIOUS
<1>1. ASSUME NEW size \in 1..m_size, RingBufferReadData(size)
      PROVE  Window!Next
    BY <1>1, ReadRefines DEF Window!Next
<1>2. ASSUME NEW size \in 1..m_size, SkipBack(size)
      PROVE  Window!Next
    BY <1>2, SkipBackRefines DEF Window!Next
<1>3. ASSUME NEW size \in 1..m_size, SkipForward(size)
      PROVE  Window!Next
    BY <1>3, SkipForwardRefines DEF Window!Next
<1>4. ASSUME NEW n \in 1..m_size, NEW bytes \in [1..n -> Byte],
             RingBufferWriteData(bytes)
      PROVE  Window!Next
    BY <1>4, WriteRefines DEF Window!Next
<1>5. CASE RingBufferClear
    BY <1>5, ClearRefines DEF Window!Next
<1>6. CASE UNCHANGED vars
    BY <1>6, StutterRefines
<1>. QED BY <1>1, <1>2, <1>3, <1>4, <1>5, <1>6 DEF Next

\* The ring buffer is the window: what is read is what was written, in order,
\* from where reads and skips have moved, for every size of the memory.
THEOREM RingBufferIsAWindow == Spec => ImplementsWindow
<1>1. Init => Window!Init
    BY DEF Init, RingBufferCreate, Window!Init, Window!EmptyWindow, View, Kept, Unread, Copied
<1>. QED BY <1>1, RingInvInductive, WindowStep, PTL DEF Spec, ImplementsWindow
=============================================================================
