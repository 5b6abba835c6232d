----------------------------- MODULE RingBuffer -----------------------------
(***************************************************************************)
(* framework/utils/ringBuffer.cpp: the bytes of a connection between the   *)
(* thread of the network and the reader.  CURLConnection2 calls Read,      *)
(* Write and SkipBytes with mCurlCbMutex held, so that each is one step;   *)
(* a call that the buffer refuses returns 0 and changes nothing.           *)
(***************************************************************************)
EXTENDS ByteWindow

CONSTANT Byte

VARIABLES
    m_buffer,     \* m_size bytes
    m_readPtr, m_writePtr,
    m_fillCount,  \* bytes that were not read
    m_backCount,  \* bytes that were read and are still there
    out           \* what the last read copied

vars == <<m_buffer, m_readPtr, m_writePtr, m_fillCount, m_backCount, out>>

Slots == 0..(m_size - 1)

TypeOK ==
    /\ m_buffer \in [Slots -> Byte]
    /\ m_readPtr \in Slots
    /\ m_writePtr \in Slots
    /\ m_fillCount \in 0..m_size
    /\ m_backCount \in 0..m_back_size
    /\ out \in Seq(Byte)

\* RingBufferCreate(): the memory is not initialized.
RingBufferCreate ==
    /\ m_buffer \in [Slots -> Byte]
    /\ m_readPtr = 0 /\ m_writePtr = 0
    /\ m_fillCount = 0 /\ m_backCount = 0
    /\ out = <<>>

MaxWriteSize == m_size - m_fillCount - m_backCount

\* A pointer moved by n bytes, around the end of the memory; the pointer is
\* never left at m_size.
Advance(ptr, n) ==
    LET moved == IF n + ptr > m_size THEN n - (m_size - ptr) ELSE ptr + n
    IN  IF moved = m_size THEN 0 ELSE moved
Retreat(ptr, n) ==
    LET moved == IF ptr < n THEN m_size - (n - ptr) ELSE ptr - n
    IN  IF moved = m_size THEN 0 ELSE moved

\* The two memcpy() of a read and of a write that reach the end.
Copied(ptr, n) == [i \in 1..n |-> m_buffer[Advance(ptr, i - 1)]]
Overwritten(bytes) ==
    [slot \in Slots |->
        LET offset == Retreat(slot, m_writePtr)
        IN  IF offset < Len(bytes) THEN bytes[offset + 1] ELSE m_buffer[slot]]

RingBufferReadData(size) ==
    /\ size <= m_fillCount
    /\ out' = Copied(m_readPtr, size)
    /\ m_readPtr' = Advance(m_readPtr, size)
    /\ m_fillCount' = m_fillCount - size
    /\ m_backCount' = AtMost(m_back_size, m_backCount + size)
    /\ UNCHANGED <<m_buffer, m_writePtr>>

RingBufferWriteData(bytes) ==
    /\ Len(bytes) <= MaxWriteSize
    /\ m_buffer' = Overwritten(bytes)
    /\ m_writePtr' = Advance(m_writePtr, Len(bytes))
    /\ m_fillCount' = m_fillCount + Len(bytes)
    /\ UNCHANGED <<m_readPtr, m_backCount, out>>

\* RingBufferSkipBytes() with a negative skipSize...
SkipBack(size) ==
    /\ m_backCount >= size
    /\ m_backCount' = m_backCount - size
    /\ m_readPtr' = Retreat(m_readPtr, size)
    /\ m_fillCount' = m_fillCount + size
    /\ UNCHANGED <<m_buffer, m_writePtr, out>>

\* ...and with a positive one.
SkipForward(size) ==
    /\ size <= m_fillCount
    /\ m_readPtr' = Advance(m_readPtr, size)
    /\ m_fillCount' = m_fillCount - size
    /\ UNCHANGED <<m_buffer, m_writePtr, m_backCount, out>>

RingBufferClear ==
    /\ m_readPtr' = 0 /\ m_writePtr' = 0
    /\ m_fillCount' = 0 /\ m_backCount' = 0
    /\ UNCHANGED <<m_buffer, out>>

Init == RingBufferCreate

Next ==
    \/ \E size \in 1..m_size : RingBufferReadData(size)
    \/ \E size \in 1..m_size : SkipBack(size)
    \/ \E size \in 1..m_size : SkipForward(size)
    \/ \E n \in 1..m_size : \E bytes \in [1..n -> Byte] : RingBufferWriteData(bytes)
    \/ RingBufferClear

Spec == Init /\ [][Next]_vars

-----------------------------------------------------------------------------
\* The bytes behind the reading position are those of the last reads, so
\* that a short seek back reads them again: the window on the stream.
Kept == Copied(Retreat(m_readPtr, m_backCount), m_backCount)
Unread == Copied(m_readPtr, m_fillCount)

View == [kept |-> Kept, unread |-> Unread]

Window == INSTANCE StreamWindow WITH window <- View

\* The ring buffer gives back the bytes in the order they were written, from
\* the position that reads and skips have reached, whatever pointer is
\* wrapped and whatever was cleared: every step is one of the window.
ImplementsWindow == Window!Init /\ [][Window!Next]_Window!vars

\* What the reader has not read and what it may go back to never overlap in
\* the memory, and the next byte is written behind the last one: what
\* RingBuffergetMaxWriteSize() subtracts does not fall below zero.
WriteFollowsRead ==
    /\ m_fillCount + m_backCount <= m_size
    /\ m_writePtr = Advance(m_readPtr, m_fillCount)
=============================================================================
