----------------------------- MODULE ByteWindow -----------------------------
(***************************************************************************)
(* What framework/utils/ringBuffer.cpp promises to its callers: a window   *)
(* on a stream of bytes.  Behind the reading position the bytes that were  *)
(* consumed last are kept, m_back_size of them at most, so that a short    *)
(* seek can go back; in front of it are the bytes that were not read yet.  *)
(* Kept and unread bytes share m_size places.                              *)
(***************************************************************************)
EXTENDS Integers, Sequences

CONSTANTS
    m_size,       \* RINGBUFFER_SIZE + RINGBUFFER_BACK_SIZE
    m_back_size   \* RINGBUFFER_BACK_SIZE

ASSUME WindowAssumption == m_size \in Nat \ {0} /\ m_back_size \in 0..m_size

\* The last n elements of a sequence, and all but the first n.
Newest(s, n) == SubSeq(s, Len(s) - n + 1, Len(s))
Rest(s, n) == SubSeq(s, n + 1, Len(s))
AtMost(m, n) == IF m < n THEN m ELSE n

EmptyWindow == [kept |-> <<>>, unread |-> <<>>]

Room(w) == m_size - Len(w.kept) - Len(w.unread)

\* n bytes pass behind the position, where at most "limit" bytes stay.
Consumed(w, n, limit) ==
    LET behind == w.kept \o SubSeq(w.unread, 1, n)
    IN  [kept |-> Newest(behind, AtMost(limit, Len(behind))),
         unread |-> Rest(w.unread, n)]

AfterRead(w, n) == Consumed(w, n, m_back_size)

\* A skip keeps as many bytes behind as there were: it makes room.
AfterSkip(w, n) == Consumed(w, n, Len(w.kept))

AfterSkipBack(w, n) ==
    [kept |-> SubSeq(w.kept, 1, Len(w.kept) - n),
     unread |-> Newest(w.kept, n) \o w.unread]

AfterWrite(w, bytes) == [kept |-> w.kept, unread |-> w.unread \o bytes]
=============================================================================
