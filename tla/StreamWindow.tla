---------------------------- MODULE StreamWindow ----------------------------
(***************************************************************************)
(* The specification that framework/utils/ringBuffer.cpp implements: its   *)
(* operations on a window.                                                 *)
(***************************************************************************)
EXTENDS ByteWindow

CONSTANT Byte

VARIABLES
    window,
    out      \* what the last read returned

vars == <<window, out>>

Init == window = EmptyWindow /\ out = <<>>

Read(n) ==
    /\ n <= Len(window.unread)
    /\ window' = AfterRead(window, n)
    /\ out' = SubSeq(window.unread, 1, n)

Write(bytes) ==
    /\ Len(bytes) <= Room(window)
    /\ window' = AfterWrite(window, bytes)
    /\ UNCHANGED out

SkipForward(n) ==
    /\ n <= Len(window.unread)
    /\ window' = AfterSkip(window, n)
    /\ UNCHANGED out

SkipBack(n) ==
    /\ n <= Len(window.kept)
    /\ window' = AfterSkipBack(window, n)
    /\ UNCHANGED out

Clear == window' = EmptyWindow /\ UNCHANGED out

Next ==
    \/ \E n \in 1..m_size : Read(n) \/ SkipForward(n) \/ SkipBack(n)
    \/ \E n \in 1..m_size : \E bytes \in [1..n -> Byte] : Write(bytes)
    \/ Clear

Spec == Init /\ [][Next]_vars
=============================================================================
