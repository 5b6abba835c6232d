---------------------------- MODULE MessageQueue ----------------------------
(***************************************************************************)
(* The data structure behind PlayerMessageControl                          *)
(* (mediaPlayer/player_msg_control.cpp): the deque mMsgQueue and what      *)
(* putMsg() erases from it before it pushes a message at its back.         *)
(*                                                                         *)
(* Messages are only ever pushed at the back, so a queue is a SET of       *)
(* records whose field ticket counts the pushes: the order of the deque is *)
(* the order of the tickets, and the index of a message is the number of   *)
(* queued messages with a smaller ticket.                                  *)
(***************************************************************************)
EXTENDS Integers, FiniteSets

CONSTANT SEEK_REPEAT_TIME       \* window within which two seeks are merged

ASSUME RepeatTimeAssumption == SEEK_REPEAT_TIME \in Nat \ {0}

(* The three classes of getRepeatTimeMS(); MSG_SEEKTO is the fourth.       *)
ReplaceAllTypes ==
    {"MSG_SETDATASOURCE", "MSG_SET_BITSTREAM", "MSG_SETVIEW", "MSG_PREPARE",
     "MSG_CHANGE_VIDEO_STREAM", "MSG_CHANGE_AUDIO_STREAM",
     "MSG_CHANGE_SUBTITLE_STREAM", "MSG_MUTE", "MSG_SET_DISPLAY_MODE",
     "MSG_SET_ROTATE_MODE", "MSG_SET_MIRROR_MODE",
     "MSG_SET_VIDEO_BACKGROUND_COLOR"}

ReplaceLastTypes == {"MSG_START", "MSG_PAUSE", "MSG_SET_SPEED"}

ReplaceNoneTypes ==
    {"MSG_INTERNAL_RENDERED", "MSG_ADD_EXT_SUBTITLE",
     "MSG_SELECT_EXT_SUBTITLE", "MSG_INTERNAL_VIDEO_CLEAN_FRAME",
     "MSG_INTERNAL_VIDEO_HOLD_ON"}

AllTypes == ReplaceAllTypes \cup ReplaceLastTypes \cup ReplaceNoneTypes
                \cup {"MSG_SEEKTO"}

(* The types for which OnPlayerMsgIsPadding() may answer true.             *)
PaddableTypes ==
    {"MSG_CHANGE_VIDEO_STREAM", "MSG_CHANGE_AUDIO_STREAM",
     "MSG_CHANGE_SUBTITLE_STREAM", "MSG_SEEKTO"}

-----------------------------------------------------------------------------
Queued(q, type) == {m \in q : m.type = type}

(* The front and the back of a non-empty part of the queue.                *)
LatestOf(ms) == CHOOSE m \in ms : \A n \in ms : n.ticket <= m.ticket
OldestOf(ms) == CHOOSE m \in ms : \A n \in ms : m.ticket <= n.ticket

InFrontOf(q, m) == {n \in q : n.ticket < m.ticket}

(* REPLACE_LAST: the back of the queue is erased if it has the type.       *)
ErasedByLast(q, type) == {m \in Queued(q, type) : m = LatestOf(q)}

(* REPLACE_ALL: every queued message of the type is erased.                *)
ErasedByAll(q, type) == Queued(q, type)

(***************************************************************************)
(* MSG_SEEKTO.  putMsg() takes the iterators first and last of the oldest  *)
(* and the newest queued seek, erases last when the new seek follows it    *)
(* within SEEK_REPEAT_TIME, and then erases first when there were two      *)
(* seeks or more.  On a std::deque the first erase invalidates the other   *)
(* iterator.  When the erase closes the gap by moving the elements in      *)
(* front of it, first designates afterwards the element that preceded the  *)
(* oldest seek; when the oldest seek was the front of the queue, the erase *)
(* through the iterator in front of begin() drops the front, which is the  *)
(* oldest seek again.  Which side is moved is the library's choice:        *)
(* libstdc++ moves the front when index < size / 2, libc++ when            *)
(* index <= (size - 1) / 2, and the program is built with both.            *)
(***************************************************************************)
FrontMoves(q, erased) ==
    LET index == Cardinality(InFrontOf(q, erased))
        size  == Cardinality(q)
    IN  {index < size \div 2, index <= (size - 1) \div 2}

Designated(q, first, frontMoved) ==
    IF frontMoved /\ InFrontOf(q, first) # {}
    THEN LatestOf(InFrontOf(q, first))
    ELSE first

(* The message the second erase removes, if there is one.                  *)
ErasedThroughFirst(q, frontMoved) ==
    LET seeks == Queued(q, "MSG_SEEKTO") IN
    IF Cardinality(seeks) >= 2
    THEN {Designated(q, OldestOf(seeks), frontMoved)}
    ELSE {}

FollowsClosely(q, time) ==
    /\ Queued(q, "MSG_SEEKTO") # {}
    /\ time - LatestOf(Queued(q, "MSG_SEEKTO")).time < SEEK_REPEAT_TIME

(* A mutant: close seeks are merged, the number of the others is not       *)
(* limited.                                                                *)
MergedOnly(q, time) ==
    {IF FollowsClosely(q, time) THEN {LatestOf(Queued(q, "MSG_SEEKTO"))} ELSE {}}

(* The sets of messages a new seek stamped with time may erase.            *)
ErasedBySeek(q, time) ==
    LET last == LatestOf(Queued(q, "MSG_SEEKTO")) IN
    IF FollowsClosely(q, time)
    THEN {{last} \cup ErasedThroughFirst(q, moved) : moved \in FrontMoves(q, last)}
    ELSE {ErasedThroughFirst(q, FALSE)}
=============================================================================
