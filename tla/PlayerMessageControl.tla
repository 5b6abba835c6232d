------------------------ MODULE PlayerMessageControl ------------------------
(***************************************************************************)
(* PlayerMessageControl (mediaPlayer/player_msg_control.cpp): the mailbox  *)
(* between the threads that call the player's API and the player's main    *)
(* thread.  Any thread puts messages; the main thread takes, in one locked *)
(* pass, all those that are not padded, and handles them one by one        *)
(* without the lock.  Every locked section is one action.                  *)
(***************************************************************************)
EXTENDS MessageQueue

CONSTANTS
    Callers,      \* threads that call putMsg()
    PlayMsgType,  \* the types they put
    Url,          \* addresses the allocator may return for a url string
    NoUrl,        \* url field of a message that carries none
    NoMsg,        \* a caller outside putMsg()
    MaxTicket,    \* bound: messages put
    MaxTime       \* bound: value of the clock

(* A message as putMsg() builds it; queued, it has a ticket.               *)
Draft == [type : PlayMsgType, time : Nat, url : Url \cup {NoUrl}]

ASSUME TypesAssumption == PlayMsgType \subseteq AllTypes
ASSUME UrlAssumption == NoUrl \notin Url
ASSUME NoMsgAssumption == NoMsg \notin Draft
ASSUME BoundAssumption == MaxTicket \in Nat /\ MaxTime \in Nat

(* The types whose parameter owns a heap-allocated string: recycleMsg().   *)
UrlTypes == {"MSG_SETDATASOURCE", "MSG_ADD_EXT_SUBTITLE"}

VARIABLES
    mMsgQueue,     \* the deque, see MessageQueue
    processQueue,  \* the local queue of the processMsg() in progress
    qm,            \* qm[c]: the message caller c has built and not pushed
    heap,          \* url strings allocated and not deleted
    now,           \* af_gettime_relative()
    nextTicket,    \* messages pushed so far
    newest,        \* history: newest[t] is the ticket of the last message of
                   \* type t pushed since the queue was last cleared, or -1
    handled        \* history: ticket of the last message of a type handled

vars == <<mMsgQueue, processQueue, qm, heap, now, nextTicket, newest, handled>>

Message == [type : PlayMsgType, time : Nat, url : Url \cup {NoUrl}, ticket : Nat]

Init ==
    /\ mMsgQueue = {}
    /\ processQueue = {}
    /\ qm = [c \in Callers |-> NoMsg]
    /\ heap = {}
    /\ now = 0
    /\ nextTicket = 0
    /\ newest = [t \in PlayMsgType |-> -1]
    /\ handled = [t \in PlayMsgType |-> -1]

(* A mutant: the url strings are not deleted.                              *)
Leak(ms) == heap

(* recycleMsg() on each message of a set.                                  *)
Recycle(ms) == heap \ {m.url : m \in ms}

-----------------------------------------------------------------------------
(***************************************************************************)
(* putMsg().  The message is built and stamped before the lock is taken.   *)
(***************************************************************************)
Build(c, type, url) ==
    /\ qm[c] = NoMsg
    /\ url \in IF type \in UrlTypes THEN Url \ heap ELSE {NoUrl}
    /\ qm' = [qm EXCEPT ![c] = [type |-> type, time |-> now, url |-> url]]
    /\ heap' = heap \cup ({url} \ {NoUrl})
    /\ UNCHANGED <<mMsgQueue, processQueue, now, nextTicket, newest, handled>>

(* What every branch of putMsg() ends with: the erased messages recycled,  *)
(* the new one at the back.                                                *)
Push(c, erased) ==
    /\ nextTicket < MaxTicket
    /\ mMsgQueue' = (mMsgQueue \ erased)
                      \cup {[type |-> qm[c].type, time |-> qm[c].time,
                             url |-> qm[c].url, ticket |-> nextTicket]}
    /\ heap' = Recycle(erased)
    /\ newest' = [newest EXCEPT ![qm[c].type] = nextTicket]
    /\ nextTicket' = nextTicket + 1
    /\ qm' = [qm EXCEPT ![c] = NoMsg]
    /\ UNCHANGED <<processQueue, now, handled>>

PutReplaceAll(c) ==
    /\ qm[c] # NoMsg
    /\ qm[c].type \in ReplaceAllTypes
    /\ Push(c, ErasedByAll(mMsgQueue, qm[c].type))

PutReplaceLast(c) ==
    /\ qm[c] # NoMsg
    /\ qm[c].type \in ReplaceLastTypes
    /\ Push(c, ErasedByLast(mMsgQueue, qm[c].type))

PutSeek(c) ==
    /\ qm[c] # NoMsg
    /\ qm[c].type = "MSG_SEEKTO"
    /\ \E erased \in ErasedBySeek(mMsgQueue, qm[c].time) : Push(c, erased)

PutReplaceNone(c) ==
    /\ qm[c] # NoMsg
    /\ qm[c].type \in ReplaceNoneTypes
    /\ Push(c, {})

-----------------------------------------------------------------------------
(* A mutant: the padded messages are dropped.                              *)
CollectAll(padded) ==
    /\ processQueue = {} /\ mMsgQueue # {}
    /\ processQueue' = {m \in mMsgQueue : m.type \notin padded}
    /\ mMsgQueue' = {}
    /\ UNCHANGED <<qm, heap, now, nextTicket, newest, handled>>

(***************************************************************************)
(* processMsg(): the locked pass that moves to processQueue the messages   *)
(* that are not padded.  The listener decides by type, from state that     *)
(* only the main thread changes, so the answer is the same for a whole     *)
(* pass.                                                                   *)
(***************************************************************************)
Collect(padded) ==
    LET taken == {m \in mMsgQueue : m.type \notin padded} IN
    /\ processQueue = {}
    /\ taken # {}
    /\ processQueue' = taken
    /\ mMsgQueue' = mMsgQueue \ taken
    /\ UNCHANGED <<qm, heap, now, nextTicket, newest, handled>>

(* One turn of the unlocked loop: the listener handles the message, then   *)
(* it is recycled.                                                         *)
Handle ==
    LET m == OldestOf(processQueue) IN
    /\ processQueue # {}
    /\ processQueue' = processQueue \ {m}
    /\ handled' = [handled EXCEPT ![m.type] = m.ticket]
    /\ heap' = Recycle({m})
    /\ UNCHANGED <<mMsgQueue, qm, now, nextTicket, newest>>

(* clear(): SuperMediaPlayer::Stop() calls it with the main thread parked, *)
(* the destructor with no main thread left.                                *)
Clear ==
    /\ processQueue = {}
    /\ mMsgQueue # {}
    /\ mMsgQueue' = {}
    /\ heap' = Recycle(mMsgQueue)
    /\ newest' = [t \in PlayMsgType |-> -1]
    /\ UNCHANGED <<processQueue, qm, now, nextTicket, handled>>

Tick ==
    /\ now < MaxTime
    /\ now' = now + 1
    /\ UNCHANGED <<mMsgQueue, processQueue, qm, heap, nextTicket, newest, handled>>

Put(c) ==
    \/ \E type \in PlayMsgType, url \in Url \cup {NoUrl} : Build(c, type, url)
    \/ PutReplaceAll(c)
    \/ PutReplaceLast(c)
    \/ PutSeek(c)
    \/ PutReplaceNone(c)

Next ==
    \/ \E c \in Callers : Put(c)
    \/ \E padded \in SUBSET (PlayMsgType \cap PaddableTypes) : Collect(padded)
    \/ Handle
    \/ Clear
    \/ Tick

Spec == Init /\ [][Next]_vars

-----------------------------------------------------------------------------
Pushed == mMsgQueue \cup processQueue

(* Types, and: a message is never stamped with a time still to come.       *)
TypeOK ==
    /\ mMsgQueue \subseteq Message
    /\ processQueue \subseteq Message
    /\ qm \in [Callers -> Draft \cup {NoMsg}]
    /\ heap \subseteq Url
    /\ now \in Nat
    /\ nextTicket \in Nat
    /\ newest \in [PlayMsgType -> Nat \cup {-1}]
    /\ handled \in [PlayMsgType -> Nat \cup {-1}]
    /\ \A m \in Pushed : m.time <= now
    /\ \A c \in Callers : qm[c] # NoMsg => qm[c].time <= now

(* What the tickets stand for: the proofs' strengthening of the invariants *)
(* below.                                                                  *)
TicketOrder ==
    /\ IsFiniteSet(mMsgQueue)
    /\ mMsgQueue \cap processQueue = {}
    /\ \A m, n \in Pushed : m.ticket = n.ticket => m = n
    /\ \A m \in Pushed : m.ticket < nextTicket /\ m.ticket <= newest[m.type]
    /\ \A t \in PlayMsgType : newest[t] < nextTicket /\ handled[t] < nextTicket

(* A url string has exactly one owner: none is leaked when putMsg(),       *)
(* processMsg() or clear() drops a message, none is deleted while another  *)
(* message still refers to it.                                             *)
UrlOwnership ==
    /\ heap = ({m.url : m \in Pushed}
                 \cup {qm[c].url : c \in {d \in Callers : qm[d] # NoMsg}}) \ {NoUrl}
    /\ \A m, n \in Pushed : m.url = n.url /\ m.url # NoUrl => m = n
    /\ \A c \in Callers : qm[c] # NoMsg /\ qm[c].url # NoUrl =>
          /\ \A m \in Pushed : m.url # qm[c].url
          /\ \A d \in Callers \ {c} : qm[d] # NoMsg => qm[d].url # qm[c].url

(* REPLACE_ALL keeps one queued message of a type, whoever else puts one.  *)
OneOfReplaceAll ==
    \A m, n \in mMsgQueue :
        m.type = n.type /\ m.type \in ReplaceAllTypes => m = n

(* However fast the application scrubs, at most two seeks are queued.      *)
AtMostTwoSeeks == Cardinality(Queued(mMsgQueue, "MSG_SEEKTO")) <= 2

(* Messages of one type are handled in the order they were put: a padded   *)
(* message is not overtaken by a younger one of its type, and no batch     *)
(* holds a message younger than one left in the queue.                     *)
HandledInOrder ==
    /\ \A m \in Pushed : handled[m.type] < m.ticket
    /\ \A m \in processQueue, n \in mMsgQueue :
          m.type = n.type => m.ticket < n.ticket

(* The newest seek is the intent that counts: whatever putMsg() merges, it *)
(* is queued, being handled, or was handled.                               *)
NewestSeekSurvives ==
    "MSG_SEEKTO" \in PlayMsgType /\ newest["MSG_SEEKTO"] # -1 =>
        \/ handled["MSG_SEEKTO"] = newest["MSG_SEEKTO"]
        \/ \E m \in Queued(Pushed, "MSG_SEEKTO") : m.ticket = newest["MSG_SEEKTO"]

(* 02-player-message-control.md: a seek put while two are queued deletes   *)
(* the oldest of them, and nothing that is not a seek.                     *)
SeekDeletesOldestSeek ==
    [][\A c \in Callers :
         PutSeek(c) /\ Cardinality(Queued(mMsgQueue, "MSG_SEEKTO")) >= 2 =>
             /\ OldestOf(Queued(mMsgQueue, "MSG_SEEKTO")) \notin mMsgQueue'
             /\ \A m \in mMsgQueue \ mMsgQueue' : m.type = "MSG_SEEKTO"]_vars
=============================================================================
