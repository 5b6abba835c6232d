-------------------- MODULE PlayerMessageControlTheorems --------------------
(***************************************************************************)
(* The invariants of PlayerMessageControl hold for any number of threads,  *)
(* messages and urls, for any merge window, and whichever side of the      *)
(* deque an erase moves.                                                   *)
(***************************************************************************)
EXTENDS PlayerMessageControl, FiniteSetTheorems, WellFoundedInduction, TLAPS

-----------------------------------------------------------------------------
(* What the operators of MessageQueue return, for every queue              *)

(* A set of numbers has a least element.                                   *)
LEMMA LeastNatural ==
  ASSUME NEW T \in SUBSET Nat, T # {}
  PROVE  \E x \in T : \A y \in T : x <= y
<1> DEFINE R == {ss \in Nat \X Nat : ss[1] < ss[2]}
<1>1. IsWellFoundedOn(R, Nat)
  BY NatLessThanWellFounded DEF OpToRel
<1> HIDE DEF R
<1>2. \E x \in T : \A y \in T : ~ (<<y, x>> \in R)
  BY <1>1, WFMin
<1>3. \A x, y \in Nat : ~ (<<y, x>> \in R) => x <= y
  BY DEF R
<1>. QED  BY <1>2, <1>3

(* OldestOf returns the front of a non-empty set of messages.              *)
LEMMA OldestOfIsOldest ==
  ASSUME NEW ms, ms # {}, \A m \in ms : m.ticket \in Nat
  PROVE  /\ OldestOf(ms) \in ms
         /\ \A n \in ms : OldestOf(ms).ticket <= n.ticket
<1> DEFINE T == {m.ticket : m \in ms}
<1>1. T \in SUBSET Nat /\ T # {}
  OBVIOUS
<1>2. PICK x \in T : \A y \in T : x <= y
  <2> HIDE DEF T
  <2>. QED  BY <1>1, LeastNatural
<1>3. \E m \in ms : \A n \in ms : m.ticket <= n.ticket
  BY <1>2
<1>. QED  BY <1>3 DEF OldestOf

(* LatestOf returns the back of a non-empty set of messages.               *)
LEMMA LatestOfIsLatest ==
  ASSUME NEW ms, ms # {}, NEW b \in Nat,
         \A m \in ms : m.ticket \in Nat /\ m.ticket < b
  PROVE  /\ LatestOf(ms) \in ms
         /\ \A n \in ms : n.ticket <= LatestOf(ms).ticket
<1> DEFINE T == {b - m.ticket : m \in ms}
<1>1. T \in SUBSET Nat /\ T # {}
  OBVIOUS
<1>2. PICK x \in T : \A y \in T : x <= y
  <2> HIDE DEF T
  <2>. QED  BY <1>1, LeastNatural
<1>3. PICK m \in ms : x = b - m.ticket
  OBVIOUS
<1>4. \A n \in ms : n.ticket <= m.ticket
  <2>1. ASSUME NEW n \in ms
        PROVE  n.ticket <= m.ticket
    <3>1. b - n.ticket \in T
      OBVIOUS
    <3>2. x <= b - n.ticket
      BY <1>2, <3>1
    <3>. QED  BY <1>3, <3>2
  <2>. QED  BY <2>1
<1>. QED  BY <1>4 DEF LatestOf

(* Whatever the library moves, a seek only erases queued messages, and of  *)
(* two queued seeks it erases one at least.                                *)
LEMMA SeekErasure ==
  ASSUME NEW q, IsFiniteSet(q), NEW b \in Nat,
         \A m \in q : m.ticket \in Nat /\ m.ticket < b,
         NEW time, NEW erased \in ErasedBySeek(q, time)
  PROVE  /\ erased \subseteq q
         /\ Cardinality(Queued(q, "MSG_SEEKTO")) >= 2
              => erased \cap Queued(q, "MSG_SEEKTO") # {}
<1> DEFINE seeks == Queued(q, "MSG_SEEKTO")
<1>1. seeks \subseteq q
  BY DEF Queued
<1>2. seeks # {} => /\ OldestOf(seeks) \in seeks
                    /\ LatestOf(seeks) \in seeks
  BY <1>1, OldestOfIsOldest, LatestOfIsLatest
<1>3. Cardinality(seeks) >= 2 => seeks # {}
  <2>1. Cardinality({}) = 0
    BY FS_EmptySet
  <2> HIDE DEF seeks
  <2>. QED  BY <2>1
<1>4. ASSUME NEW m \in q, NEW moved
      PROVE  Designated(q, m, moved) \in q
  <2>1. InFrontOf(q, m) \subseteq q
    BY DEF InFrontOf
  <2>2. InFrontOf(q, m) # {} => LatestOf(InFrontOf(q, m)) \in q
    BY <2>1, LatestOfIsLatest
  <2>. QED  BY <2>2 DEF Designated
<1>5. ASSUME NEW moved
      PROVE  ErasedThroughFirst(q, moved) \subseteq q
  BY <1>1, <1>2, <1>3, <1>4 DEF ErasedThroughFirst
<1>6. CASE FollowsClosely(q, time)
  <2>1. seeks # {}
    BY <1>6 DEF FollowsClosely
  <2>2. PICK moved \in FrontMoves(q, LatestOf(seeks)) :
           erased = {LatestOf(seeks)} \cup ErasedThroughFirst(q, moved)
    BY <1>6 DEF ErasedBySeek
  <2>. QED  BY <1>1, <1>2, <1>5, <2>1, <2>2
<1>7. CASE ~ FollowsClosely(q, time)
  <2>1. erased = ErasedThroughFirst(q, FALSE)
    BY <1>7 DEF ErasedBySeek
  <2>2. Cardinality(seeks) >= 2 => erased = {OldestOf(seeks)}
    BY <2>1 DEF ErasedThroughFirst, Designated
  <2>. QED  BY <1>2, <1>3, <1>5, <2>1, <2>2
<1>. QED  BY <1>6, <1>7

-----------------------------------------------------------------------------
(* Type correctness                                                        *)

LEMMA InitTypeOK == Init => TypeOK
BY DEF Init, TypeOK, Pushed

(* The part of a push that every branch of putMsg() shares.                *)
LEMMA PushTypeOK ==
  ASSUME TypeOK, NEW c \in Callers, qm[c] # NoMsg, NEW erased, Push(c, erased)
  PROVE  TypeOK'
<1>1. qm[c] \in Draft /\ qm[c].time <= now
  BY DEF TypeOK
<1>2. [type |-> qm[c].type, time |-> qm[c].time,
       url |-> qm[c].url, ticket |-> nextTicket] \in Message
  BY <1>1 DEF TypeOK, Draft, Message
<1>3. (mMsgQueue \subseteq Message)' /\ (\A m \in Pushed : m.time <= now)'
  BY <1>1, <1>2 DEF TypeOK, Push, Pushed
<1>4. (qm \in [Callers -> Draft \cup {NoMsg}])'
      /\ (\A d \in Callers : qm[d] # NoMsg => qm[d].time <= now)'
  BY DEF TypeOK, Push
<1>5. (newest \in [PlayMsgType -> Nat \cup {-1}])'
  BY <1>1 DEF TypeOK, Push, Draft
<1>6. (heap \subseteq Url)'
  BY DEF TypeOK, Push, Recycle
<1>. QED  BY <1>3, <1>4, <1>5, <1>6 DEF TypeOK, Push

LEMMA BuildTypeOK ==
  ASSUME TypeOK, NEW c \in Callers, NEW type \in PlayMsgType,
         NEW url \in Url \cup {NoUrl}, Build(c, type, url)
  PROVE  TypeOK'
<1>1. [type |-> type, time |-> now, url |-> url] \in Draft
  BY DEF TypeOK, Draft
<1>2. (qm \in [Callers -> Draft \cup {NoMsg}])'
  BY <1>1 DEF TypeOK, Build
<1>3. (\A d \in Callers : qm[d] # NoMsg => qm[d].time <= now)'
  BY DEF TypeOK, Build
<1>4. (heap \subseteq Url)'
  BY DEF TypeOK, Build
<1>. QED  BY <1>2, <1>3, <1>4 DEF TypeOK, Build, Pushed

LEMMA HandleTypeOK == TypeOK /\ Handle => TypeOK'
<1> SUFFICES ASSUME TypeOK, Handle
             PROVE  TypeOK'
  OBVIOUS
<1> DEFINE m == OldestOf(processQueue)
<1>1. \A n \in processQueue : n.ticket \in Nat
  BY DEF TypeOK, Message
<1>2. m \in processQueue
  BY <1>1, OldestOfIsOldest DEF Handle
<1>3. m.type \in PlayMsgType /\ m.ticket \in Nat
  BY <1>2 DEF TypeOK, Message
<1>4. handled' = [handled EXCEPT ![m.type] = m.ticket]
  BY DEF Handle
<1>5. (handled \in [PlayMsgType -> Nat \cup {-1}])'
  <2> HIDE DEF m
  <2>. QED  BY <1>3, <1>4 DEF TypeOK
<1>. QED  BY <1>5 DEF TypeOK, Handle, Recycle, Pushed

LEMMA TypeCorrectStep == TypeOK /\ [Next]_vars => TypeOK'
<1> SUFFICES ASSUME TypeOK, [Next]_vars
             PROVE  TypeOK'
  OBVIOUS
<1>1. ASSUME NEW c \in Callers, Put(c)
      PROVE  TypeOK'
  <2>1. ASSUME NEW type \in PlayMsgType, NEW url \in Url \cup {NoUrl},
               Build(c, type, url)
        PROVE  TypeOK'
    BY <2>1, BuildTypeOK
  <2>2. CASE PutReplaceAll(c) \/ PutReplaceLast(c)
    BY <2>2, PushTypeOK DEF PutReplaceAll, PutReplaceLast
  <2>3. CASE PutSeek(c) \/ PutReplaceNone(c)
    BY <2>3, PushTypeOK DEF PutSeek, PutReplaceNone
  <2>. QED  BY <1>1, <2>1, <2>2, <2>3 DEF Put
<1>2. ASSUME NEW padded \in SUBSET (PlayMsgType \cap PaddableTypes),
             Collect(padded)
      PROVE  TypeOK'
  BY <1>2 DEF TypeOK, Collect, Pushed
<1>3. CASE Handle
  BY <1>3, HandleTypeOK
<1>4. CASE Clear
  BY <1>4 DEF TypeOK, Clear, Recycle, Pushed
<1>5. CASE Tick
  <2>1. \A m \in Pushed : m.time \in Nat
    BY DEF TypeOK, Message, Pushed
  <2>2. \A c \in Callers : qm[c] # NoMsg => qm[c].time \in Nat
    BY DEF TypeOK, Draft
  <2>. QED  BY <1>5, <2>1, <2>2 DEF TypeOK, Tick, Pushed
<1>6. CASE UNCHANGED vars
  BY <1>6 DEF TypeOK, vars, Pushed
<1>. QED  BY <1>1, <1>2, <1>3, <1>4, <1>5, <1>6 DEF Next

(* Every variable keeps its type, and no message carries a time stamp from *)
(* the future.                                                             *)
THEOREM TypeCorrect == Spec => []TypeOK
BY InitTypeOK, TypeCorrectStep, PTL DEF Spec

-----------------------------------------------------------------------------
(***************************************************************************)
(* The inductive invariant.  TicketOrder says that tickets order the       *)
(* messages and that the newest ticket of a type bounds the others, which  *)
(* HandledInOrder and NewestSeekSurvives need.                             *)
(***************************************************************************)
IInv ==
    /\ TypeOK
    /\ TicketOrder
    /\ UrlOwnership
    /\ OneOfReplaceAll
    /\ AtMostTwoSeeks
    /\ HandledInOrder
    /\ NewestSeekSurvives

LEMMA InitIInv == Init => IInv
<1> SUFFICES ASSUME Init
             PROVE  IInv
  OBVIOUS
<1>1. TypeOK
  BY InitTypeOK
<1>2. mMsgQueue = {} /\ processQueue = {} /\ Pushed = {}
  BY DEF Init, Pushed
<1>3. Queued(mMsgQueue, "MSG_SEEKTO") = {}
  BY <1>2 DEF Queued
<1>4. AtMostTwoSeeks
  BY <1>3, FS_EmptySet DEF AtMostTwoSeeks
<1>5. TicketOrder
  BY <1>2, FS_EmptySet DEF TicketOrder, Init
<1>6. UrlOwnership
  BY <1>2 DEF UrlOwnership, Init
<1>. QED  BY <1>1, <1>2, <1>4, <1>5, <1>6
          DEF IInv, OneOfReplaceAll, HandledInOrder, NewestSeekSurvives, Init

(* Abbreviation for the message a push appends.                            *)
Appended(c) == [type |-> qm[c].type, time |-> qm[c].time,
                url |-> qm[c].url, ticket |-> nextTicket]

LEMMA AppendedFields ==
  ASSUME TypeOK, NEW c \in Callers, qm[c] # NoMsg
  PROVE  /\ qm[c].type \in PlayMsgType
         /\ Appended(c).ticket = nextTicket
         /\ Appended(c).type = qm[c].type
         /\ Appended(c).url = qm[c].url
         /\ Appended(c).url \in Url \cup {NoUrl}
BY DEF TypeOK, Appended, Draft

LEMMA TicketsAreNaturals ==
  ASSUME TypeOK
  PROVE  \A m \in Pushed : /\ m.ticket \in Nat
                           /\ m.type \in PlayMsgType
                           /\ m.url \in Url \cup {NoUrl}
BY DEF TypeOK, Pushed, Message

(* What a push preserves whatever it erases, so long as that was queued.   *)
LEMMA PushInvariants ==
  ASSUME IInv, NEW c \in Callers, qm[c] # NoMsg,
         NEW erased \in SUBSET mMsgQueue, Push(c, erased),
         \A m \in erased : m.type = qm[c].type \/ qm[c].type = "MSG_SEEKTO"
  PROVE  /\ TypeOK'
         /\ TicketOrder'
         /\ UrlOwnership'
         /\ HandledInOrder'
         /\ NewestSeekSurvives'
<1> DEFINE new == Appended(c)
<1>a. TypeOK /\ TicketOrder /\ UrlOwnership /\ HandledInOrder /\ NewestSeekSurvives
  BY DEF IInv
<1>b. /\ new.ticket = nextTicket
      /\ new.type = qm[c].type
      /\ new.url = qm[c].url
      /\ new.type \in PlayMsgType
      /\ new.url \in Url \cup {NoUrl}
  BY <1>a, AppendedFields
<1>c. /\ mMsgQueue' = (mMsgQueue \ erased) \cup {new}
      /\ processQueue' = processQueue
      /\ heap' = heap \ {m.url : m \in erased}
      /\ newest' = [newest EXCEPT ![new.type] = nextTicket]
      /\ nextTicket' = nextTicket + 1
      /\ qm' = [qm EXCEPT ![c] = NoMsg]
      /\ handled' = handled
  BY <1>b DEF Push, Appended, Recycle
<1>d. \A m \in Pushed : /\ m.ticket \in Nat
                        /\ m.type \in PlayMsgType
                        /\ m.url \in Url \cup {NoUrl}
  BY <1>a, TicketsAreNaturals
<1>e. /\ nextTicket \in Nat
      /\ newest \in [PlayMsgType -> Nat \cup {-1}]
      /\ handled \in [PlayMsgType -> Nat \cup {-1}]
      /\ qm \in [Callers -> Draft \cup {NoMsg}]
      /\ heap \subseteq Url
  BY <1>a DEF TypeOK
<1>f. Pushed' \subseteq Pushed \cup {new} /\ new \in Pushed'
  BY <1>c DEF Pushed
<1> HIDE DEF new
<1>1. TypeOK'
  BY <1>a, PushTypeOK
<1>2. TicketOrder'
  <2>1. IsFiniteSet(mMsgQueue)'
    <3>1. IsFiniteSet(mMsgQueue \ erased)
      BY <1>a, FS_Subset DEF TicketOrder
    <3>. QED  BY <1>c, <3>1, FS_AddElement
  <2>2. \A m \in Pushed : m.ticket < nextTicket
    BY <1>a DEF TicketOrder
  <2>3. (\A m, n \in Pushed : m.ticket = n.ticket => m = n)'
    BY <1>a, <1>b, <1>d, <1>e, <1>f, <2>2 DEF TicketOrder
  <2>4. (mMsgQueue \cap processQueue = {})'
    BY <1>a, <1>b, <1>c, <1>d, <1>e, <2>2 DEF TicketOrder, Pushed
  <2>5. (\A m \in Pushed : m.ticket < nextTicket /\ m.ticket <= newest[m.type])'
    <3>1. ASSUME NEW m \in Pushed'
          PROVE  m.ticket < nextTicket' /\ m.ticket <= newest'[m.type]
      <4>1. CASE m = new
        BY <1>b, <1>c, <1>e, <4>1
      <4>2. CASE m \in Pushed
        BY <1>a, <1>c, <1>d, <1>e, <2>2, <4>2 DEF TicketOrder
      <4>. QED  BY <1>f, <3>1, <4>1, <4>2
    <3>. QED  BY <3>1
  <2>6. (\A t \in PlayMsgType : newest[t] < nextTicket /\ handled[t] < nextTicket)'
    BY <1>a, <1>b, <1>c, <1>e DEF TicketOrder
  <2>. QED  BY <2>1, <2>3, <2>4, <2>5, <2>6 DEF TicketOrder
<1>3. HandledInOrder'
  <2>1. (\A m \in Pushed : handled[m.type] < m.ticket)'
    BY <1>a, <1>b, <1>c, <1>d, <1>e, <1>f DEF HandledInOrder, TicketOrder
  <2>2. \A m \in processQueue : m \in Pushed /\ m.ticket < nextTicket
    BY <1>a DEF TicketOrder, Pushed
  <2>3. (\A m \in processQueue, n \in mMsgQueue :
            m.type = n.type => m.ticket < n.ticket)'
    BY <1>a, <1>b, <1>c, <1>e, <2>2 DEF HandledInOrder
  <2>. QED  BY <2>1, <2>3 DEF HandledInOrder
<1>4. UrlOwnership'
  <2>1. /\ \A m, n \in Pushed : m.url = n.url /\ m.url # NoUrl => m = n
        /\ \A d \in Callers : qm[d] # NoMsg /\ qm[d].url # NoUrl =>
              /\ \A m \in Pushed : m.url # qm[d].url
              /\ \A e \in Callers \ {d} : qm[e] # NoMsg => qm[e].url # qm[d].url
    BY <1>a DEF UrlOwnership
  <2>2. \A u : u \in heap <=>
           /\ u # NoUrl
           /\ \/ \E m \in Pushed : u = m.url
              \/ \E d \in Callers : qm[d] # NoMsg /\ u = qm[d].url
    BY <1>a DEF UrlOwnership
  <2>3. Pushed' = (Pushed \ erased) \cup {new} /\ erased \subseteq Pushed
    BY <1>a, <1>c DEF Pushed, TicketOrder
  <2>4. \A d \in Callers : qm'[d] = IF d = c THEN NoMsg ELSE qm[d]
    BY <1>c, <1>e
  <2>5. ASSUME NEW u, u \in heap'
        PROVE  /\ u # NoUrl
               /\ \/ \E m \in Pushed' : u = m.url
                  \/ \E d \in Callers : qm'[d] # NoMsg /\ u = qm'[d].url
    <3>1. u \in heap /\ \A m \in erased : u # m.url
      BY <1>c, <2>5
    <3>2. CASE \E m \in Pushed : u = m.url
      BY <2>2, <2>3, <3>1, <3>2
    <3>3. CASE \E d \in Callers : qm[d] # NoMsg /\ u = qm[d].url
      BY <1>b, <2>2, <2>3, <2>4, <3>1, <3>3
    <3>. QED  BY <2>2, <3>1, <3>2, <3>3
  <2>6. ASSUME NEW u, u # NoUrl,
               \/ \E m \in Pushed' : u = m.url
               \/ \E d \in Callers : qm'[d] # NoMsg /\ u = qm'[d].url
        PROVE  u \in heap'
    <3>1. CASE \E m \in Pushed \ erased : u = m.url
      BY <1>c, <2>1, <2>2, <2>3, <2>6, <3>1
    <3>2. CASE u = new.url
      BY <1>b, <1>c, <2>1, <2>2, <2>3, <2>6, <3>2
    <3>3. CASE \E d \in Callers : qm'[d] # NoMsg /\ u = qm'[d].url
      BY <1>c, <2>1, <2>2, <2>3, <2>4, <2>6, <3>3
    <3>. QED  BY <2>3, <2>6, <3>1, <3>2, <3>3
  <2>7. (heap = ({m.url : m \in Pushed}
                   \cup {qm[d].url : d \in {e \in Callers : qm[e] # NoMsg}}) \ {NoUrl})'
    BY <2>5, <2>6
  <2>8. (\A m, n \in Pushed : m.url = n.url /\ m.url # NoUrl => m = n)'
    BY <1>b, <2>1, <2>3
  <2>9. (\A d \in Callers : qm[d] # NoMsg /\ qm[d].url # NoUrl =>
            /\ \A m \in Pushed : m.url # qm[d].url
            /\ \A e \in Callers \ {d} : qm[e] # NoMsg => qm[e].url # qm[d].url)'
    BY <1>b, <2>1, <2>3, <2>4
  <2>. QED  BY <2>7, <2>8, <2>9 DEF UrlOwnership
<1>5. NewestSeekSurvives'
  <2> SUFFICES ASSUME "MSG_SEEKTO" \in PlayMsgType, newest'["MSG_SEEKTO"] # -1,
                      handled["MSG_SEEKTO"] # newest'["MSG_SEEKTO"]
               PROVE  \E m \in Queued(Pushed', "MSG_SEEKTO") :
                         m.ticket = newest'["MSG_SEEKTO"]
    BY <1>c DEF NewestSeekSurvives
  <2>1. CASE new.type = "MSG_SEEKTO"
    BY <1>b, <1>c, <1>e, <1>f, <2>1 DEF Queued
  <2>2. CASE new.type # "MSG_SEEKTO"
    <3>1. newest'["MSG_SEEKTO"] = newest["MSG_SEEKTO"]
      BY <1>b, <1>c, <1>e, <2>2
    <3>2. PICK m \in Queued(Pushed, "MSG_SEEKTO") : m.ticket = newest["MSG_SEEKTO"]
      BY <1>a, <3>1 DEF NewestSeekSurvives
    <3>3. m \notin erased
      BY <1>b, <2>2, <3>2 DEF Queued
    <3>4. m \in Pushed'
      BY <1>c, <3>2, <3>3 DEF Pushed, Queued
    <3>. QED  BY <3>1, <3>2, <3>4 DEF Queued
  <2>. QED  BY <2>1, <2>2
<1>. QED  BY <1>1, <1>2, <1>3, <1>4, <1>5

(* The two invariants that each branch of putMsg() has its own reason for. *)
LEMMA PutReplaceAllIInv ==
  ASSUME IInv, NEW c \in Callers, PutReplaceAll(c)
  PROVE  IInv'
<1> DEFINE erased == Queued(mMsgQueue, qm[c].type)
<1>1. qm[c] # NoMsg /\ qm[c].type \in ReplaceAllTypes /\ Push(c, erased)
  BY DEF PutReplaceAll, ErasedByAll
<1>2. erased \in SUBSET mMsgQueue /\ \A m \in erased : m.type = qm[c].type
  BY DEF Queued
<1>3. TypeOK' /\ TicketOrder' /\ UrlOwnership' /\ HandledInOrder' /\ NewestSeekSurvives'
  <2> HIDE DEF erased
  <2>. QED  BY <1>1, <1>2, PushInvariants
<1>4. /\ mMsgQueue' = (mMsgQueue \ erased) \cup {Appended(c)}
      /\ Appended(c).type = qm[c].type
  BY <1>1, AppendedFields DEF Push, Appended, IInv
<1>5. OneOfReplaceAll'
  BY <1>4 DEF OneOfReplaceAll, Queued, IInv
<1>6. qm[c].type # "MSG_SEEKTO"
  BY <1>1 DEF ReplaceAllTypes
<1>7. Queued(mMsgQueue, "MSG_SEEKTO")' = Queued(mMsgQueue, "MSG_SEEKTO")
  BY <1>4, <1>6 DEF Queued
<1>8. AtMostTwoSeeks'
  BY <1>7 DEF AtMostTwoSeeks, IInv
<1>. QED  BY <1>3, <1>5, <1>8 DEF IInv

LEMMA PutReplaceLastIInv ==
  ASSUME IInv, NEW c \in Callers, PutReplaceLast(c)
  PROVE  IInv'
<1> DEFINE erased == ErasedByLast(mMsgQueue, qm[c].type)
<1>1. qm[c] # NoMsg /\ qm[c].type \in ReplaceLastTypes /\ Push(c, erased)
  BY DEF PutReplaceLast
<1>2. erased \in SUBSET mMsgQueue /\ \A m \in erased : m.type = qm[c].type
  BY DEF ErasedByLast, Queued
<1> HIDE DEF erased
<1>3. TypeOK' /\ TicketOrder' /\ UrlOwnership' /\ HandledInOrder' /\ NewestSeekSurvives'
  BY <1>1, <1>2, PushInvariants
<1>4. /\ mMsgQueue' = (mMsgQueue \ erased) \cup {Appended(c)}
      /\ Appended(c).type = qm[c].type
  BY <1>1, AppendedFields DEF Push, Appended, IInv
<1>5. qm[c].type # "MSG_SEEKTO" /\ qm[c].type \notin ReplaceAllTypes
  BY <1>1 DEF ReplaceLastTypes, ReplaceAllTypes
<1>6. OneOfReplaceAll'
  BY <1>4, <1>5 DEF OneOfReplaceAll, IInv
<1>7. Queued(mMsgQueue, "MSG_SEEKTO")' = Queued(mMsgQueue, "MSG_SEEKTO")
  BY <1>2, <1>4, <1>5 DEF Queued
<1>8. AtMostTwoSeeks'
  BY <1>7 DEF AtMostTwoSeeks, IInv
<1>. QED  BY <1>3, <1>6, <1>8 DEF IInv

LEMMA PutReplaceNoneIInv ==
  ASSUME IInv, NEW c \in Callers, PutReplaceNone(c)
  PROVE  IInv'
<1>1. qm[c] # NoMsg /\ qm[c].type \in ReplaceNoneTypes /\ Push(c, {})
  BY DEF PutReplaceNone
<1>2. TypeOK' /\ TicketOrder' /\ UrlOwnership' /\ HandledInOrder' /\ NewestSeekSurvives'
  BY <1>1, PushInvariants
<1>3. /\ mMsgQueue' = mMsgQueue \cup {Appended(c)}
      /\ Appended(c).type = qm[c].type
  BY <1>1, AppendedFields DEF Push, Appended, IInv
<1>4. qm[c].type # "MSG_SEEKTO" /\ qm[c].type \notin ReplaceAllTypes
  BY <1>1 DEF ReplaceNoneTypes, ReplaceAllTypes
<1>5. OneOfReplaceAll'
  BY <1>3, <1>4 DEF OneOfReplaceAll, IInv
<1>6. Queued(mMsgQueue, "MSG_SEEKTO")' = Queued(mMsgQueue, "MSG_SEEKTO")
  BY <1>3, <1>4 DEF Queued
<1>7. AtMostTwoSeeks'
  BY <1>6 DEF AtMostTwoSeeks, IInv
<1>. QED  BY <1>2, <1>5, <1>7 DEF IInv

LEMMA PutSeekIInv ==
  ASSUME IInv, NEW c \in Callers, PutSeek(c)
  PROVE  IInv'
<1> DEFINE seeks == Queued(mMsgQueue, "MSG_SEEKTO")
<1>1. qm[c] # NoMsg /\ qm[c].type = "MSG_SEEKTO"
  BY DEF PutSeek
<1>2. PICK erased \in ErasedBySeek(mMsgQueue, qm[c].time) : Push(c, erased)
  BY DEF PutSeek
<1>3. /\ IsFiniteSet(mMsgQueue)
      /\ nextTicket \in Nat
      /\ \A m \in mMsgQueue : m.ticket \in Nat /\ m.ticket < nextTicket
  BY TicketsAreNaturals DEF IInv, TypeOK, TicketOrder, Pushed
<1>4. /\ erased \in SUBSET mMsgQueue
      /\ Cardinality(seeks) >= 2 => erased \cap seeks # {}
  BY <1>3, SeekErasure
<1>5. TypeOK' /\ TicketOrder' /\ UrlOwnership' /\ HandledInOrder' /\ NewestSeekSurvives'
  BY <1>1, <1>2, <1>4, PushInvariants
<1>6. /\ mMsgQueue' = (mMsgQueue \ erased) \cup {Appended(c)}
      /\ Appended(c).type = "MSG_SEEKTO"
  BY <1>1, <1>2, AppendedFields DEF Push, Appended, IInv
<1>7. OneOfReplaceAll'
  BY <1>6 DEF OneOfReplaceAll, ReplaceAllTypes, IInv
<1>8. AtMostTwoSeeks'
  <2>1. seeks \subseteq mMsgQueue /\ seeks' = (seeks \ erased) \cup {Appended(c)}
    BY <1>6 DEF Queued
  <2>2. IsFiniteSet(seeks) /\ Cardinality(seeks) \in Nat /\ Cardinality(seeks) <= 2
    BY <1>3, <2>1, FS_Subset, FS_CardinalityType DEF IInv, AtMostTwoSeeks
  <2> HIDE DEF seeks
  <2>3. IsFiniteSet(seeks \ erased) /\ Cardinality(seeks \ erased) \in Nat
    BY <2>2, FS_Subset, FS_CardinalityType
  <2>4. Cardinality(seeks \ erased) <= 1
    <3>1. CASE Cardinality(seeks) >= 2
      <4>1. PICK m \in seeks : m \in erased
        BY <1>4, <3>1
      <4>2. Cardinality(seeks \ {m}) = Cardinality(seeks) - 1
            /\ IsFiniteSet(seeks \ {m})
        BY <2>2, FS_RemoveElement
      <4>3. seeks \ erased \in SUBSET (seeks \ {m})
        BY <4>1
      <4>4. Cardinality(seeks \ erased) <= Cardinality(seeks \ {m})
        BY <4>2, <4>3, FS_Subset
      <4>. QED  BY <2>2, <2>3, <4>2, <4>4
    <3>2. CASE ~ (Cardinality(seeks) >= 2)
      <4>1. Cardinality(seeks \ erased) <= Cardinality(seeks)
        BY <2>2, FS_Subset
      <4>. QED  BY <2>2, <2>3, <3>2, <4>1
    <3>. QED  BY <3>1, <3>2
  <2>5. Cardinality((seeks \ erased) \cup {Appended(c)}) <= 2
    <3>1. Cardinality((seeks \ erased) \cup {Appended(c)})
            = IF Appended(c) \in seeks \ erased
              THEN Cardinality(seeks \ erased)
              ELSE Cardinality(seeks \ erased) + 1
      BY <2>3, FS_AddElement
    <3>. QED  BY <2>3, <2>4, <3>1
  <2>. QED  BY <2>1, <2>5 DEF AtMostTwoSeeks, seeks
<1>. QED  BY <1>5, <1>7, <1>8 DEF IInv

-----------------------------------------------------------------------------
LEMMA BuildIInv ==
  ASSUME IInv, NEW c \in Callers, NEW type \in PlayMsgType,
         NEW url \in Url \cup {NoUrl}, Build(c, type, url)
  PROVE  IInv'
<1> DEFINE built == [type |-> type, time |-> now, url |-> url]
<1>1. TypeOK'
  BY BuildTypeOK DEF IInv
<1>2. /\ qm[c] = NoMsg
      /\ url # NoUrl => url \notin heap
      /\ qm' = [qm EXCEPT ![c] = built]
      /\ heap' = heap \cup ({url} \ {NoUrl})
      /\ Pushed' = Pushed
      /\ UNCHANGED <<mMsgQueue, processQueue, nextTicket, newest, handled>>
  BY DEF Build, Pushed
<1>3. /\ qm \in [Callers -> Draft \cup {NoMsg}]
      /\ built \in Draft /\ built # NoMsg /\ built.url = url
  BY NoMsgAssumption DEF IInv, TypeOK, Draft
<1> HIDE DEF built
<1>4. \A d \in Callers : qm'[d] = IF d = c THEN built ELSE qm[d]
  BY <1>2, <1>3
<1>5. UrlOwnership'
  <2>1. /\ \A m, n \in Pushed : m.url = n.url /\ m.url # NoUrl => m = n
        /\ \A d \in Callers : qm[d] # NoMsg /\ qm[d].url # NoUrl =>
              /\ \A m \in Pushed : m.url # qm[d].url
              /\ \A e \in Callers \ {d} : qm[e] # NoMsg => qm[e].url # qm[d].url
    BY DEF UrlOwnership, IInv
  <2>2. \A u : u \in heap <=>
           /\ u # NoUrl
           /\ \/ \E m \in Pushed : u = m.url
              \/ \E d \in Callers : qm[d] # NoMsg /\ u = qm[d].url
    BY DEF UrlOwnership, IInv
  <2>3. \A u : u \in heap' <=>
           /\ u # NoUrl
           /\ \/ \E m \in Pushed' : u = m.url
              \/ \E d \in Callers : qm'[d] # NoMsg /\ u = qm'[d].url
    BY <1>2, <1>3, <1>4, <2>2
  <2>4. (heap = ({m.url : m \in Pushed}
                   \cup {qm[d].url : d \in {e \in Callers : qm[e] # NoMsg}}) \ {NoUrl})'
    BY <2>3
  <2>5. (\A d \in Callers : qm[d] # NoMsg /\ qm[d].url # NoUrl =>
            /\ \A m \in Pushed : m.url # qm[d].url
            /\ \A e \in Callers \ {d} : qm[e] # NoMsg => qm[e].url # qm[d].url)'
    BY <1>2, <1>3, <1>4, <2>1, <2>2
  <2>. QED  BY <1>2, <2>1, <2>4, <2>5 DEF UrlOwnership
<1>. QED  BY <1>1, <1>2, <1>5
          DEF IInv, TicketOrder, OneOfReplaceAll, AtMostTwoSeeks, HandledInOrder,
              NewestSeekSurvives

LEMMA CollectIInv ==
  ASSUME IInv, NEW padded, Collect(padded)
  PROVE  IInv'
<1>1. /\ processQueue = {}
      /\ processQueue' = {m \in mMsgQueue : m.type \notin padded}
      /\ mMsgQueue' = {m \in mMsgQueue : m.type \in padded}
      /\ Pushed' = Pushed
      /\ UNCHANGED <<qm, heap, now, nextTicket, newest, handled>>
  BY DEF Collect, Pushed
<1>2. TypeOK'
  BY <1>1 DEF IInv, TypeOK
<1>3. mMsgQueue' \in SUBSET mMsgQueue
  BY <1>1
<1>4. TicketOrder'
  <2>1. IsFiniteSet(mMsgQueue)'
    BY <1>3, FS_Subset DEF IInv, TicketOrder
  <2>. QED  BY <1>1, <2>1 DEF IInv, TicketOrder
<1>5. AtMostTwoSeeks'
  <2>1. Queued(mMsgQueue, "MSG_SEEKTO") \in SUBSET mMsgQueue
        /\ Queued(mMsgQueue, "MSG_SEEKTO")' \in SUBSET Queued(mMsgQueue, "MSG_SEEKTO")
    BY <1>3 DEF Queued
  <2>2. IsFiniteSet(Queued(mMsgQueue, "MSG_SEEKTO"))
    BY <2>1, FS_Subset DEF IInv, TicketOrder
  <2>3. /\ IsFiniteSet(Queued(mMsgQueue, "MSG_SEEKTO")')
        /\ Cardinality(Queued(mMsgQueue, "MSG_SEEKTO")')
              <= Cardinality(Queued(mMsgQueue, "MSG_SEEKTO"))
    BY <2>1, <2>2, FS_Subset
  <2>4. /\ Cardinality(Queued(mMsgQueue, "MSG_SEEKTO")) \in Nat
        /\ Cardinality(Queued(mMsgQueue, "MSG_SEEKTO")') \in Nat
    BY <2>2, <2>3, FS_CardinalityType
  <2>. QED  BY <2>3, <2>4 DEF AtMostTwoSeeks, IInv
<1>6. HandledInOrder'
  BY <1>1 DEF HandledInOrder, IInv
<1>7. UrlOwnership' /\ NewestSeekSurvives'
  BY <1>1 DEF UrlOwnership, NewestSeekSurvives, IInv
<1>8. OneOfReplaceAll'
  BY <1>1 DEF OneOfReplaceAll, IInv
<1>. QED  BY <1>2, <1>4, <1>5, <1>6, <1>7, <1>8 DEF IInv

LEMMA HandleIInv ==
  ASSUME IInv, Handle
  PROVE  IInv'
<1> DEFINE h == OldestOf(processQueue)
<1>1. TypeOK'
  BY HandleTypeOK DEF IInv
<1>2. \A m \in Pushed : /\ m.ticket \in Nat
                        /\ m.type \in PlayMsgType
                        /\ m.url \in Url \cup {NoUrl}
  BY TicketsAreNaturals DEF IInv
<1>3. h \in processQueue /\ \A n \in processQueue : h.ticket <= n.ticket
  BY <1>2, OldestOfIsOldest DEF Handle, Pushed
<1>4. /\ processQueue' = processQueue \ {h}
      /\ handled' = [handled EXCEPT ![h.type] = h.ticket]
      /\ heap' = heap \ {h.url}
      /\ UNCHANGED <<mMsgQueue, qm, now, nextTicket, newest>>
  BY DEF Handle, Recycle
<1> HIDE DEF h
<1>5. /\ TicketOrder /\ UrlOwnership /\ HandledInOrder /\ NewestSeekSurvives
      /\ handled \in [PlayMsgType -> Nat \cup {-1}]
      /\ newest \in [PlayMsgType -> Nat \cup {-1}]
      /\ nextTicket \in Nat
  BY DEF IInv, TypeOK
<1>6. Pushed' = Pushed \ {h} /\ h \in Pushed
  BY <1>3, <1>4, <1>5 DEF Pushed, TicketOrder
<1>7. TicketOrder'
  <2>1. (\A t \in PlayMsgType : newest[t] < nextTicket /\ handled[t] < nextTicket)'
    BY <1>2, <1>4, <1>5, <1>6 DEF TicketOrder
  <2>. QED  BY <1>4, <1>5, <1>6, <2>1 DEF TicketOrder
<1>8. UrlOwnership'
  <2>1. h.url # NoUrl => /\ \A m \in Pushed' : m.url # h.url
                         /\ \A c \in Callers : qm[c] # NoMsg => qm[c].url # h.url
    BY <1>5, <1>6 DEF UrlOwnership
  <2>2. (heap = ({m.url : m \in Pushed}
                   \cup {qm[d].url : d \in {e \in Callers : qm[e] # NoMsg}}) \ {NoUrl})'
    BY <1>4, <1>5, <1>6, <2>1 DEF UrlOwnership
  <2>. QED  BY <1>4, <1>5, <1>6, <2>2 DEF UrlOwnership
<1>9. HandledInOrder'
  <2>1. ASSUME NEW m \in Pushed'
        PROVE  handled'[m.type] < m.ticket
    <3>1. CASE m.type = h.type
      <4>1. h.ticket # m.ticket
        BY <1>5, <1>6 DEF TicketOrder
      <4>2. h.ticket <= m.ticket
        BY <1>2, <1>3, <1>5, <1>6, <3>1 DEF HandledInOrder, Pushed
      <4>. QED  BY <1>2, <1>4, <1>5, <1>6, <3>1, <4>1, <4>2
    <3>2. CASE m.type # h.type
      BY <1>2, <1>4, <1>5, <1>6, <3>2 DEF HandledInOrder
    <3>. QED  BY <3>1, <3>2
  <2>. QED  BY <1>4, <1>5, <2>1 DEF HandledInOrder
<1>10. NewestSeekSurvives'
  <2> SUFFICES ASSUME "MSG_SEEKTO" \in PlayMsgType, newest["MSG_SEEKTO"] # -1,
                      handled'["MSG_SEEKTO"] # newest["MSG_SEEKTO"]
               PROVE  \E m \in Queued(Pushed', "MSG_SEEKTO") :
                         m.ticket = newest["MSG_SEEKTO"]
    BY <1>4 DEF NewestSeekSurvives
  <2>1. handled["MSG_SEEKTO"] # newest["MSG_SEEKTO"]
    <3>1. CASE h.type = "MSG_SEEKTO"
      BY <1>2, <1>5, <1>6, <3>1 DEF HandledInOrder, TicketOrder
    <3>2. CASE h.type # "MSG_SEEKTO"
      BY <1>2, <1>4, <1>5, <1>6, <3>2
    <3>. QED  BY <3>1, <3>2
  <2>2. PICK m \in Queued(Pushed, "MSG_SEEKTO") : m.ticket = newest["MSG_SEEKTO"]
    BY <1>5, <2>1 DEF NewestSeekSurvives
  <2>3. m # h
    BY <1>2, <1>4, <1>5, <1>6, <2>2 DEF Queued
  <2>. QED  BY <1>6, <2>2, <2>3 DEF Queued
<1>11. OneOfReplaceAll' /\ AtMostTwoSeeks'
  BY <1>4 DEF OneOfReplaceAll, AtMostTwoSeeks, IInv
<1>. QED  BY <1>1, <1>7, <1>8, <1>9, <1>10, <1>11 DEF IInv

LEMMA ClearIInv ==
  ASSUME IInv, Clear
  PROVE  IInv'
<1>1. /\ Pushed = mMsgQueue /\ Pushed' = {} /\ mMsgQueue' = {} /\ processQueue' = {}
      /\ heap' = heap \ {m.url : m \in Pushed}
      /\ newest' = [t \in PlayMsgType |-> -1]
      /\ UNCHANGED <<qm, now, nextTicket, handled>>
  BY DEF Clear, Recycle, Pushed
<1>2. TypeOK'
  BY <1>1 DEF IInv, TypeOK
<1>3. TicketOrder'
  BY <1>1, FS_EmptySet DEF IInv, TypeOK, TicketOrder
<1>4. UrlOwnership'
  <2>1. (heap = ({m.url : m \in Pushed}
                   \cup {qm[d].url : d \in {e \in Callers : qm[e] # NoMsg}}) \ {NoUrl})'
    BY <1>1 DEF IInv, UrlOwnership
  <2>. QED  BY <1>1, <2>1 DEF IInv, UrlOwnership
<1>5. AtMostTwoSeeks'
  <2>1. Queued(mMsgQueue, "MSG_SEEKTO")' = {}
    BY <1>1 DEF Queued
  <2>. QED  BY <2>1, FS_EmptySet DEF AtMostTwoSeeks
<1>6. NewestSeekSurvives'
  BY <1>1 DEF NewestSeekSurvives
<1>. QED  BY <1>1, <1>2, <1>3, <1>4, <1>5, <1>6
          DEF IInv, OneOfReplaceAll, HandledInOrder

LEMMA NextIInv == IInv /\ [Next]_vars => IInv'
<1> SUFFICES ASSUME IInv, [Next]_vars
             PROVE  IInv'
  OBVIOUS
<1>1. ASSUME NEW c \in Callers, Put(c)
      PROVE  IInv'
  <2>1. ASSUME NEW type \in PlayMsgType, NEW url \in Url \cup {NoUrl},
               Build(c, type, url)
        PROVE  IInv'
    BY <2>1, BuildIInv
  <2>2. CASE PutReplaceAll(c) \/ PutReplaceLast(c)
    BY <2>2, PutReplaceAllIInv, PutReplaceLastIInv
  <2>3. CASE PutSeek(c) \/ PutReplaceNone(c)
    BY <2>3, PutSeekIInv, PutReplaceNoneIInv
  <2>. QED  BY <1>1, <2>1, <2>2, <2>3 DEF Put
<1>2. ASSUME NEW padded \in SUBSET (PlayMsgType \cap PaddableTypes),
             Collect(padded)
      PROVE  IInv'
  BY <1>2, CollectIInv
<1>3. CASE Handle
  BY <1>3, HandleIInv
<1>4. CASE Clear
  BY <1>4, ClearIInv
<1>5. TypeOK'
  BY TypeCorrectStep DEF IInv
<1>6. CASE Tick \/ UNCHANGED vars
  <2>1. /\ UNCHANGED <<mMsgQueue, processQueue, qm, heap, nextTicket, newest, handled>>
        /\ Pushed' = Pushed
    BY <1>6 DEF Tick, vars, Pushed
  <2>2. UrlOwnership'
    BY <2>1 DEF IInv, UrlOwnership
  <2>3. TicketOrder' /\ HandledInOrder' /\ NewestSeekSurvives'
    BY <2>1 DEF IInv, TicketOrder, HandledInOrder, NewestSeekSurvives
  <2>4. OneOfReplaceAll' /\ AtMostTwoSeeks'
    BY <2>1 DEF IInv, OneOfReplaceAll, AtMostTwoSeeks
  <2>. QED  BY <1>5, <2>2, <2>3, <2>4 DEF IInv
<1>. QED  BY <1>1, <1>2, <1>3, <1>4, <1>6 DEF Next

(* At most two seeks are queued, however fast they come and however long   *)
(* they are padded.                                                        *)
THEOREM QueueBounded == Spec => []AtMostTwoSeeks
<1>1. IInv => AtMostTwoSeeks
  BY DEF IInv
<1>. QED  BY <1>1, InitIInv, NextIInv, PTL DEF Spec

(* Every url string is owned by one message that is queued or being        *)
(* handled: the messages that are merged, handled or cleared free theirs.  *)
THEOREM UrlsOwned == Spec => []UrlOwnership
<1>1. IInv => UrlOwnership
  BY DEF IInv
<1>. QED  BY <1>1, InitIInv, NextIInv, PTL DEF Spec

(* Of a REPLACE_ALL type the queue holds one message, whoever puts it.     *)
THEOREM OneOfEach == Spec => []OneOfReplaceAll
<1>1. IInv => OneOfReplaceAll
  BY DEF IInv
<1>. QED  BY <1>1, InitIInv, NextIInv, PTL DEF Spec

(* Messages of a type are handled in the order they were put.              *)
THEOREM OrderKept == Spec => []HandledInOrder
<1>1. IInv => HandledInOrder
  BY DEF IInv
<1>. QED  BY <1>1, InitIInv, NextIInv, PTL DEF Spec

(* The newest seek is never merged away, even by an erase through an       *)
(* iterator that an earlier erase has invalidated.                         *)
THEOREM NewestSeekKept == Spec => []NewestSeekSurvives
<1>1. IInv => NewestSeekSurvives
  BY DEF IInv
<1>. QED  BY <1>1, InitIInv, NextIInv, PTL DEF Spec
=============================================================================
