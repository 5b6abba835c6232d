----------------------- MODULE SegmentTrackerTheorems -----------------------
(***************************************************************************)
(* What holds for a playlist of any length, any number of seeks, switches  *)
(* and reopenings, with or without delta updates.                          *)
(***************************************************************************)
EXTENDS SegmentTracker, TLAPS

-----------------------------------------------------------------------------
(* SegmentList::merge()                                                    *)

LEMMA RunOf ==
  ASSUME NEW from \in Nat, NEW to \in Nat
  PROVE  /\ Run(from, to) \in Seq(Nat)
         /\ Len(Run(from, to)) = IF from <= to THEN to - from + 1 ELSE 0
         /\ \A i \in DOMAIN Run(from, to) : Run(from, to)[i] = from + i - 1
<1> DEFINE n == IF from <= to THEN to - from + 1 ELSE 0
<1>1. n \in Nat /\ 1 .. to - from + 1 = 1 .. n
  OBVIOUS
<1>2. Run(from, to) = [i \in 1 .. n |-> from + i - 1]
  BY <1>1 DEF Run
<1>3. \A i \in 1 .. n : from + i - 1 \in Nat
  BY <1>1
<1> HIDE DEF n
<1>4. /\ Run(from, to) \in Seq(Nat) /\ Len(Run(from, to)) = n
      /\ \A i \in DOMAIN Run(from, to) : Run(from, to)[i] = from + i - 1
  BY <1>1, <1>2, <1>3
<1>. QED  BY <1>4 DEF n

(* The newest of a list are its end.                                       *)
LEMMA NewestOf ==
  ASSUME NEW list \in Seq(Nat), NEW size \in Nat
  PROVE  /\ Newest(list, size) \in Seq(Nat)
         /\ Len(Newest(list, size)) = IF Len(list) > size THEN size ELSE Len(list)
         /\ \A i \in DOMAIN Newest(list, size) :
               Newest(list, size)[i] = list[Len(list) - Len(Newest(list, size)) + i]
<1>1. CASE Len(list) > size
  BY <1>1 DEF Newest
<1>2. CASE ~ (Len(list) > size)
  BY <1>2 DEF Newest
<1>. QED  BY <1>1, <1>2

LEMMA ConcatenationOf ==
  ASSUME NEW q \in Seq(Nat), NEW r \in Seq(Nat)
  PROVE  /\ q \o r \in Seq(Nat) /\ Len(q \o r) = Len(q) + Len(r)
         /\ \A i \in 1 .. Len(q) : (q \o r)[i] = q[i]
         /\ \A i \in 1 .. Len(r) : (q \o r)[Len(q) + i] = r[i]
OBVIOUS

(* What merge() makes of the list, as long as there is no gap between them *)
(* after a skip: a run again, up to the newest of the two, which begins    *)
(* where one of them did, unless the list was newer, and never before it.  *)
MergedIsRun(list, newest, from, to) ==
    /\ list \in Seq(Numbers) /\ list # <<>>
    /\ \A i \in DOMAIN list : list[i] = newest - Len(list) + i
    /\ segments = <<>> => Head(list) = from
    /\ segments # <<>> =>
          /\ Head(list) >= Head(segments)
          /\ to >= mLastSeqNum => Head(list) \in {Head(segments), from}

LEMMA MergedList ==
  ASSUME ServerTypeOK, ListTypeOK, NEW from \in Nat, NEW to \in Nat,
         1 <= from, from <= to, to <= last
  PROVE  MergedIsRun(Merged(segments, from, to), IF to > mLastSeqNum THEN to ELSE mLastSeqNum,
                     from, to)
<1> DEFINE n == Len(segments)
           L == mLastSeqNum
           r == Run(Newer(from), to)
           all == segments \o r
           size == to - from + 1
           M == Newest(all, size)
           m == IF to > L THEN to ELSE L
<1>1. /\ segments \in Seq(Numbers) /\ n \in Nat /\ L \in Nat /\ last \in Numbers /\ L <= last
      /\ \A i \in 1 .. n : segments[i] = L - n + i /\ segments[i] \in Numbers
      /\ segments = <<>> <=> L = 0
      /\ segments = <<>> <=> n = 0
      /\ size \in Nat /\ size >= 1
  BY BoundsAssumption DEF ServerTypeOK, ListTypeOK, Numbers
<1>2. n <= L
  <2>1. CASE n = 0
    BY <1>1, <2>1
  <2>2. CASE n # 0
    <3>1. segments[1] = L - n + 1 /\ segments[1] >= 1
      BY <1>1, <2>2, BoundsAssumption DEF Numbers
    <3>. QED  BY <1>1, <3>1
  <2>. QED  BY <2>1, <2>2
<1>3. Newer(from) \in Nat /\ Newer(from) = IF from > L THEN from ELSE L + 1
  BY <1>1 DEF Newer
<1>4. /\ r \in Seq(Nat)
      /\ Len(r) = IF Newer(from) <= to THEN to - Newer(from) + 1 ELSE 0
      /\ \A i \in 1 .. Len(r) : r[i] = Newer(from) + i - 1
  <2> HIDE DEF r
  <2>1. r = Run(Newer(from), to)
    BY DEF r
  <2>2. /\ r \in Seq(Nat)
        /\ Len(r) = IF Newer(from) <= to THEN to - Newer(from) + 1 ELSE 0
        /\ \A i \in DOMAIN r : r[i] = Newer(from) + i - 1
    BY <1>3, <2>1, RunOf
  <2>. QED  BY <2>2
<1> HIDE DEF r
<1>5. /\ all \in Seq(Nat) /\ Len(all) = n + Len(r)
      /\ \A i \in 1 .. n : all[i] = L - n + i
      /\ \A i \in 1 .. Len(r) : all[n + i] = Newer(from) + i - 1
  <2>1. segments \in Seq(Nat)
    BY <1>1 DEF Numbers
  <2>2. /\ all \in Seq(Nat) /\ Len(all) = n + Len(r)
        /\ \A i \in 1 .. n : all[i] = segments[i]
        /\ \A i \in 1 .. Len(r) : all[n + i] = r[i]
    BY <1>4, <2>1, ConcatenationOf
  <2>. QED  BY <1>1, <1>4, <2>2
<1> HIDE DEF all
<1> DEFINE k == Len(M)
<1>6. /\ M \in Seq(Nat)
      /\ k = IF Len(all) > size THEN size ELSE Len(all)
      /\ \A i \in 1 .. k : M[i] = all[Len(all) - k + i]
  <2>1. size \in Nat /\ all \in Seq(Nat)
    BY <1>1, <1>5
  <2> HIDE DEF size, n
  <2>2. /\ M \in Seq(Nat)
        /\ k = IF Len(all) > size THEN size ELSE Len(all)
        /\ \A i \in DOMAIN M : M[i] = all[Len(all) - k + i]
    BY <2>1, NewestOf
  <2> HIDE DEF M
  <2>. QED  BY <2>2
<1> HIDE DEF M, n, L, size, m
<1>7. Len(r) \in Nat /\ Len(all) \in Nat /\ m \in Nat /\ m <= last /\ m >= 1
  BY <1>1, <1>4, <1>5 DEF m
<1>8. k \in Nat /\ k >= 1 /\ k <= Len(all) /\ k <= size
  <2>1. size \in Nat /\ size >= 1
    BY <1>1 DEF size
  <2>2. Len(all) >= 1
    <3>1. CASE n = 0
      <4>1. Newer(from) = from
        BY <1>1, <1>3, <3>1
      <4>2. Len(r) >= 1
        BY <1>4, <4>1
      <4>. QED  BY <1>5, <1>7, <3>1, <4>2
    <3>2. CASE n # 0
      BY <1>1, <1>5, <1>7, <3>2
    <3>. QED  BY <3>1, <3>2
  <2>. QED  BY <1>6, <1>7, <2>1, <2>2
<1>9. \A i \in 1 .. k : M[i] = m - k + i
  <2> SUFFICES ASSUME NEW i \in 1 .. k
               PROVE  M[i] = m - k + i
    OBVIOUS
  <2> DEFINE j == Len(all) - k + i
  <2>1. j \in 1 .. Len(all) /\ M[i] = all[j]
    BY <1>6, <1>7, <1>8
  <2>2. all[j] = m - Len(all) + j
    <3> HIDE DEF j
    <3>1. CASE j \in 1 .. n
      <4>1. all[j] = L - n + j
        BY <1>5, <3>1
      <4>2. to < Newer(from) \/ Newer(from) = L + 1
        <5>1. CASE Newer(from) > to
          BY <5>1, <1>1, <1>3
        <5>2. CASE Newer(from) <= to
          <6>1. Len(r) = to - Newer(from) + 1
            BY <1>4, <5>2
          <6>2. Len(all) - k + i <= n
            BY <3>1 DEF j
          <6>3. n + Len(r) - size + 1 <= n
            BY <1>1, <1>5, <1>7, <1>8, <6>2
          <6>4. Newer(from) > from
            BY <1>1, <1>3, <1>7, <6>1, <6>3 DEF size
          <6>. QED  BY <1>1, <1>3, <6>4
        <5>. QED  BY <1>1, <1>3, <5>1, <5>2
      <4>3. m - Len(all) = L - n
        BY <1>1, <1>3, <1>4, <1>5, <1>7, <4>2 DEF m
      <4>. QED  BY <1>1, <1>7, <3>1, <4>1, <4>3
    <3>2. CASE j \in n + 1 .. Len(all)
      <4>1. j - n \in 1 .. Len(r)
        BY <1>1, <1>5, <1>7, <3>2
      <4>2. all[n + (j - n)] = Newer(from) + (j - n) - 1
        BY <1>5, <4>1
      <4>3. Len(r) = to - Newer(from) + 1 /\ m = to
        BY <1>1, <1>3, <1>4, <1>7, <4>1 DEF m
      <4>4. n + (j - n) = j
        BY <1>1, <3>2
      <4>. QED  BY <1>1, <1>3, <1>5, <1>7, <3>2, <4>2, <4>3, <4>4
    <3>. QED  BY <1>1, <1>7, <2>1, <3>1, <3>2
  <2>. QED  BY <1>7, <1>8, <2>1, <2>2
<1>10. Head(M) = m - k + 1
  BY <1>6, <1>8, <1>9
<1>11. m - k >= 0
  BY <1>1, <1>2, <1>3, <1>4, <1>5, <1>6, <1>7, <1>8 DEF m, size
<1>12. M \in Seq(Numbers)
  <2>1. \A i \in 1 .. k : M[i] \in Numbers
    <3> SUFFICES ASSUME NEW i \in 1 .. k
                 PROVE  M[i] \in Numbers
      OBVIOUS
    <3>1. M[i] = m - k + i
      BY <1>9
    <3>2. 1 <= m - k + i /\ m - k + i <= m /\ m - k + i \in Nat
      BY <1>7, <1>8, <1>11
    <3>3. last \in Nat /\ last <= MaxSeq /\ MaxSeq \in Nat
      BY <1>1, BoundsAssumption DEF Numbers
    <3>. QED  BY <1>7, <3>1, <3>2, <3>3 DEF Numbers
  <2>. QED  BY <1>6, <2>1
<1>13. segments = <<>> => Head(M) = from
  BY <1>1, <1>3, <1>4, <1>5, <1>6, <1>7, <1>10 DEF m, size
<1>14. segments # <<>> => /\ Head(M) >= Head(segments)
                          /\ to >= L => Head(M) \in {Head(segments), from}
  <2> SUFFICES ASSUME segments # <<>>
               PROVE  Head(M) >= Head(segments) /\ (to >= L => Head(M) \in {Head(segments), from})
    OBVIOUS
  <2>1. Head(segments) = L - n + 1 /\ n >= 1
    BY <1>1 DEF n
  <2>2. CASE to <= L
    <3>1. Newer(from) = L + 1 /\ m = L
      BY <1>1, <1>3, <2>2 DEF m
    <3>2. Len(r) = 0
      BY <1>1, <1>4, <2>2, <3>1
    <3>3. Len(all) = n
      BY <1>1, <1>5, <3>2
    <3>4. k = n \/ (k = to - from + 1 /\ k <= n)
      BY <1>6, <1>7, <1>8, <3>3 DEF size
    <3>5. Head(M) >= L - n + 1
      BY <1>1, <1>8, <1>10, <3>1, <3>4
    <3>6. ASSUME to >= L
          PROVE  Head(M) = L - n + 1 \/ Head(M) = from
      <4>1. to = L
        BY <1>1, <2>2, <3>6
      <4>2. CASE k = n
        BY <1>10, <3>1, <4>2
      <4>3. CASE k = to - from + 1
        <5>1. L - (to - from + 1) + 1 = from
          BY <1>1, <4>1
        <5>. QED  BY <1>10, <3>1, <4>3, <5>1
      <4>. QED  BY <3>4, <4>2, <4>3
    <3>. QED  BY <2>1, <3>5, <3>6
  <2>3. CASE to > L /\ from <= L
    <3>1. Newer(from) = L + 1 /\ m = to
      BY <1>1, <1>3, <2>3 DEF m
    <3>2. Len(all) = n + to - L
      BY <1>1, <1>4, <1>5, <2>3, <3>1
    <3>3. k = n + to - L \/ k = to - from + 1
      <4>1. k = Len(all) \/ k = size
        BY <1>6
      <4>. QED  BY <3>2, <4>1 DEF size
    <3>4. Head(M) = L - n + 1 \/ Head(M) = from
      <4>1. CASE k = n + to - L
        <5>1. to - (n + to - L) + 1 = L - n + 1
          BY <1>1
        <5>. QED  BY <1>10, <3>1, <4>1, <5>1
      <4>2. CASE k = to - from + 1
        <5>1. to - (to - from + 1) + 1 = from
          OBVIOUS
        <5>. QED  BY <1>10, <3>1, <4>2, <5>1
      <4>. QED  BY <3>3, <4>1, <4>2
    <3>5. Head(M) >= L - n + 1
      BY <1>1, <1>7, <1>8, <1>10, <3>1, <3>2
    <3>. QED  BY <2>1, <3>4, <3>5
  <2>4. CASE to > L /\ from > L
    <3>1. Newer(from) = from /\ m = to
      BY <1>1, <1>3, <2>4 DEF m
    <3>2. Len(all) = n + to - from + 1
      BY <1>1, <1>4, <1>5, <2>4, <3>1
    <3>3. k = size
      <4>1. Len(all) > size
        BY <1>1, <2>1, <3>2 DEF size
      <4>. QED  BY <1>6, <4>1
    <3>4. Head(M) = from
      <4>1. to - (to - from + 1) + 1 = from
        OBVIOUS
      <4>. QED  BY <1>10, <3>1, <3>3, <4>1 DEF size
    <3>5. from >= L - n + 1
      BY <1>1, <2>1, <2>4
    <3>. QED  BY <2>1, <3>4, <3>5
  <2>. QED  BY <1>1, <2>2, <2>3, <2>4
<1>15. M = Merged(segments, from, to) /\ DOMAIN M = 1 .. k /\ M # <<>>
  BY <1>6, <1>8 DEF Merged, M, all, r, size
<1>. QED  BY <1>9, <1>12, <1>13, <1>14, <1>15 DEF MergedIsRun, m, L

-----------------------------------------------------------------------------
(* The list as the reader sees it                                          *)

LEMMA FirstOfList ==
  ASSUME ServerTypeOK, ListTypeOK
  PROVE  /\ getFirstSeqNum \in Nat /\ getFirstSeqNum <= mLastSeqNum
         /\ mLastSeqNum \in Nat /\ mLastSeqNum <= last /\ last <= MaxSeq /\ MaxSeq \in Nat
         /\ segments # <<>> =>
              /\ getFirstSeqNum = Head(segments) /\ getFirstSeqNum = mLastSeqNum - Len(segments) + 1
              /\ getFirstSeqNum >= 1 /\ Len(segments) \in Nat /\ Len(segments) >= 1
         /\ segments = <<>> => getFirstSeqNum = 0 /\ mLastSeqNum = 0
         /\ \A i \in DOMAIN segments : segments[i] \in Nat /\ 1 <= segments[i] /\ segments[i] <= mLastSeqNum
<1>1. /\ segments \in Seq(Numbers) /\ mLastSeqNum \in 0 .. last /\ last \in 1 .. MaxSeq
      /\ MaxSeq \in Nat
      /\ \A i \in DOMAIN segments : segments[i] = mLastSeqNum - Len(segments) + i
      /\ segments = <<>> <=> mLastSeqNum = 0
  BY BoundsAssumption DEF ServerTypeOK, ListTypeOK, Numbers
<1>2. \A i \in DOMAIN segments : segments[i] \in Nat /\ 1 <= segments[i] /\ segments[i] <= mLastSeqNum
  <2> SUFFICES ASSUME NEW i \in DOMAIN segments
               PROVE  segments[i] \in Nat /\ 1 <= segments[i] /\ segments[i] <= mLastSeqNum
    OBVIOUS
  <2>1. segments[i] \in Numbers /\ i \in 1 .. Len(segments) /\ Len(segments) \in Nat
    BY <1>1
  <2>. QED  BY <1>1, <2>1 DEF Numbers
<1>3. CASE segments = <<>>
  BY <1>1, <1>3, <1>2 DEF getFirstSeqNum
<1>4. CASE segments # <<>>
  <2>1. /\ Len(segments) \in Nat /\ Len(segments) >= 1 /\ 1 \in DOMAIN segments
        /\ Head(segments) = segments[1]
    BY <1>1, <1>4
  <2>2. getFirstSeqNum = segments[1]
    BY <1>4, <2>1 DEF getFirstSeqNum
  <2>. QED  BY <1>1, <1>2, <1>4, <2>1, <2>2
<1>. QED  BY <1>3, <1>4

(* getSegmentByNumber() gives the segment with the number, or the first of *)
(* the list when the number is before it.                                  *)
LEMMA SegmentFound ==
  ASSUME ServerTypeOK, ListTypeOK, NEW number \in Nat
  PROVE  /\ getSegmentByNumber(number) = 0 => segments = <<>> \/ mLastSeqNum < number
         /\ getSegmentByNumber(number) # 0 =>
              /\ segments # <<>>
              /\ getSegmentByNumber(number) \in {number, getFirstSeqNum}
              /\ number <= getSegmentByNumber(number)
              /\ getSegmentByNumber(number) <= mLastSeqNum
              /\ getSegmentByNumber(number) \in Nat
<1> DEFINE n == Len(segments)
           L == mLastSeqNum
<1>1. /\ DOMAIN segments = 1 .. n /\ n \in Nat /\ L \in Nat /\ (segments = <<>> <=> n = 0)
      /\ \A i \in 1 .. n : segments[i] = L - n + i /\ 1 <= segments[i] /\ segments[i] <= L
  <2>1. segments \in Seq(Numbers)
    BY DEF ListTypeOK
  <2>. QED  BY <2>1, FirstOfList DEF ListTypeOK
<1>2. segments # <<>> => getFirstSeqNum = L - n + 1
  BY FirstOfList
<1> HIDE DEF n, L
<1>3. AtLeast(number) = {i \in 1 .. n : L - n + i >= number}
  BY <1>1 DEF AtLeast
<1>4. CASE AtLeast(number) = {}
  <2>1. getSegmentByNumber(number) = 0
    BY <1>4 DEF getSegmentByNumber
  <2>2. ASSUME n # 0
        PROVE  L < number
    <3>1. n \in 1 .. n /\ n \notin AtLeast(number)
      BY <1>1, <1>4, <2>2
    <3>2. ~ (L - n + n >= number)
      BY <1>3, <3>1
    <3>. QED  BY <1>1, <3>2
  <2>. QED  BY <1>1, <2>1, <2>2 DEF L
<1>5. CASE AtLeast(number) # {}
  <2> DEFINE least == IF number <= L - n + 1 THEN 1 ELSE number - (L - n)
             i == CHOOSE j \in AtLeast(number) : \A k \in AtLeast(number) : j <= k
  <2>1. least \in AtLeast(number) /\ \A k \in AtLeast(number) : least <= k
    BY <1>1, <1>3, <1>5
  <2>2. i \in AtLeast(number) /\ \A k \in AtLeast(number) : i <= k
    BY <2>1
  <2>3. i = least /\ i \in 1 .. n
    BY <1>3, <2>1, <2>2
  <2>4. getSegmentByNumber(number) = segments[i]
    BY <1>5 DEF getSegmentByNumber
  <2> HIDE DEF i
  <2>5. segments[i] = L - n + least /\ 1 <= segments[i] /\ segments[i] <= L /\ n # 0
    BY <1>1, <2>3
  <2>6. L - n + least \in {number, L - n + 1} /\ number <= L - n + least
    BY <1>1
  <2>. QED  BY <1>1, <1>2, <2>4, <2>5, <2>6 DEF L
<1>. QED  BY <1>4, <1>5

-----------------------------------------------------------------------------
(* The inductive invariant                                                 *)
IInv == TypeOK /\ Answers /\ Loaded /\ Finished /\ InReach /\ FromTheWindow
        /\ NothingMissed /\ EosIsTheEnd

LEMMA InitIInv == Init => IInv
<1> SUFFICES ASSUME Init
             PROVE  IInv
  OBVIOUS
<1>1. last \in 1 .. MaxSeq /\ MaxSeq \in Nat /\ MaxSeq >= 1
  BY BoundsAssumption DEF Init, Numbers
<1>2. ServerTypeOK /\ ListTypeOK /\ LoadTypeOK
  <2>1. ServerTypeOK
    BY <1>1 DEF Init, ServerTypeOK, Numbers
  <2>2. segments = <<>> /\ mLastSeqNum = 0 /\ mDuration = -1 /\ b_live = FALSE /\ partial = FALSE
    BY DEF Init
  <2>3. ListTypeOK
    <3>1. segments \in Seq(Numbers) /\ DOMAIN segments = {}
      BY <2>2
    <3>2. mLastSeqNum \in 0 .. last
      BY <1>1, <2>2
    <3>. QED  BY <2>2, <3>1, <3>2 DEF ListTypeOK
  <2>4. NoAnswer \in [first : 0 .. MaxSeq, from : 0 .. MaxSeq, to : 0 .. MaxSeq,
                     ended : BOOLEAN, delta : BOOLEAN]
    BY <1>1 DEF NoAnswer
  <2>5. LoadTypeOK
    BY <2>4 DEF Init, LoadTypeOK, LoadSteps
  <2>. QED  BY <2>1, <2>3, <2>5
<1>3. ReadTypeOK
  <2>1. target.num = 0 /\ target.position = 0 /\ mCurSegNum = 0 /\ opens = 0 /\ missed = {}
    BY DEF Init, NoTarget
  <2>2. 0 \in 0 .. 2 * MaxSeq /\ 0 \in -MaxSeq - 1 .. MaxSeq /\ 0 \in 0 .. MaxOpens
    BY <1>1, BoundsAssumption
  <2>. QED  BY <2>1, <2>2 DEF Init, ReadTypeOK, ReadSteps
<1>4. Answers /\ Loaded /\ Finished
  BY DEF Init, Answers, Loaded, Filled, Finished, Loaders
<1>5. InReach
  BY <1>1 DEF Init, InReach, getFirstSeqNum, NoTarget
<1>6. FromTheWindow /\ NothingMissed /\ EosIsTheEnd
  BY DEF Init, FromTheWindow, NothingMissed, EosIsTheEnd
<1>. QED  BY <1>2, <1>3, <1>4, <1>5, <1>6 DEF IInv, TypeOK

(* The window of the server moves on: what was said of it stays true.      *)
LEMMA ServerKeeps == IInv /\ Server => IInv'
<1> SUFFICES ASSUME IInv, Server
             PROVE  IInv'
  OBVIOUS
<1>1. TypeOK /\ Answers /\ Loaded /\ Finished /\ InReach /\ FromTheWindow /\ NothingMissed /\ EosIsTheEnd
  BY DEF IInv
<1>2. /\ last \in 1 .. MaxSeq /\ first \in 1 .. last /\ MaxSeq \in Nat /\ mLastSeqNum \in 0 .. last
      /\ ended \in BOOLEAN
  BY <1>1, BoundsAssumption DEF TypeOK, ServerTypeOK, ListTypeOK, Numbers
<1>3. UNCHANGED <<listVars, loadVars, readVars>>
  BY DEF Server, ServerAdds, ServerDrops, ServerEnds
<1>4. ~ ended /\ last' \in last .. MaxSeq /\ first' \in first .. last' /\ ended' \in BOOLEAN
  <2>1. CASE ServerAdds
    BY <1>2, <2>1 DEF ServerAdds
  <2>2. CASE ServerDrops
    BY <1>2, <2>2 DEF ServerDrops
  <2>3. CASE ServerEnds
    BY <1>2, <2>3 DEF ServerEnds
  <2>. QED  BY <2>1, <2>2, <2>3 DEF Server
<1>5. ServerTypeOK'
  BY <1>2, <1>4 DEF ServerTypeOK, Numbers
<1>6. ListTypeOK' /\ LoadTypeOK' /\ ReadTypeOK'
  <2>1. mLastSeqNum \in 0 .. last'
    BY <1>2, <1>4
  <2>2. ListTypeOK'
    <3>1. UNCHANGED <<segments, mLastSeqNum, mDuration, b_live, partial>>
      BY <1>3 DEF listVars
    <3>. QED  BY <1>1, <2>1, <3>1 DEF TypeOK, ListTypeOK
  <2>. QED  BY <1>1, <1>3, <2>2 DEF TypeOK, LoadTypeOK, ReadTypeOK, loadVars, readVars
<1>7. Answers'
  <2> SUFFICES ASSUME NEW l \in Loaders, load[l] = "merge"
               PROVE  AnswerHolds(answer[l])'
    BY <1>3 DEF Answers, loadVars
  <2>1. AnswerHolds(answer[l])
    BY <1>1 DEF Answers
  <2>2. answer[l].first \in Nat /\ answer[l].to \in Nat
    BY <1>1 DEF TypeOK, LoadTypeOK
  <2>3. UNCHANGED <<answer, segments>>
    BY <1>3 DEF loadVars, listVars
  <2>. QED  BY <1>2, <1>4, <2>1, <2>2, <2>3 DEF AnswerHolds
<1>8. Loaded' /\ NothingMissed' /\ InReach'
  BY <1>1, <1>3 DEF Loaded, Filled, NothingMissed, InReach, getFirstSeqNum, listVars, loadVars, readVars
<1>9. Finished' /\ EosIsTheEnd'
  BY <1>1, <1>3, <1>4 DEF Finished, Complete, EosIsTheEnd, listVars, readVars
<1>10. FromTheWindow'
  <2>1. getFirstSeqNum \in Nat
    BY <1>1, FirstOfList DEF TypeOK
  <2>. QED  BY <1>1, <1>2, <1>3, <1>4, <2>1 DEF FromTheWindow, getFirstSeqNum, listVars
<1>. QED  BY <1>5, <1>6, <1>7, <1>8, <1>9, <1>10 DEF IInv, TypeOK

(* A step that changes neither the playlist nor the list of segments.      *)
LEMMA ListKept ==
  ASSUME IInv, UNCHANGED <<serverVars, listVars>>, LoadTypeOK', ReadTypeOK',
         \A l \in Loaders : load'[l] = "merge" => load[l] = "merge" /\ answer'[l] = answer[l],
         Filled' => Filled \/ segments # <<>>,
         mCurSegNum' <= getFirstSeqNum + MaxSeq, target'.num <= getFirstSeqNum + MaxSeq,
         NothingMissed', EosIsTheEnd'
  PROVE  IInv'
<1>1. TypeOK /\ Answers /\ Loaded /\ Finished /\ InReach /\ FromTheWindow
  BY DEF IInv
<1>2. UNCHANGED <<first, last, ended, segments, mLastSeqNum, b_live, mDuration, partial>>
  BY DEF serverVars, listVars
<1>3. TypeOK'
  BY <1>1, <1>2 DEF TypeOK, ServerTypeOK, ListTypeOK
<1>4. Answers'
  BY <1>1, <1>2 DEF Answers, AnswerHolds
<1>5. Loaded' /\ Finished' /\ FromTheWindow' /\ InReach'
  BY <1>1, <1>2 DEF Loaded, Finished, Complete, FromTheWindow, InReach, getFirstSeqNum
<1>. QED  BY <1>3, <1>4, <1>5 DEF IInv

(* What the loads do but for the merge.                                    *)
LEMMA AnswerKeeps == ASSUME IInv, NEW l \in Loaders, Answer(l) PROVE IInv'
<1>1. TypeOK /\ Answers /\ Loaded /\ Finished /\ InReach /\ FromTheWindow /\ NothingMissed /\ EosIsTheEnd
  BY DEF IInv
<1>2. /\ last \in 1 .. MaxSeq /\ first \in 1 .. last /\ MaxSeq \in Nat /\ ended \in BOOLEAN
  BY <1>1, BoundsAssumption DEF TypeOK, ServerTypeOK, Numbers
<1>3. PICK from \in first .. last, delta \in BOOLEAN :
          /\ delta => segments # <<>>
          /\ ~ delta => from = first
          /\ answer' = [answer EXCEPT ![l] =
                 [first |-> first, from |-> from, to |-> last, ended |-> ended, delta |-> delta]]
  BY DEF Answer
<1>4. /\ load' = [load EXCEPT ![l] = "merge"]
      /\ UNCHANGED <<serverVars, listVars, readVars, mNeedUpdate, mNeedReloadWithoutSkip>>
  BY DEF Answer
<1> DEFINE a == [first |-> first, from |-> from, to |-> last, ended |-> ended, delta |-> delta]
<1>5. a \in [first : 0 .. MaxSeq, from : 0 .. MaxSeq, to : 0 .. MaxSeq,
            ended : BOOLEAN, delta : BOOLEAN]
  BY <1>2, <1>3
<1>6. AnswerHolds(a)
  BY <1>2, <1>3 DEF AnswerHolds
<1>7. answer' = [answer EXCEPT ![l] = a]
  BY <1>3
<1> HIDE DEF a
<1>8. LoadTypeOK'
  BY <1>1, <1>4, <1>5, <1>7 DEF TypeOK, LoadTypeOK, LoadSteps
<1>9. UNCHANGED <<first, last, ended, segments>>
  BY <1>4 DEF serverVars, listVars
<1>10. Answers'
  <2> SUFFICES ASSUME NEW k \in Loaders, load'[k] = "merge"
               PROVE  AnswerHolds(answer[k])'
    BY DEF Answers
  <2>1. AnswerHolds(answer'[k])
    BY <1>1, <1>4, <1>6, <1>7 DEF Answers, TypeOK, LoadTypeOK
  <2>. QED  BY <1>9, <2>1 DEF AnswerHolds
<1>11. Loaded'
  BY <1>1, <1>4 DEF Loaded, Filled, TypeOK, LoadTypeOK, listVars, readVars
<1>12. Finished' /\ InReach' /\ FromTheWindow' /\ NothingMissed' /\ EosIsTheEnd'
  BY <1>1, <1>4 DEF Finished, Complete, InReach, getFirstSeqNum, FromTheWindow, NothingMissed,
                    EosIsTheEnd, serverVars, listVars, readVars
<1>13. ServerTypeOK' /\ ListTypeOK' /\ ReadTypeOK'
  BY <1>1, <1>4 DEF TypeOK, ServerTypeOK, ListTypeOK, ReadTypeOK, serverVars, listVars, readVars
<1>. QED  BY <1>8, <1>10, <1>11, <1>12, <1>13 DEF IInv, TypeOK

LEMMA LoadKeeps ==
  ASSUME IInv, NEW l \in Loaders,
         LoadFails(l) \/ MergeRefused(l) \/ TrackerLoads \/ TrackerLoaded \/ ReLoadPlayList
  PROVE  IInv'
<1>1. TypeOK /\ Answers /\ Loaded /\ InReach /\ NothingMissed /\ EosIsTheEnd
  BY DEF IInv
<1>2. LoadTypeOK /\ MaxSeq \in Nat
  BY <1>1, BoundsAssumption DEF TypeOK
<1>3. UNCHANGED <<serverVars, listVars, readVars>>
  BY DEF LoadFails, MergeRefused, TrackerLoads, TrackerLoaded, ReLoadPlayList
<1>4. NoAnswer \in [first : 0 .. MaxSeq, from : 0 .. MaxSeq, to : 0 .. MaxSeq,
                   ended : BOOLEAN, delta : BOOLEAN]
  BY <1>2 DEF NoAnswer
<1>5. UNCHANGED answer \/ (answer' = [answer EXCEPT ![l] = NoAnswer] /\ load'[l] = "loaded")
  <2>1. CASE MergeRefused(l)
    BY <1>2, <2>1 DEF MergeRefused, LoadTypeOK
  <2>2. CASE LoadFails(l) \/ TrackerLoads \/ TrackerLoaded \/ ReLoadPlayList
    BY <2>2 DEF LoadFails, TrackerLoads, TrackerLoaded, ReLoadPlayList
  <2>. QED  BY <2>1, <2>2
<1>6. UNCHANGED load \/ \E k \in Loaders, step \in LoadSteps \ {"merge"} :
          load' = [load EXCEPT ![k] = step]
                  /\ (step = "loaded" => load[k] = "merge" /\ answer[k].delta)
  BY DEF LoadFails, MergeRefused, TrackerLoads, TrackerLoaded, ReLoadPlayList, Loaders, LoadSteps
<1>7. mNeedUpdate' \in BOOLEAN /\ mNeedReloadWithoutSkip' \in BOOLEAN
  BY <1>2 DEF LoadFails, MergeRefused, TrackerLoads, TrackerLoaded, ReLoadPlayList, LoadTypeOK
<1>8. LoadTypeOK'
  <2>1. answer' \in [Loaders -> [first : 0 .. MaxSeq, from : 0 .. MaxSeq, to : 0 .. MaxSeq,
                               ended : BOOLEAN, delta : BOOLEAN]]
    BY <1>2, <1>4, <1>5 DEF LoadTypeOK
  <2>2. load' \in [Loaders -> LoadSteps]
    BY <1>2, <1>6 DEF LoadTypeOK
  <2>. QED  BY <1>7, <2>1, <2>2 DEF LoadTypeOK
<1>9. \A k \in Loaders : load'[k] = "merge" => load[k] = "merge" /\ answer'[k] = answer[k]
  BY <1>2, <1>5, <1>6 DEF LoadTypeOK
<1>10. ReadTypeOK' /\ NothingMissed' /\ EosIsTheEnd' /\ UNCHANGED <<mCurSegNum, target>>
  BY <1>1, <1>3 DEF TypeOK, ReadTypeOK, NothingMissed, EosIsTheEnd, serverVars, listVars, readVars
<1>11. Filled' => Filled \/ segments # <<>>
  <2> SUFFICES ASSUME NEW k \in Loaders, load'[k] = "loaded", load[k] # "loaded"
               PROVE  segments # <<>>
    BY <1>3 DEF Filled, readVars, listVars
  <2>1. load[k] = "merge" /\ answer[k].delta
    BY <1>2, <1>6 DEF LoadTypeOK
  <2>. QED  BY <1>1, <2>1 DEF Answers, AnswerHolds
<1>. QED  BY <1>1, <1>3, <1>8, <1>9, <1>10, <1>11, ListKept DEF InReach

(* The merge.                                                              *)
LEMMA MergeKeeps == ASSUME IInv, NEW l \in Loaders, Merge(l) PROVE IInv'
<1> DEFINE a == answer[l]
           newest == IF a.to > mLastSeqNum THEN a.to ELSE mLastSeqNum
<1>1. TypeOK /\ Answers /\ Loaded /\ Finished /\ InReach /\ FromTheWindow /\ NothingMissed /\ EosIsTheEnd
  BY DEF IInv
<1>2. /\ load[l] = "merge" /\ AnswerHolds(a) /\ UNCHANGED <<first, last, ended>>
      /\ a \in [first : 0 .. MaxSeq, from : 0 .. MaxSeq, to : 0 .. MaxSeq,
                ended : BOOLEAN, delta : BOOLEAN]
  BY <1>1 DEF Merge, Answers, TypeOK, LoadTypeOK, serverVars
<1>3. /\ segments' = Merged(segments, a.from, a.to)
      /\ mLastSeqNum' = newest
      /\ partial' = (partial \/ a.delta \/ a.to < mLastSeqNum)
      /\ b_live' = ~ a.ended
      /\ mDuration' = IF mDuration # -1 THEN mDuration ELSE IF a.ended THEN 1 ELSE 0
      /\ load' = [load EXCEPT ![l] = "loaded"]
      /\ answer' = [answer EXCEPT ![l] = NoAnswer]
      /\ UNCHANGED <<readVars, mNeedUpdate, mNeedReloadWithoutSkip>>
  BY DEF Merge
<1> HIDE DEF a
<1>4. /\ a.first \in Nat /\ a.from \in Nat /\ a.to \in Nat /\ a.ended \in BOOLEAN /\ a.delta \in BOOLEAN
      /\ 1 <= a.first /\ a.first <= first /\ a.first <= a.from /\ a.from <= a.to /\ a.to <= last
      /\ 1 <= a.from
  BY <1>2 DEF AnswerHolds
<1>5. /\ last \in 1 .. MaxSeq /\ first \in 1 .. last /\ MaxSeq \in Nat /\ mLastSeqNum \in 0 .. last
      /\ ended \in BOOLEAN /\ partial \in BOOLEAN
  BY <1>1, BoundsAssumption DEF TypeOK, ServerTypeOK, ListTypeOK, Numbers
<1>6. MergedIsRun(segments', newest, a.from, a.to)
  BY <1>1, <1>3, <1>4, MergedList DEF TypeOK
<1>7. newest \in 1 .. last
  BY <1>4, <1>5
<1> HIDE DEF newest
<1>8. ServerTypeOK' /\ ReadTypeOK'
  BY <1>1, <1>2, <1>3 DEF TypeOK, ServerTypeOK, ReadTypeOK, readVars
<1>9. ListTypeOK'
  <2>1. /\ segments' \in Seq(Numbers) /\ segments' # <<>>
        /\ \A i \in DOMAIN segments' : segments'[i] = newest - Len(segments') + i
    BY <1>6 DEF MergedIsRun
  <2>2. mLastSeqNum' = newest /\ newest \in 0 .. last' /\ newest # 0
    BY <1>2, <1>3, <1>5, <1>7
  <2>3. mDuration' \in {-1, 0, 1} /\ b_live' \in BOOLEAN /\ partial' \in BOOLEAN
    BY <1>1, <1>3, <1>4, <1>5 DEF TypeOK, ListTypeOK
  <2>. QED  BY <2>1, <2>2, <2>3 DEF ListTypeOK
<1>10. LoadTypeOK'
  <2>1. NoAnswer \in [first : 0 .. MaxSeq, from : 0 .. MaxSeq, to : 0 .. MaxSeq,
                     ended : BOOLEAN, delta : BOOLEAN]
    BY <1>5 DEF NoAnswer
  <2>. QED  BY <1>1, <1>3, <2>1 DEF TypeOK, LoadTypeOK, LoadSteps
<1>11. segments' # <<>> /\ getFirstSeqNum' = Head(segments')
  BY <1>6 DEF MergedIsRun, getFirstSeqNum
<1>12. Answers'
  <2> SUFFICES ASSUME NEW k \in Loaders, load'[k] = "merge"
               PROVE  AnswerHolds(answer[k])'
    BY DEF Answers
  <2>1. load[k] = "merge" /\ answer'[k] = answer[k]
    BY <1>1, <1>3 DEF TypeOK, LoadTypeOK
  <2>. QED  BY <1>1, <1>2, <1>11, <2>1 DEF Answers, AnswerHolds
<1>13. Loaded'
  BY <1>11 DEF Loaded
<1>14. a.ended => ended' /\ mLastSeqNum' = last'
  BY <1>2, <1>3, <1>4, <1>5, <1>7 DEF AnswerHolds, newest
<1>15. Complete => Complete'
  BY <1>2, <1>3, <1>4, <1>5 DEF Complete, newest
<1>16. Finished'
  <2>1. ~ b_live' => Complete'
    BY <1>3, <1>14 DEF Complete
  <2>2. mDuration' = 1 => mDuration = 1 \/ a.ended
    BY <1>3
  <2>3. mDuration' = 1 => Complete'
    BY <1>1, <1>14, <1>15, <2>2 DEF Finished, Complete
  <2>. QED  BY <2>1, <2>3 DEF Finished
<1>17. getFirstSeqNum' >= getFirstSeqNum /\ getFirstSeqNum \in Nat /\ getFirstSeqNum' \in Nat
  <2>1. getFirstSeqNum' \in Nat
    <3>1. Head(segments') \in Numbers
      BY <1>6 DEF MergedIsRun
    <3>. QED  BY <1>11, <3>1 DEF Numbers
  <2>2. CASE segments = <<>>
    BY <2>1, <2>2 DEF getFirstSeqNum
  <2>3. CASE segments # <<>>
    <3>1. getFirstSeqNum = Head(segments) /\ getFirstSeqNum \in Nat
      BY <1>1, <2>3, FirstOfList DEF TypeOK
    <3>2. Head(segments') >= Head(segments)
      BY <1>6, <2>3 DEF MergedIsRun
    <3>. QED  BY <1>11, <2>1, <3>1, <3>2
  <2>4. getFirstSeqNum \in Nat
    BY <1>1, FirstOfList DEF TypeOK
  <2>. QED  BY <2>1, <2>2, <2>3, <2>4
<1>18. InReach'
  <2>1. /\ mCurSegNum \in Nat /\ target.num \in Nat
        /\ mCurSegNum' = mCurSegNum /\ target'.num = target.num
    BY <1>1, <1>3, <1>5 DEF TypeOK, ReadTypeOK, readVars
  <2>2. mCurSegNum <= getFirstSeqNum + MaxSeq /\ target.num <= getFirstSeqNum + MaxSeq
    BY <1>1 DEF InReach
  <2>3. \A n \in Nat : n <= getFirstSeqNum + MaxSeq => n <= getFirstSeqNum' + MaxSeq
    <3> DEFINE f == getFirstSeqNum
               g == getFirstSeqNum'
    <3>1. f \in Nat /\ g \in Nat /\ g >= f /\ MaxSeq \in Nat
      BY <1>5, <1>17
    <3> HIDE DEF f, g
    <3>2. \A n \in Nat : n <= f + MaxSeq => n <= g + MaxSeq
      BY <3>1
    <3>. QED  BY <3>2 DEF f, g
  <2>4. mCurSegNum' <= getFirstSeqNum' + MaxSeq /\ target'.num <= getFirstSeqNum' + MaxSeq
    BY <2>1, <2>2, <2>3
  <2>. QED  BY <2>4 DEF InReach
<1>19. FromTheWindow'
  <2> SUFFICES ASSUME ~ partial'
               PROVE  getFirstSeqNum' <= first
    BY <1>2 DEF FromTheWindow
  <2>1. ~ partial /\ ~ a.delta /\ ~ (a.to < mLastSeqNum)
    BY <1>3
  <2>2. a.to >= mLastSeqNum
    BY <1>4, <1>5, <2>1
  <2>3. a.from <= first
    BY <1>2, <2>1 DEF AnswerHolds
  <2>4. CASE segments = <<>>
    BY <1>6, <1>11, <2>3, <2>4 DEF MergedIsRun
  <2>5. CASE segments # <<>>
    <3>1. Head(segments) <= first
      BY <1>1, <2>1, <2>5, FirstOfList DEF FromTheWindow, TypeOK
    <3>. QED  BY <1>6, <1>11, <2>2, <2>3, <2>5, <3>1 DEF MergedIsRun
  <2>. QED  BY <2>4, <2>5
<1>20. NothingMissed' /\ EosIsTheEnd'
  BY <1>1, <1>2, <1>3 DEF NothingMissed, EosIsTheEnd, readVars
<1>. QED  BY <1>8, <1>9, <1>10, <1>12, <1>13, <1>16, <1>18, <1>19, <1>20 DEF IInv, TypeOK

-----------------------------------------------------------------------------
(* The read thread.  It leaves the playlist and the list alone.            *)

LEMMA ReadKept ==
  ASSUME IInv, UNCHANGED <<serverVars, listVars, answer, mNeedUpdate, mNeedReloadWithoutSkip>>,
         UNCHANGED load \/ \E step \in {"open", "idle"} : load' = [load EXCEPT !["reader"] = step],
         ReadTypeOK', Filled' => Filled \/ segments # <<>>,
         mCurSegNum' <= getFirstSeqNum + MaxSeq, target'.num <= getFirstSeqNum + MaxSeq,
         NothingMissed', EosIsTheEnd'
  PROVE  IInv'
<1>1. LoadTypeOK
  BY DEF IInv, TypeOK
<1>2. LoadTypeOK' /\ \A l \in Loaders : load'[l] = "merge" => load[l] = "merge" /\ answer'[l] = answer[l]
  BY <1>1 DEF LoadTypeOK, LoadSteps
<1>. QED  BY <1>2, ListKept

LEMMA ReaderFacts ==
  ASSUME IInv
  PROVE  /\ ServerTypeOK /\ ListTypeOK /\ ReadTypeOK
         /\ MaxSeq \in Nat /\ MaxSeq >= 1 /\ MaxOpens \in Nat
         /\ getFirstSeqNum \in Nat /\ getFirstSeqNum <= mLastSeqNum
         /\ mLastSeqNum \in Nat /\ mLastSeqNum <= last /\ last <= MaxSeq /\ last \in Nat
         /\ mCurSegNum \in Nat /\ mCurSegNum <= getFirstSeqNum + MaxSeq
         /\ target.num \in Nat /\ target.num <= getFirstSeqNum + MaxSeq
         /\ target.position \in Int
         /\ -MaxSeq - 1 <= target.position /\ target.position <= MaxSeq
<1>1. ServerTypeOK /\ ListTypeOK /\ ReadTypeOK /\ InReach
  BY DEF IInv, TypeOK
<1>2. last \in Nat
  BY <1>1 DEF ServerTypeOK, Numbers
<1>3. MaxSeq \in Nat /\ MaxSeq >= 1 /\ MaxOpens \in Nat
  BY BoundsAssumption
<1>4. target.position \in -MaxSeq - 1 .. MaxSeq /\ target.num \in 0 .. 2 * MaxSeq
      /\ mCurSegNum \in 0 .. 2 * MaxSeq
  BY <1>1 DEF ReadTypeOK
<1>. QED  BY <1>1, <1>2, <1>3, <1>4, FirstOfList DEF InReach

(* A number that the reader may go to.                                     *)
LEMMA Reachable ==
  ASSUME IInv, NEW n \in Nat, n <= getFirstSeqNum + MaxSeq
  PROVE  n \in 0 .. 2 * MaxSeq
BY ReaderFacts

LEMMA ReaderOpens == IInv /\ (Open \/ InitFailed \/ InitDone \/ OpenNone \/ OpenSegment) => IInv'
<1> SUFFICES ASSUME IInv, Open \/ InitFailed \/ InitDone \/ OpenNone \/ OpenSegment
             PROVE  IInv'
  OBVIOUS
<1>1. Answers /\ Loaded /\ Finished /\ NothingMissed /\ EosIsTheEnd /\ LoadTypeOK
  BY DEF IInv, TypeOK
<1>2. ReadTypeOK
  BY ReaderFacts
<1>3. CASE Open
  <2>1. /\ target' = [num |-> mCurSegNum, position |-> mCurSegNum - getFirstSeqNum - 1]
        /\ rpc = "stopped" /\ rpc' \in {"init", "place"} /\ (rpc' = "place" => mInited)
        /\ UNCHANGED load \/ load' = [load EXCEPT !["reader"] = "open"]
        /\ UNCHANGED <<serverVars, listVars, answer, mNeedUpdate, mNeedReloadWithoutSkip,
                   mCurSegNum, mSeeked, mInited, mIsDataEOS, missed, opens>>
    BY <1>3 DEF Open
  <2>2. target'.num = mCurSegNum /\ target'.position = mCurSegNum - getFirstSeqNum - 1
    BY <2>1
  <2>3. target'.position \in -MaxSeq - 1 .. MaxSeq /\ target'.num \in 0 .. 2 * MaxSeq
    BY <1>2, <2>2, ReaderFacts DEF ReadTypeOK
  <2>4. ReadTypeOK'
    BY <1>2, <2>1, <2>3 DEF ReadTypeOK, ReadSteps
  <2>5. Filled' => Filled
    BY <1>1, <2>1 DEF Filled, LoadTypeOK, listVars
  <2>6. NothingMissed' /\ EosIsTheEnd'
    BY <1>1, <2>1 DEF NothingMissed, EosIsTheEnd, listVars
  <2>7. mCurSegNum' <= getFirstSeqNum + MaxSeq /\ target'.num <= getFirstSeqNum + MaxSeq
    BY <2>1, <2>2, ReaderFacts
  <2>. QED  BY <2>1, <2>4, <2>5, <2>6, <2>7, ReadKept
<1>4. ASSUME UNCHANGED <<target, missed>>, mCurSegNum' \in Nat, mCurSegNum' <= getFirstSeqNum + MaxSeq,
             rpc' \in ReadSteps, UNCHANGED <<mSeeked, mIsDataEOS, opens>>, mInited' \in BOOLEAN,
             UNCHANGED <<serverVars, listVars, answer, mNeedUpdate, mNeedReloadWithoutSkip>>,
             UNCHANGED load \/ load' = [load EXCEPT !["reader"] = "idle"],
             Filled' => Filled, EosIsTheEnd'
      PROVE  IInv'
  <2>1. mCurSegNum' \in 0 .. 2 * MaxSeq
    BY <1>4, Reachable
  <2>2. ReadTypeOK'
    BY <1>2, <1>4, <2>1 DEF ReadTypeOK
  <2>3. NothingMissed'
    BY <1>1, <1>4 DEF NothingMissed, listVars
  <2>4. target'.num <= getFirstSeqNum + MaxSeq
    BY <1>4, ReaderFacts
  <2>. QED  BY <1>4, <2>2, <2>3, <2>4, ReadKept
<1>5. CASE InitFailed
  <2>1. /\ load' = [load EXCEPT !["reader"] = "idle"] /\ rpc' = "stopped"
        /\ UNCHANGED <<serverVars, listVars, answer, mNeedUpdate, mNeedReloadWithoutSkip,
                   target, mCurSegNum, mSeeked, mInited, mIsDataEOS, missed, opens>>
    BY <1>5 DEF InitFailed
  <2>2. Filled' => Filled
    BY <1>1, <2>1 DEF Filled, LoadTypeOK, listVars
  <2>. QED  BY <1>2, <1>4, <2>1, <2>2, ReaderFacts DEF EosIsTheEnd, ReadSteps, ReadTypeOK
<1>6. CASE InitDone
  <2>1. /\ load' = [load EXCEPT !["reader"] = "idle"] /\ rpc' = "place" /\ mInited' = TRUE
        /\ load["reader"] = "loaded"
        /\ mCurSegNum' \in {getFirstSeqNum, mCurSegNum}
        /\ UNCHANGED <<serverVars, listVars, answer, mNeedUpdate, mNeedReloadWithoutSkip,
                   target, mSeeked, mIsDataEOS, missed, opens>>
    BY <1>6 DEF InitDone
  <2>2. Filled
    BY <2>1 DEF Filled, Loaders
  <2>3. mCurSegNum' \in Nat /\ mCurSegNum' <= getFirstSeqNum + MaxSeq
    BY <2>1, ReaderFacts
  <2>. QED  BY <1>4, <2>1, <2>2, <2>3 DEF EosIsTheEnd, ReadSteps
<1>7. CASE OpenNone
  <2>1. /\ rpc = "open" /\ getSegmentByNumber(mCurSegNum) = 0
        /\ rpc' \in {"stopped", "eos"} /\ (rpc' = "eos" => ~ b_live)
        /\ UNCHANGED <<serverVars, listVars, loadVars, target, mCurSegNum, mSeeked, mInited,
                   mIsDataEOS, missed, opens>>
    BY <1>7 DEF OpenNone
  <2>2. Filled
    BY <2>1 DEF Filled
  <2>3. segments # <<>>
    BY <1>1, <2>2 DEF Loaded
  <2>4. mLastSeqNum < mCurSegNum
    BY <2>1, <2>3, SegmentFound, ReaderFacts
  <2>5. rpc' = "eos" => ended /\ mCurSegNum >= last
    BY <1>1, <2>1, <2>3, <2>4, ReaderFacts DEF Finished, Complete
  <2>6. EosIsTheEnd'
    BY <2>1, <2>5 DEF EosIsTheEnd, serverVars
  <2>. QED  BY <1>2, <1>4, <2>1, <2>2, <2>6, ReaderFacts DEF ReadSteps, ReadTypeOK, loadVars
<1>8. CASE OpenSegment
  <2>1. /\ rpc = "open" /\ getSegmentByNumber(mCurSegNum) # 0
        /\ mCurSegNum' = getSegmentByNumber(mCurSegNum) /\ rpc' = "reading"
        /\ UNCHANGED <<serverVars, listVars, loadVars, target, mSeeked, mInited, mIsDataEOS,
                   missed, opens>>
    BY <1>8 DEF OpenSegment
  <2>2. Filled
    BY <2>1 DEF Filled
  <2>3. mCurSegNum' \in Nat /\ mCurSegNum' <= getFirstSeqNum + MaxSeq
    BY <2>1, SegmentFound, ReaderFacts
  <2>. QED  BY <1>2, <1>4, <2>1, <2>2, <2>3 DEF EosIsTheEnd, ReadSteps, ReadTypeOK, loadVars
<1>. QED  BY <1>3, <1>5, <1>6, <1>7, <1>8

(* Where a stream that is opened again goes on is within reach.            *)
LEMMA ReaderPlaced == IInv /\ Place => IInv'
<1> SUFFICES ASSUME IInv, Place
             PROVE  IInv'
  OBVIOUS
<1>1. Loaded /\ NothingMissed /\ EosIsTheEnd /\ ReadTypeOK
  BY ReaderFacts DEF IInv
<1>2. /\ rpc = "place" /\ rpc' = "open" /\ target' = NoTarget
      /\ UNCHANGED <<serverVars, listVars, loadVars, mInited, mIsDataEOS, missed, opens>>
      /\ mSeeked' \in BOOLEAN
  BY <1>1 DEF Place, ReadTypeOK
<1>3. Filled
  BY <1>2 DEF Filled
<1>4. segments # <<>>
  BY <1>1, <1>3 DEF Loaded
<1>5. \/ UNCHANGED mCurSegNum
      \/ mCurSegNum' = IF Again < getFirstSeqNum THEN getFirstSeqNum ELSE Again
      \/ \E i \in DOMAIN segments : mCurSegNum' = segments[i]
  BY DEF Place
<1>6. mCurSegNum' \in Nat /\ mCurSegNum' <= getFirstSeqNum + MaxSeq
  <2>1. CASE UNCHANGED mCurSegNum
    BY <2>1, ReaderFacts
  <2>2. CASE mCurSegNum' = IF Again < getFirstSeqNum THEN getFirstSeqNum ELSE Again
    <3>1. Again = target.num \/ Again = getFirstSeqNum + target.position
      BY DEF Again
    <3>2. Again \in Int /\ Again <= getFirstSeqNum + MaxSeq
      BY <3>1, ReaderFacts
    <3>. QED  BY <2>2, <3>2, ReaderFacts
  <2>3. CASE \E i \in DOMAIN segments : mCurSegNum' = segments[i]
    <3>1. mCurSegNum' \in Nat /\ mCurSegNum' <= mLastSeqNum
      BY <2>3, FirstOfList, ReaderFacts
    <3>. QED  BY <3>1, ReaderFacts
  <2>. QED  BY <1>5, <2>1, <2>2, <2>3
<1>7. mCurSegNum' \in 0 .. 2 * MaxSeq
  BY <1>6, Reachable
<1>8. target'.num = 0 /\ target'.position = 0
  BY <1>2 DEF NoTarget
<1>9. target'.num \in 0 .. 2 * MaxSeq /\ target'.position \in -MaxSeq - 1 .. MaxSeq
      /\ target'.num <= getFirstSeqNum + MaxSeq
  BY <1>8, ReaderFacts
<1>10. ReadTypeOK'
  BY <1>1, <1>2, <1>7, <1>9 DEF ReadTypeOK, ReadSteps
<1>. QED  BY <1>1, <1>2, <1>4, <1>6, <1>9, <1>10, ReadKept
          DEF NothingMissed, EosIsTheEnd, listVars, loadVars

(* The next segment is the next number, unless the list begins behind it:  *)
(* then the server has dropped what is between, or a merge was partial.    *)
LEMMA ReaderReads == IInv /\ (NextSegment \/ EndOfStream) => IInv'
<1> SUFFICES ASSUME IInv, NextSegment \/ EndOfStream
             PROVE  IInv'
  OBVIOUS
<1>1. Loaded /\ Finished /\ FromTheWindow /\ NothingMissed /\ EosIsTheEnd /\ ReadTypeOK
  BY ReaderFacts DEF IInv
<1>2. rpc = "reading" /\ UNCHANGED <<serverVars, listVars, loadVars, target, mSeeked, mInited, opens>>
  BY DEF NextSegment, EndOfStream
<1>3. Filled
  BY <1>2 DEF Filled
<1>4. segments # <<>>
  BY <1>1, <1>3 DEF Loaded
<1> DEFINE next == getSegmentByNumber(mCurSegNum + 1)
<1>5. /\ next = 0 => mLastSeqNum < mCurSegNum + 1
      /\ next # 0 => /\ next \in {mCurSegNum + 1, getFirstSeqNum} /\ next <= mLastSeqNum
                     /\ next \in Nat
  <2>1. mCurSegNum + 1 \in Nat
    BY ReaderFacts
  <2>. QED  BY <1>4, <2>1, SegmentFound, ReaderFacts
<1>6. CASE NextSegment
  <2>1. /\ next # 0 /\ mCurSegNum' = next /\ UNCHANGED <<rpc, mIsDataEOS>>
        /\ missed' = missed \cup {n \in mCurSegNum + 1 .. next - 1 : n >= first}
    BY <1>6 DEF NextSegment
  <2> HIDE DEF next
  <2>2. next \in Nat /\ next <= getFirstSeqNum + MaxSeq
    BY <1>5, <2>1, ReaderFacts
  <2>3. next \in 0 .. 2 * MaxSeq
    BY <2>2, Reachable
  <2>4. {n \in mCurSegNum + 1 .. next - 1 : n >= first} \subseteq Nat
    BY ReaderFacts
  <2>5. ReadTypeOK'
    BY <1>1, <1>2, <2>1, <2>3, <2>4 DEF ReadTypeOK
  <2>6. NothingMissed'
    <3> SUFFICES ASSUME ~ partial
                 PROVE  missed' = {}
      BY <1>2 DEF NothingMissed, listVars
    <3>1. getFirstSeqNum <= first /\ missed = {} /\ first \in Nat
      BY <1>1, <1>4, ReaderFacts DEF FromTheWindow, NothingMissed, ServerTypeOK
    <3>2. \A n \in mCurSegNum + 1 .. next - 1 : ~ (n >= first)
      BY <1>5, <2>1, <2>2, <3>1, ReaderFacts
    <3>. QED  BY <2>1, <3>1, <3>2
  <2>7. EosIsTheEnd'
    BY <1>2, <2>1 DEF EosIsTheEnd
  <2>. QED  BY <1>2, <1>4, <2>1, <2>2, <2>5, <2>6, <2>7, ReadKept, ReaderFacts DEF loadVars
<1>7. CASE EndOfStream
  <2>1. /\ next = 0 /\ mDuration > 0 /\ mIsDataEOS' = TRUE /\ rpc' = "eos"
        /\ UNCHANGED <<mCurSegNum, missed>>
    BY <1>7 DEF EndOfStream
  <2> HIDE DEF next
  <2>2. mDuration = 1
    BY <2>1, ReaderFacts DEF ListTypeOK
  <2>3. ended /\ mCurSegNum >= last
    BY <1>1, <1>5, <2>1, <2>2, ReaderFacts DEF Finished, Complete
  <2>4. EosIsTheEnd' /\ NothingMissed'
    BY <1>1, <1>2, <2>1, <2>3 DEF EosIsTheEnd, NothingMissed, serverVars, listVars
  <2>5. ReadTypeOK'
    BY <1>1, <1>2, <2>1 DEF ReadTypeOK, ReadSteps
  <2>. QED  BY <1>2, <1>4, <2>1, <2>4, <2>5, ReadKept, ReaderFacts DEF loadVars
<1>. QED  BY <1>6, <1>7

LEMMA ReaderMoved ==
  ASSUME IInv, NEW num \in Numbers, Seek \/ StopStart \/ SwitchTo(num)
  PROVE  IInv'
<1>1. Loaded /\ NothingMissed /\ ReadTypeOK
  BY ReaderFacts DEF IInv
<1>2. /\ UNCHANGED <<serverVars, listVars, loadVars, target, mInited, missed>>
      /\ opens < MaxOpens /\ opens' = opens + 1
      /\ rpc \in {"reading", "eos"} \/ rpc' = rpc
      /\ rpc' \in {"reading", "stopped"}
      /\ mSeeked' \in BOOLEAN /\ mIsDataEOS' \in BOOLEAN
  BY <1>1 DEF Seek, StopStart, SwitchTo, ReadTypeOK
<1>3. Filled' => Filled \/ segments # <<>>
  BY <1>1, <1>2 DEF Filled, listVars, loadVars
<1>4. mCurSegNum' \in Nat /\ mCurSegNum' <= getFirstSeqNum + MaxSeq
  <2>1. CASE Seek
    <3>1. mCurSegNum' = mLastSeqNum \/ \E i \in DOMAIN segments : mCurSegNum' = segments[i] - 1
      BY <2>1 DEF Seek
    <3>2. mCurSegNum' \in Nat /\ mCurSegNum' <= mLastSeqNum
      BY <3>1, FirstOfList, ReaderFacts
    <3>. QED  BY <3>2, ReaderFacts
  <2>2. CASE StopStart
    BY <2>2, ReaderFacts DEF StopStart
  <2>3. CASE SwitchTo(num)
    BY <2>3, ReaderFacts DEF SwitchTo, Numbers
  <2>. QED  BY <2>1, <2>2, <2>3
<1>5. mCurSegNum' \in 0 .. 2 * MaxSeq
  BY <1>4, Reachable
<1>6. opens' \in 0 .. MaxOpens
  BY <1>1, <1>2, ReaderFacts DEF ReadTypeOK
<1>7. ReadTypeOK'
  BY <1>1, <1>2, <1>5, <1>6 DEF ReadTypeOK, ReadSteps
<1>8. NothingMissed' /\ EosIsTheEnd'
  BY <1>1, <1>2 DEF NothingMissed, EosIsTheEnd, listVars
<1>9. target'.num <= getFirstSeqNum + MaxSeq
  BY <1>2, ReaderFacts
<1>. QED  BY <1>2, <1>3, <1>4, <1>7, <1>8, <1>9, ReadKept DEF loadVars

LEMMA NextIInv == IInv /\ [Next]_vars => IInv'
<1> SUFFICES ASSUME IInv, [Next]_vars
             PROVE  IInv'
  OBVIOUS
<1>1. CASE Server
  BY <1>1, ServerKeeps
<1>2. ASSUME NEW l \in Loaders, Load(l) \/ TrackerLoads \/ TrackerLoaded \/ ReLoadPlayList
      PROVE  IInv'
  BY <1>2, AnswerKeeps, LoadKeeps, MergeKeeps DEF Load
<1>3. CASE TrackerLoads \/ TrackerLoaded \/ ReLoadPlayList
  <2>1. "reader" \in Loaders
    BY DEF Loaders
  <2>. QED  BY <1>2, <1>3, <2>1
<1>4. CASE Open \/ InitFailed \/ InitDone \/ Place \/ OpenNone \/ OpenSegment
           \/ NextSegment \/ EndOfStream
  BY <1>4, ReaderOpens, ReaderPlaced, ReaderReads
<1>5. ASSUME NEW num \in Numbers, Seek \/ StopStart \/ SwitchTo(num)
      PROVE  IInv'
  BY <1>5, ReaderMoved
<1>6. CASE Seek \/ StopStart
  <2>1. 1 \in Numbers
    BY BoundsAssumption DEF Numbers
  <2>. QED  BY <1>5, <1>6, <2>1
<1>7. CASE UNCHANGED vars
  <2>1. UNCHANGED <<serverVars, listVars, loadVars, readVars>>
    BY <1>7 DEF vars
  <2>. QED  BY <2>1 DEF IInv, TypeOK, ServerTypeOK, ListTypeOK, LoadTypeOK, ReadTypeOK, Answers,
                     AnswerHolds, Loaded, Filled, Finished, Complete, InReach, getFirstSeqNum,
                     FromTheWindow, NothingMissed, EosIsTheEnd, serverVars, listVars, loadVars,
                     readVars
<1>. QED  BY <1>1, <1>2, <1>3, <1>4, <1>5, <1>6, <1>7 DEF Next

(* What the rest follows from: whatever the server does between the        *)
(* request of a load and its merge, and in whatever order the loads of the *)
(* two threads are merged, what an answer said of the window holds well    *)
(* enough for the list to stay a run that begins in the window or before.  *)
THEOREM Invariance == Spec => []IInv
<1>. QED  BY InitIInv, NextIInv, PTL DEF Spec

(* The list of segments is a run of consecutive numbers up to mLastSeqNum  *)
(* which the server has reached: merge() leaves no gap and no segment      *)
(* twice, though two threads merge what they loaded at different times.    *)
THEOREM TypeCorrect == Spec => []TypeOK
<1>1. IInv => TypeOK
  BY DEF IInv
<1>. QED  BY <1>1, Invariance, PTL

(* A reader that goes from segment to segment jumps over none that the     *)
(* server still has, unless a delta update or an answer older than the     *)
(* list was merged.                                                        *)
THEOREM ReadsAll == Spec => []NothingMissed
<1>1. IInv => NothingMissed
  BY DEF IInv
<1>. QED  BY <1>1, Invariance, PTL

(* HLSStream reports the end only of a stream that has ended, with its     *)
(* last segment read: a list that has run out is the end only when it is   *)
(* complete, for a live stream that has become one on demand too.          *)
THEOREM EndIsReal == Spec => []EosIsTheEnd
<1>1. IInv => EosIsTheEnd
  BY DEF IInv
<1>. QED  BY <1>1, Invariance, PTL
=============================================================================
