---------------------- MODULE BufferControllerTheorems ----------------------
(***************************************************************************)
(* What holds of the packet queues for any streams, any sequence of calls, *)
(* seeks, switches and limits, as long as the limit is not taken back to 0 *)
(* (what happens then is shown by KeptOnlyWithinLimit).                    *)
(***************************************************************************)
EXTENDS BufferController, WellFoundedInduction, TLAPS

-----------------------------------------------------------------------------
(* Induction on numbers, for a set of them                                 *)

LEMMA LeastNumber ==
  ASSUME NEW T \in SUBSET Nat, T # {}
  PROVE  \E n \in T : \A m \in T : n <= m
<1> DEFINE R == {ss \in Nat \X Nat : ss[1] < ss[2]}
<1>1. IsWellFoundedOn(R, Nat)
  BY NatLessThanWellFounded DEF OpToRel
<1> HIDE DEF R
<1>2. \E x \in T : \A y \in T : ~ (<<y, x>> \in R)
  BY <1>1, WFMin
<1>3. \A x, y \in Nat : ~ (<<y, x>> \in R) => x <= y
  BY DEF R
<1>. QED  BY <1>2, <1>3

LEMMA MinOf ==
  ASSUME NEW T \in SUBSET Nat, T # {}
  PROVE  Min(T) \in T /\ \A m \in T : Min(T) <= m
<1>1. \E n \in T : \A m \in T : n <= m
  BY LeastNumber
<1>. QED  BY <1>1 DEF Min

LEMMA MaxOf ==
  ASSUME NEW N \in Nat, NEW T \in SUBSET (0 .. N), T # {}
  PROVE  Max(T) \in T /\ \A m \in T : m <= Max(T)
<1> DEFINE U == {n \in Nat : N - n \in T}
<1>1. U \in SUBSET Nat /\ U # {}
  <2>1. PICK m \in T : TRUE
    OBVIOUS
  <2>2. N - m \in Nat /\ N - (N - m) = m
    BY <2>1
  <2>3. N - m \in U
    BY <2>1, <2>2
  <2>. QED  BY <2>3
<1>2. PICK n \in U : \A m \in U : n <= m
  <2> HIDE DEF U
  <2>. QED  BY <1>1, LeastNumber
<1>3. N - n \in T
  BY <1>2
<1>4. ASSUME NEW m \in T
      PROVE  m <= N - n
  <2>1. N - m \in U
    <3>1. N - m \in Nat /\ N - (N - m) = m
      OBVIOUS
    <3>. QED  BY <3>1
  <2>2. n <= N - m
    BY <1>2, <2>1
  <2>. QED  BY <1>2, <2>2
<1>5. \E x \in T : \A m \in T : m <= x
  BY <1>3, <1>4
<1>6. \E x \in T : \A m \in T : x >= m
  <2>1. PICK x \in T : \A m \in T : m <= x
    BY <1>5
  <2>2. \A m \in T : x >= m
    BY <2>1
  <2>. QED  BY <2>2
<1>7. Max(T) \in T /\ \A m \in T : Max(T) >= m
  BY <1>6 DEF Max
<1>. QED  BY <1>7

LEMMA UpTo ==
  ASSUME NEW N \in Nat, NEW T, 0 \in T, \A n \in 1 .. N : n - 1 \in T => n \in T
  PROVE  \A n \in 0 .. N : n \in T
<1> DEFINE Bad == (0 .. N) \ T
<1> SUFFICES ASSUME Bad # {}
             PROVE  FALSE
  OBVIOUS
<1>1. PICK n \in Bad : \A m \in Bad : n <= m
  <2>1. Bad \in SUBSET Nat
    OBVIOUS
  <2> HIDE DEF Bad
  <2>. QED  BY <2>1, LeastNumber
<1>2. n \in 1 .. N /\ n - 1 \in 0 .. N /\ ~ (n <= n - 1) /\ n \notin T
  OBVIOUS
<1>3. n - 1 \in T
  BY <1>1, <1>2
<1>. QED  BY <1>2, <1>3

(* f begins with a and goes on with a step of its own at each number up to *)
(* N.  There is one for any steps.                                         *)
Iterates(f, a, F, N, S) ==
    /\ f \in [0 .. N -> S]
    /\ f[0] = a
    /\ \A n \in 1 .. N : f[n] = F[n][f[n - 1]]

LEMMA StepsExist ==
  ASSUME NEW S, NEW a \in S, NEW N \in Nat, NEW F \in [1 .. N -> [S -> S]]
  PROVE  \E f : Iterates(f, a, F, N, S)
<1> DEFINE T == {k \in 0 .. N : \E f : Iterates(f, a, F, k, S)}
<1>1. 0 \in T
  <2>1. Iterates([n \in 0 .. 0 |-> a], a, F, 0, S)
    BY DEF Iterates
  <2>. QED  BY <2>1
<1>2. ASSUME NEW k \in 1 .. N, k - 1 \in T
      PROVE  k \in T
  <2>1. PICK f : Iterates(f, a, F, k - 1, S)
    BY <1>2
  <2> DEFINE g == [n \in 0 .. k |-> IF n = k THEN F[k][f[k - 1]] ELSE f[n]]
  <2>2. F[k] \in [S -> S] /\ f[k - 1] \in S /\ k - 1 \in Nat
    BY <2>1 DEF Iterates
  <2>3. g \in [0 .. k -> S]
    <3> SUFFICES ASSUME NEW n \in 0 .. k
                 PROVE  (IF n = k THEN F[k][f[k - 1]] ELSE f[n]) \in S
      OBVIOUS
    <3>1. n # k => n \in 0 .. k - 1
      OBVIOUS
    <3>. QED  BY <2>1, <2>2, <3>1 DEF Iterates
  <2>4. g[0] = a
    BY <2>1 DEF Iterates
  <2>5. ASSUME NEW n \in 1 .. k
        PROVE  g[n] = F[n][g[n - 1]]
    <3>1. g[n - 1] = f[n - 1]
      OBVIOUS
    <3>2. CASE n = k
      BY <3>1, <3>2
    <3>3. CASE n # k
      <4>1. n \in 1 .. k - 1 /\ g[n] = f[n]
        BY <3>3
      <4>2. f[n] = F[n][f[n - 1]]
        BY <2>1, <4>1 DEF Iterates
      <4>. QED  BY <3>1, <4>1, <4>2
    <3>. QED  BY <3>2, <3>3
  <2>6. Iterates(g, a, F, k, S)
    <3> HIDE DEF g
    <3>. QED  BY <2>3, <2>4, <2>5 DEF Iterates
  <2>. QED  BY <2>6
<1> HIDE DEF T
<1>3. N \in T
  <2>1. \A k \in 1 .. N : k - 1 \in T => k \in T
    BY <1>2
  <2>2. N \in 0 .. N
    OBVIOUS
  <2>. QED  BY <1>1, <2>1, <2>2, UpTo
<1>. QED  BY <1>3 DEF T

-----------------------------------------------------------------------------
(* The duration of a sequence of packets                                   *)

Sums(s) == CHOOSE f : f = [n \in 0 .. Len(s) |-> IF n = 0 THEN 0 ELSE f[n - 1] + Counted(s[n])]

LEMMA CountedType == ASSUME NEW p \in Packet  PROVE Counted(p) \in Nat
BY DEF Counted, Packet

LEMMA SumsOf ==
  ASSUME NEW s \in Seq(Packet)
  PROVE  /\ Len(s) \in Nat
         /\ \A n \in 0 .. Len(s) : Sums(s)[n] \in Nat
         /\ Sums(s)[0] = 0
         /\ \A n \in 1 .. Len(s) : Sums(s)[n] = Sums(s)[n - 1] + Counted(s[n])
         /\ CountedIn(s) = Sums(s)[Len(s)]
<1> DEFINE F == [n \in 1 .. Len(s) |-> [x \in Nat |-> x + Counted(s[n])]]
           Equation(f) == f = [n \in 0 .. Len(s) |-> IF n = 0 THEN 0 ELSE f[n - 1] + Counted(s[n])]
<1>1. Len(s) \in Nat /\ \A n \in 1 .. Len(s) : Counted(s[n]) \in Nat
  BY CountedType
<1>2. F \in [1 .. Len(s) -> [Nat -> Nat]]
  BY <1>1
<1>3. PICK f : Iterates(f, 0, F, Len(s), Nat)
  <2> HIDE DEF F
  <2>. QED  BY <1>1, <1>2, StepsExist
<1>4. Equation(f)
  <2>1. f \in [0 .. Len(s) -> Nat] /\ f[0] = 0 /\ \A m \in 1 .. Len(s) : f[m] = F[m][f[m - 1]]
    BY <1>3 DEF Iterates
  <2> SUFFICES ASSUME NEW n \in 0 .. Len(s)
               PROVE  f[n] = IF n = 0 THEN 0 ELSE f[n - 1] + Counted(s[n])
    BY <2>1
  <2>2. n # 0 => n \in 1 .. Len(s) /\ n - 1 \in 0 .. Len(s)
    BY <1>1
  <2>. QED  BY <2>1, <2>2
<1>5. Equation(Sums(s))
  <2> HIDE DEF F
  <2>. QED  BY <1>4 DEF Sums
<1>6. CountedIn(s) = Sums(s)[Len(s)]
  BY DEF CountedIn, Sums
<1> DEFINE g == Sums(s)
<1> HIDE DEF g, F
<1>7. g = [n \in 0 .. Len(s) |-> IF n = 0 THEN 0 ELSE g[n - 1] + Counted(s[n])]
  BY <1>5 DEF g
<1>8. g[0] = 0 /\ \A n \in 1 .. Len(s) : g[n] = g[n - 1] + Counted(s[n])
  <2>1. 0 \in 0 .. Len(s) /\ \A n \in 1 .. Len(s) : n \in 0 .. Len(s) /\ n # 0
    BY <1>1
  <2>. QED  BY <1>7, <2>1
<1>9. \A n \in 0 .. Len(s) : g[n] \in Nat
  <2> DEFINE T == {n \in 0 .. Len(s) : g[n] \in Nat}
  <2>1. 0 \in T
    BY <1>1, <1>8
  <2>2. \A n \in 1 .. Len(s) : n - 1 \in T => n \in T
    BY <1>1, <1>8
  <2> HIDE DEF T
  <2>3. \A n \in 0 .. Len(s) : n \in T
    BY <1>1, <2>1, <2>2, UpTo
  <2>. QED  BY <2>3 DEF T
<1>. QED  BY <1>1, <1>6, <1>8, <1>9 DEF g

(* Two stretches of k packets, after the first a and b, that count as much. *)
CountAlike(s, a, r, b, k) ==
    /\ a + k <= Len(s) /\ b + k <= Len(r)
    /\ \A i \in 1 .. k : Counted(s[a + i]) = Counted(r[b + i])

SumsAgree(s, a, r, b, k) ==
    \A n \in 0 .. k : Sums(s)[a + n] - Sums(s)[a] = Sums(r)[b + n] - Sums(r)[b]

LEMMA SumsAlike ==
  ASSUME NEW s \in Seq(Packet), NEW r \in Seq(Packet), NEW a \in Nat, NEW b \in Nat, NEW k \in Nat,
         CountAlike(s, a, r, b, k)
  PROVE  SumsAgree(s, a, r, b, k)
<1> DEFINE T == {n \in 0 .. k : Sums(s)[a + n] - Sums(s)[a] = Sums(r)[b + n] - Sums(r)[b]}
<1> USE DEF CountAlike
<1>1. /\ Len(s) \in Nat /\ \A n \in 0 .. Len(s) : Sums(s)[n] \in Nat
      /\ Len(r) \in Nat /\ \A n \in 0 .. Len(r) : Sums(r)[n] \in Nat
  BY SumsOf
<1>2. Sums(s)[a] \in Nat /\ Sums(r)[b] \in Nat
  BY <1>1
<1>3. 0 \in T
  <2>1. a + 0 = a /\ b + 0 = b /\ 0 \in 0 .. k
    OBVIOUS
  <2>. QED  BY <1>2, <2>1
<1>4. ASSUME NEW n \in 1 .. k, n - 1 \in T
      PROVE  n \in T
  <2>1. /\ a + n \in 1 .. Len(s) /\ b + n \in 1 .. Len(r)
        /\ a + n - 1 = a + (n - 1) /\ b + n - 1 = b + (n - 1)
        /\ a + (n - 1) \in 0 .. Len(s) /\ b + (n - 1) \in 0 .. Len(r)
    BY <1>1
  <2>2. /\ Sums(s)[a + n] = Sums(s)[a + (n - 1)] + Counted(s[a + n])
        /\ Sums(r)[b + n] = Sums(r)[b + (n - 1)] + Counted(r[b + n])
        /\ Counted(s[a + n]) = Counted(r[b + n])
    <3>1. Sums(s)[a + n] = Sums(s)[a + n - 1] + Counted(s[a + n])
      BY <2>1, SumsOf
    <3>2. Sums(r)[b + n] = Sums(r)[b + n - 1] + Counted(r[b + n])
      BY <2>1, SumsOf
    <3>3. Counted(s[a + n]) = Counted(r[b + n])
      OBVIOUS
    <3>. QED  BY <2>1, <3>1, <3>2, <3>3, Zenon
  <2> DEFINE x == Sums(s)[a + (n - 1)]
             y == Sums(r)[b + (n - 1)]
             c == Counted(s[a + n])
             u == Sums(s)[a]
             v == Sums(r)[b]
  <2>3. x \in Nat /\ y \in Nat /\ c \in Nat /\ u \in Nat /\ v \in Nat
    <3>1. s[a + n] \in Packet
      <4>1. a + n \in 1 .. Len(s)
        BY <2>1
      <4> HIDE DEF x, y, c, u, v, T
      <4>. QED  BY <4>1
    <3>2. c \in Nat
      BY <3>1, CountedType
    <3>3. \A i \in 0 .. Len(s) : Sums(s)[i] \in Nat
      BY SumsOf
    <3>4. \A i \in 0 .. Len(r) : Sums(r)[i] \in Nat
      BY SumsOf
    <3>5. a \in 0 .. Len(s) /\ b \in 0 .. Len(r)
      BY <1>1
    <3>. QED  BY <2>1, <3>2, <3>3, <3>4, <3>5, Zenon
  <2>4. x - u = y - v
    BY <1>4
  <2>5. Sums(s)[a + n] = x + c /\ Sums(r)[b + n] = y + c
    BY <2>2
  <2> HIDE DEF x, y, c
  <2>6. Sums(s)[a + n] - u = Sums(r)[b + n] - v
    <3> HIDE DEF u, v
    <3>. QED  BY <2>3, <2>4, <2>5
  <2>. QED  BY <2>6
<1> HIDE DEF T
<1>5. \A n \in 0 .. k : n \in T
  <2>1. \A n \in 1 .. k : n - 1 \in T => n \in T
    BY <1>4
  <2>. QED  BY <1>3, <2>1, UpTo
<1>. QED  BY <1>5 DEF T, SumsAgree

LEMMA SumsGrow ==
  ASSUME NEW s \in Seq(Packet), NEW m \in 0 .. Len(s), NEW n \in 0 .. Len(s), m <= n
  PROVE  Sums(s)[m] <= Sums(s)[n]
<1> DEFINE T == {k \in 0 .. n : k >= m => Sums(s)[m] <= Sums(s)[k]}
<1>1. Len(s) \in Nat /\ \A k \in 0 .. Len(s) : Sums(s)[k] \in Nat
  BY SumsOf
<1>2. 0 \in T
  BY <1>1
<1>3. ASSUME NEW k \in 1 .. n, k - 1 \in T
      PROVE  k \in T
  <2>1. k \in 1 .. Len(s) /\ k - 1 \in 0 .. Len(s)
    BY <1>1
  <2>2. Sums(s)[k] = Sums(s)[k - 1] + Counted(s[k]) /\ Counted(s[k]) \in Nat
    BY <2>1, SumsOf, CountedType
  <2>3. CASE k = m
    BY <1>1, <2>3
  <2>4. CASE k # m
    <3> DEFINE x == Sums(s)[k - 1]
               c == Counted(s[k])
    <3>1. x \in Nat /\ c \in Nat /\ Sums(s)[k] = x + c /\ Sums(s)[m] \in Nat
      BY <1>1, <2>1, <2>2
    <3>2. k >= m => Sums(s)[m] <= x
      BY <1>3, <2>4
    <3> HIDE DEF x, c
    <3>. QED  BY <3>1, <3>2
  <2>. QED  BY <2>3, <2>4
<1> HIDE DEF T
<1>4. n \in T
  <2>1. \A k \in 1 .. n : k - 1 \in T => k \in T
    BY <1>3
  <2>2. n \in Nat /\ n \in 0 .. n
    BY <1>1
  <2>. QED  BY <1>2, <2>1, <2>2, UpTo
<1>. QED  BY <1>4 DEF T

(* The first n packets count as much in both.                              *)
LEMMA SumsOfPrefix ==
  ASSUME NEW s \in Seq(Packet), NEW r \in Seq(Packet), NEW n \in Nat, n <= Len(s), n <= Len(r),
         \A i \in 1 .. n : Counted(s[i]) = Counted(r[i])
  PROVE  \A k \in 0 .. n : Sums(r)[k] = Sums(s)[k]
<1>1. /\ Len(s) \in Nat /\ \A k \in 0 .. Len(s) : Sums(s)[k] \in Nat
      /\ Len(r) \in Nat /\ \A k \in 0 .. Len(r) : Sums(r)[k] \in Nat
      /\ Sums(s)[0] = 0 /\ Sums(r)[0] = 0
  BY SumsOf
<1>2. CountAlike(s, 0, r, 0, n)
  BY <1>1 DEF CountAlike
<1>3. SumsAgree(s, 0, r, 0, n)
  BY <1>2, SumsAlike
<1> SUFFICES ASSUME NEW k \in 0 .. n
             PROVE  Sums(r)[k] = Sums(s)[k]
  OBVIOUS
<1>4. Sums(s)[k] \in Nat /\ Sums(r)[k] \in Nat /\ 0 + k = k
  BY <1>1
<1>. QED  BY <1>1, <1>3, <1>4 DEF SumsAgree

(* The part of a sequence between two places.                              *)
IsPart(r, s, m, n) == r = SubSeq(s, m + 1, n)

LEMMA SumsOfPart ==
  ASSUME NEW s \in Seq(Packet), NEW m \in Nat, NEW n \in Nat, m <= n, n <= Len(s),
         NEW r, IsPart(r, s, m, n)
  PROVE  /\ r \in Seq(Packet) /\ Len(r) = n - m
         /\ \A i \in 1 .. n - m : r[i] = s[m + i]
         /\ \A k \in 0 .. n - m : Sums(r)[k] = Sums(s)[m + k] - Sums(s)[m]
         /\ CountedIn(r) = Sums(s)[n] - Sums(s)[m]
<1> DEFINE l == n - m
<1>1. r \in Seq(Packet) /\ Len(r) = l /\ \A i \in 1 .. l : r[i] = s[m + i]
  BY DEF IsPart
<1>2. /\ Sums(r)[0] = 0 /\ CountedIn(r) = Sums(r)[l]
      /\ \A k \in 0 .. l : Sums(r)[k] \in Nat
  BY <1>1, SumsOf
<1>3. l \in Nat /\ m + l = n /\ Len(s) \in Nat
  OBVIOUS
<1>4. CountAlike(s, m, r, 0, l)
  <2>1. \A i \in 1 .. l : Counted(s[m + i]) = Counted(r[0 + i])
    <3> SUFFICES ASSUME NEW i \in 1 .. l
                 PROVE  Counted(s[m + i]) = Counted(r[0 + i])
      OBVIOUS
    <3>1. 0 + i = i /\ r[i] = s[m + i]
      BY <1>1
    <3>. QED  BY <3>1
  <2>. QED  BY <1>1, <1>3, <2>1 DEF CountAlike
<1> HIDE DEF l
<1>5. SumsAgree(s, m, r, 0, l)
  BY <1>1, <1>3, <1>4, SumsAlike
<1>6. \A k \in 0 .. l : Sums(r)[k] = Sums(s)[m + k] - Sums(s)[m]
  <2> SUFFICES ASSUME NEW k \in 0 .. l
               PROVE  Sums(r)[k] = Sums(s)[m + k] - Sums(s)[m]
    OBVIOUS
  <2>1. m + k \in 0 .. Len(s) /\ m \in 0 .. Len(s) /\ 0 + k = k
    BY <1>3
  <2>2. Sums(s)[m + k] \in Nat /\ Sums(s)[m] \in Nat /\ Sums(r)[k] \in Nat
    BY <1>2, <2>1, SumsOf
  <2>3. Sums(s)[m + k] - Sums(s)[m] = Sums(r)[0 + k] - Sums(r)[0]
    BY <1>5 DEF SumsAgree
  <2>. QED  BY <1>2, <2>1, <2>2, <2>3
<1>7. CountedIn(r) = Sums(s)[n] - Sums(s)[m]
  BY <1>2, <1>3, <1>6
<1>. QED  BY <1>1, <1>6, <1>7 DEF l

LEMMA CountedPart ==
  ASSUME NEW s \in Seq(Packet), NEW m \in Nat, NEW n \in Nat, m <= n, n <= Len(s)
  PROVE  CountedIn(SubSeq(s, m + 1, n)) = Sums(s)[n] - Sums(s)[m]
<1> DEFINE r == SubSeq(s, m + 1, n)
<1>1. IsPart(r, s, m, n)
  BY Zenon DEF IsPart
<1> HIDE DEF r
<1>2. CountedIn(r) = Sums(s)[n] - Sums(s)[m]
  BY <1>1, SumsOfPart
<1>. QED  BY <1>2 DEF r

(* A packet added at the end.                                              *)
LEMMA SumsOfAppend ==
  ASSUME NEW s \in Seq(Packet), NEW p \in Packet, NEW r, r = Append(s, p)
  PROVE  /\ r \in Seq(Packet) /\ Len(r) = Len(s) + 1
         /\ \A k \in 0 .. Len(s) : Sums(r)[k] = Sums(s)[k]
         /\ Sums(r)[Len(s) + 1] = Sums(s)[Len(s)] + Counted(p)
<1>1. /\ r \in Seq(Packet) /\ Len(r) = Len(s) + 1 /\ Len(s) \in Nat
      /\ r[Len(s) + 1] = p /\ \A i \in 1 .. Len(s) : r[i] = s[i]
  OBVIOUS
<1>2. \A k \in 0 .. Len(s) : Sums(r)[k] = Sums(s)[k]
  <2>1. Len(s) <= Len(s) /\ Len(s) <= Len(r) /\ \A i \in 1 .. Len(s) : Counted(s[i]) = Counted(r[i])
    BY <1>1
  <2>. QED  BY <1>1, <2>1, SumsOfPrefix
<1>3. Sums(r)[Len(s) + 1] = Sums(r)[Len(s)] + Counted(p)
  <2> DEFINE n == Len(s) + 1
  <2>1. n \in 1 .. Len(r) /\ n - 1 = Len(s) /\ r[n] = p
    BY <1>1
  <2>2. \A i \in 1 .. Len(r) : Sums(r)[i] = Sums(r)[i - 1] + Counted(r[i])
    BY <1>1, SumsOf
  <2> HIDE DEF n
  <2>3. Sums(r)[n] = Sums(r)[Len(s)] + Counted(p)
    BY <2>1, <2>2
  <2>. QED  BY <2>3 DEF n
<1>4. Len(s) \in 0 .. Len(s)
  BY <1>1
<1>. QED  BY <1>1, <1>2, <1>3, <1>4

-----------------------------------------------------------------------------
(* One queue                                                               *)

(* A queue whose counters may be any number, with its cursor in place.     *)
QueueOf(S, D) ==
    [mQueue : S, mCurrent : Nat, mPacketDuration : Nat, mDuration : D, mTotalDuration : D,
     mMAXBackwardDuration : Nat, mDropedExtra : Nat]

Placed(q) ==
    /\ q \in QueueOf(Seq(Packet), Int)
    /\ q.mCurrent \in 1 .. Len(q.mQueue) + 1

(* The counters, as sums up to the end and up to the cursor.               *)
Total(q) == Sums(q.mQueue)[Len(q.mQueue)]
Behind(q) == Sums(q.mQueue)[q.mCurrent - 1]

Tallied(q) ==
    /\ Placed(q)
    /\ q.mDuration = Total(q) - Behind(q)
    /\ q.mTotalDuration = Total(q)

Sound(q) == Tallied(q) /\ (q.mMAXBackwardDuration = 0 => q.mCurrent = 1)

LEMMA PlacedTypes ==
  ASSUME NEW q, Placed(q)
  PROVE  /\ q.mQueue \in Seq(Packet) /\ Len(q.mQueue) \in Nat
         /\ q.mCurrent \in Nat /\ 1 <= q.mCurrent /\ q.mCurrent - 1 <= Len(q.mQueue)
         /\ q.mCurrent - 1 \in 0 .. Len(q.mQueue)
         /\ Total(q) \in Nat /\ Behind(q) \in Nat /\ Behind(q) <= Total(q)
<1>1. /\ q.mQueue \in Seq(Packet) /\ Len(q.mQueue) \in Nat
      /\ q.mCurrent \in Nat /\ 1 <= q.mCurrent /\ q.mCurrent - 1 <= Len(q.mQueue)
      /\ q.mCurrent - 1 \in 0 .. Len(q.mQueue) /\ Len(q.mQueue) \in 0 .. Len(q.mQueue)
  BY DEF Placed, QueueOf
<1>2. Sums(q.mQueue)[Len(q.mQueue)] \in Nat /\ Sums(q.mQueue)[q.mCurrent - 1] \in Nat
  BY <1>1, SumsOf
<1>3. Sums(q.mQueue)[q.mCurrent - 1] <= Sums(q.mQueue)[Len(q.mQueue)]
  BY <1>1, SumsGrow
<1>. QED  BY <1>1, <1>2, <1>3 DEF Total, Behind

LEMMA SoundIsQueue == ASSUME NEW q, Sound(q)  PROVE q \in Queue
<1>1. Total(q) \in Nat /\ Behind(q) \in Nat /\ Behind(q) <= Total(q)
  BY PlacedTypes DEF Sound, Tallied
<1>2. Total(q) - Behind(q) \in Nat
  BY <1>1
<1>. QED  BY <1>1, <1>2 DEF Sound, Tallied, Placed, QueueOf, Queue

LEMMA SoundIsMatching ==
  ASSUME NEW q, Placed(q)
  PROVE  Sound(q) <=> CountersMatch(q)
<1>1. /\ q.mQueue \in Seq(Packet) /\ Len(q.mQueue) \in Nat /\ q.mCurrent \in Nat
      /\ 1 <= q.mCurrent /\ q.mCurrent - 1 <= Len(q.mQueue) /\ Total(q) \in Nat
  BY PlacedTypes
<1>2. CountedIn(SubSeq(q.mQueue, q.mCurrent, Len(q.mQueue))) = Total(q) - Behind(q)
  <2> DEFINE s == q.mQueue
             l == Len(s)
             c == q.mCurrent
             r == SubSeq(s, c, l)
  <2>1. s \in Seq(Packet) /\ c - 1 \in Nat /\ l \in Nat /\ c - 1 <= l /\ l <= Len(s) /\ (c - 1) + 1 = c
    BY <1>1
  <2>2. IsPart(r, s, c - 1, l)
    BY <2>1, Zenon DEF IsPart
  <2>3. CountedIn(r) = Sums(s)[l] - Sums(s)[c - 1]
    <3> HIDE DEF r, s, l, c
    <3>. QED  BY <2>1, <2>2, SumsOfPart
  <2>. QED  BY <2>3, Zenon DEF Total, Behind
<1>3. CountedIn(q.mQueue) = Total(q)
  BY <1>1, SumsOf DEF Total
<1>4. q.mCurrent = 1 => Total(q) = Total(q) - Behind(q)
  <2>1. q.mCurrent = 1 => q.mCurrent - 1 = 0
    OBVIOUS
  <2>2. q.mCurrent = 1 => Behind(q) = 0
    BY <1>1, <2>1, SumsOf DEF Behind
  <2>. QED  BY <1>1, <2>2
<1>. QED  BY <1>2, <1>3, <1>4 DEF Sound, Tallied, CountersMatch, NothingKept

(* What is left of a queue when packets were dropped at its front.         *)
EndOf(r, q) ==
    /\ Len(r.mQueue) <= Len(q.mQueue)
    /\ \A i \in 1 .. Len(r.mQueue) :
          Alike(r.mQueue[i], q.mQueue[Len(q.mQueue) - Len(r.mQueue) + i])

LEMMA EndOfEnd ==
  ASSUME NEW q, NEW r, NEW t, Placed(q), Placed(r), Placed(t), EndOf(r, q), EndOf(t, r)
  PROVE  EndOf(t, q)
<1> DEFINE a == Len(q.mQueue)
           b == Len(r.mQueue)
           c == Len(t.mQueue)
<1>1. /\ a \in Nat /\ b \in Nat /\ c \in Nat /\ c <= b /\ b <= a
      /\ \A i \in 1 .. b : Alike(r.mQueue[i], q.mQueue[a - b + i])
      /\ \A i \in 1 .. c : Alike(t.mQueue[i], r.mQueue[b - c + i])
  BY PlacedTypes, Zenon DEF EndOf
<1>2. c <= a /\ \A i \in 1 .. c : Alike(t.mQueue[i], q.mQueue[a - c + i])
  <2> HIDE DEF a, b, c
  <2> SUFFICES ASSUME NEW i \in 1 .. c
               PROVE  Alike(t.mQueue[i], q.mQueue[a - c + i])
    BY <1>1
  <2>1. b - c + i \in 1 .. b /\ a - b + (b - c + i) = a - c + i
    BY <1>1
  <2>2. Alike(t.mQueue[i], r.mQueue[b - c + i])
    BY <1>1
  <2>3. Alike(r.mQueue[b - c + i], q.mQueue[a - b + (b - c + i)])
    BY <1>1, <2>1, Zenon
  <2>. QED  BY <2>1, <2>2, <2>3 DEF Alike
<1>. QED  BY <1>2, Zenon DEF EndOf

LEMMA EndContinues ==
  ASSUME NEW q, NEW r, NEW packets, NEW n \in Nat, Placed(q), Placed(r), EndOf(r, q),
         Continues(q, packets, n)
  PROVE  Continues(r, packets, n)
<1> DEFINE a == Len(q.mQueue)
           b == Len(r.mQueue)
<1>1. /\ a \in Nat /\ b \in Nat /\ b <= a
      /\ \A i \in 1 .. b : Alike(r.mQueue[i], q.mQueue[a - b + i])
  BY PlacedTypes, Zenon DEF EndOf
<1>2. DOMAIN q.mQueue = 1 .. a /\ DOMAIN r.mQueue = 1 .. b
  BY PlacedTypes
<1>4. \A i \in 1 .. a : /\ n - 1 - (a - i) \in DOMAIN packets
                        /\ Alike(q.mQueue[i], packets[n - 1 - (a - i)])
  BY <1>2, Zenon DEF Continues
<1>3. ASSUME NEW i \in 1 .. b
      PROVE  /\ n - 1 - (b - i) \in DOMAIN packets
             /\ Alike(r.mQueue[i], packets[n - 1 - (b - i)])
  <2> HIDE DEF a, b
  <2>1. a - b + i \in 1 .. a /\ n - 1 - (a - (a - b + i)) = n - 1 - (b - i)
    BY <1>1
  <2>. QED  BY <1>1, <1>4, <2>1 DEF Alike
<1>. QED  BY <1>2, <1>3, Zenon DEF Continues

LEMMA EndOfSame ==
  ASSUME NEW q, NEW r, Placed(q), Placed(r), Len(r.mQueue) = Len(q.mQueue),
         \A i \in 1 .. Len(q.mQueue) : Alike(r.mQueue[i], q.mQueue[i])
  PROVE  EndOf(r, q)
<1> DEFINE a == Len(q.mQueue)
           b == Len(r.mQueue)
<1>1. a \in Nat /\ b = a /\ \A i \in 1 .. a : Alike(r.mQueue[i], q.mQueue[i])
  BY PlacedTypes
<1>2. b <= a /\ \A i \in 1 .. b : Alike(r.mQueue[i], q.mQueue[a - b + i])
  <2> HIDE DEF a, b
  <2>1. \A i \in 1 .. b : i \in 1 .. a /\ a - b + i = i
    BY <1>1
  <2>. QED  BY <1>1, <2>1
<1>. QED  BY <1>2, Zenon DEF EndOf

(* The operations, in steps they share.                                    *)
Advanced(q) == [q EXCEPT !.mDuration = @ - Counted(Current(q)), !.mCurrent = @ + 1]

LEMMA AdvancedTallied ==
  ASSUME NEW q, Tallied(q), ~ AtEnd(q)
  PROVE  /\ Tallied(Advanced(q)) /\ EndOf(Advanced(q), q)
         /\ Advanced(q).mQueue = q.mQueue /\ Advanced(q).mCurrent = q.mCurrent + 1
         /\ Advanced(q).mMAXBackwardDuration = q.mMAXBackwardDuration
         /\ Advanced(q).mDropedExtra = q.mDropedExtra
<1> DEFINE r == Advanced(q)
           s == q.mQueue
           c == q.mCurrent
<1>1. /\ s \in Seq(Packet) /\ Len(s) \in Nat /\ c \in Nat /\ 1 <= c /\ c <= Len(s)
      /\ c \in 1 .. Len(s) /\ s[c] \in Packet
  BY PlacedTypes DEF Tallied, AtEnd
<1>2. Counted(Current(q)) \in Nat
  BY <1>1, CountedType DEF Current
<1>3. /\ r.mQueue = s /\ r.mCurrent = c + 1
      /\ r.mMAXBackwardDuration = q.mMAXBackwardDuration /\ r.mDropedExtra = q.mDropedExtra
      /\ r.mDuration = q.mDuration - Counted(Current(q)) /\ r.mTotalDuration = q.mTotalDuration
  BY DEF Advanced, Tallied, Placed, QueueOf
<1>4. Placed(r)
  <2>1. q \in QueueOf(Seq(Packet), Int)
    BY DEF Tallied, Placed
  <2> DEFINE S == Seq(Packet)
             d == q.mDuration - Counted(Current(q))
             n == q.mCurrent + 1
  <2>2. r \in QueueOf(S, Int)
    <3>1. q \in QueueOf(S, Int) /\ d \in Int /\ n \in Nat
      BY <1>1, <1>2, <2>1 DEF QueueOf
    <3> HIDE DEF S, d, n
    <3>2. [q EXCEPT !.mDuration = d, !.mCurrent = n] \in QueueOf(S, Int)
      BY <3>1, Zenon DEF QueueOf
    <3>. QED  BY <3>2 DEF Advanced, d, n
  <2> HIDE DEF r
  <2>. QED  BY <1>1, <1>3, <2>2 DEF Placed
<1>5. Behind(r) = Behind(q) + Counted(Current(q)) /\ Total(r) = Total(q)
  <2>1. (c + 1) - 1 = c
    BY <1>1
  <2>2. Sums(s)[c] = Sums(s)[c - 1] + Counted(s[c])
    BY <1>1, SumsOf
  <2> HIDE DEF r
  <2>. QED  BY <1>3, <2>1, <2>2, Zenon DEF Behind, Total, Current
<1>6. Tallied(r)
  <2>1. Total(q) \in Nat /\ Behind(q) \in Nat
    BY PlacedTypes DEF Tallied
  <2> HIDE DEF r
  <2>. QED  BY <1>2, <1>3, <1>4, <1>5, <2>1 DEF Tallied
<1>7. EndOf(r, q)
  <2> HIDE DEF r
  <2>. QED  BY <1>3, <1>4, EndOfSame DEF Tallied, Alike
<1>. QED  BY <1>3, <1>6, <1>7

IsDrop(r, q, n) ==
    /\ Tallied(r) /\ EndOf(r, q)
    /\ Len(r.mQueue) = Len(q.mQueue) - n
    /\ \A i \in 1 .. Len(q.mQueue) - n : r.mQueue[i] = q.mQueue[n + i]
    /\ r.mCurrent = q.mCurrent - n
    /\ r.mTotalDuration = q.mTotalDuration - Sums(q.mQueue)[n]
    /\ r.mMAXBackwardDuration = q.mMAXBackwardDuration
    /\ r.mDropedExtra = q.mDropedExtra

LEMMA DroppedTallied ==
  ASSUME NEW q, Tallied(q), NEW n \in Nat, n <= q.mCurrent - 1
  PROVE  IsDrop(DropFront(q, n), q, n)
<1> DEFINE r == DropFront(q, n)
           s == q.mQueue
           l == Len(s)
           c == q.mCurrent
           t == SubSeq(s, n + 1, l)
           u == SubSeq(s, 1, n)
<1>1. /\ s \in Seq(Packet) /\ l \in Nat /\ c \in Nat /\ 1 <= c /\ c - 1 <= l /\ n <= l
      /\ n \in 0 .. Len(s)
  BY PlacedTypes DEF Tallied
<1>2. /\ t \in Seq(Packet) /\ Len(t) = l - n
      /\ \A i \in 1 .. l - n : t[i] = s[n + i]
      /\ \A k \in 0 .. l - n : Sums(t)[k] = Sums(s)[n + k] - Sums(s)[n]
  <2>1. IsPart(t, s, n, l)
    BY Zenon DEF IsPart
  <2>2. l <= Len(s)
    BY <1>1
  <2> HIDE DEF t, s, l
  <2>. QED  BY <1>1, <2>1, <2>2, SumsOfPart
<1>3. CountedIn(u) = Sums(s)[n] /\ Sums(s)[n] \in Nat
  <2>1. IsPart(u, s, 0, n)
    <3>1. 0 + 1 = 1
      OBVIOUS
    <3>. QED  BY <3>1, Zenon DEF IsPart
  <2>2. n <= Len(s) /\ 0 <= n
    BY <1>1
  <2> HIDE DEF u, s, l
  <2>3. CountedIn(u) = Sums(s)[n] - Sums(s)[0]
    BY <1>1, <2>1, <2>2, SumsOfPart
  <2>. QED  BY <1>1, <2>3, SumsOf
<1>4. r = [q EXCEPT !.mQueue = t, !.mTotalDuration = @ - CountedIn(u),
                    !.mCurrent = IF c > n THEN c - n ELSE 1]
  BY <1>1 DEF DropFront
<1>10. c > n /\ c - n \in Nat
  BY <1>1
<1> HIDE DEF t, u, r
<1>5. /\ r.mQueue = t /\ r.mCurrent = c - n
      /\ r.mMAXBackwardDuration = q.mMAXBackwardDuration /\ r.mDropedExtra = q.mDropedExtra
      /\ r.mDuration = q.mDuration /\ r.mTotalDuration = q.mTotalDuration - Sums(s)[n]
  BY <1>3, <1>4, <1>10 DEF Tallied, Placed, QueueOf
<1>6. Placed(r)
  <2>1. c - n \in 1 .. (l - n) + 1
    BY <1>1, <1>10
  <2>2. q \in QueueOf(Seq(Packet), Int)
    BY DEF Tallied, Placed
  <2> DEFINE S == Seq(Packet)
             d == q.mTotalDuration - CountedIn(u)
             m == IF c > n THEN c - n ELSE 1
  <2>3. r \in QueueOf(S, Int)
    <3>1. q \in QueueOf(S, Int) /\ d \in Int /\ t \in S /\ m \in Nat
      BY <1>2, <1>3, <1>10, <2>2 DEF QueueOf
    <3> HIDE DEF S, d, m
    <3>2. [q EXCEPT !.mQueue = t, !.mTotalDuration = d, !.mCurrent = m] \in QueueOf(S, Int)
      BY <3>1, Zenon DEF QueueOf
    <3>. QED  BY <1>4, <3>2 DEF d, m
  <2>. QED  BY <1>2, <1>5, <2>1, <2>3 DEF Placed
<1>7. Behind(r) = Behind(q) - Sums(s)[n] /\ Total(r) = Total(q) - Sums(s)[n]
  <2>1. /\ c - n - 1 \in 0 .. l - n /\ n + (c - n - 1) = c - 1
        /\ l - n \in 0 .. l - n /\ n + (l - n) = l
    BY <1>1, <1>10
  <2>2. Sums(t)[c - n - 1] = Sums(s)[c - 1] - Sums(s)[n] /\ Sums(t)[l - n] = Sums(s)[l] - Sums(s)[n]
    BY <1>2, <2>1, Zenon
  <2>. QED  BY <1>2, <1>5, <2>2, Zenon DEF Behind, Total
<1>8. Tallied(r)
  <2>1. Total(q) \in Nat /\ Behind(q) \in Nat
    BY PlacedTypes DEF Tallied
  <2> DEFINE x == Sums(s)[n]
             b == Behind(q)
             a == Total(q)
  <2>2. q.mDuration = a - b /\ q.mTotalDuration = a /\ x \in Nat /\ a \in Nat /\ b \in Nat
    BY <1>3, <2>1 DEF Tallied
  <2>3. r.mDuration = a - b /\ r.mTotalDuration = a - x /\ Behind(r) = b - x /\ Total(r) = a - x
    BY <1>5, <1>7, <2>2
  <2> HIDE DEF x, a, b
  <2>4. r.mDuration = Total(r) - Behind(r) /\ r.mTotalDuration = Total(r)
    BY <2>2, <2>3
  <2>. QED  BY <1>6, <2>4 DEF Tallied
<1>9. EndOf(r, q)
  <2>1. l - n <= l /\ l - (l - n) = n
    BY <1>1
  <2>2. \A i \in 1 .. l - n : Alike(t[i], s[l - (l - n) + i])
    BY <1>2, <2>1 DEF Alike
  <2>. QED  BY <1>2, <1>5, <2>1, <2>2, Zenon DEF EndOf
<1>. QED  BY <1>2, <1>5, <1>8, <1>9, Zenon DEF IsDrop, r

LEMMA TrimIsDrop ==
  ASSUME NEW q, Tallied(q)
  PROVE  \E n \in Nat : n <= q.mCurrent - 1 /\ Trim(q) = DropFront(q, n)
<1> DEFINE S == {n \in 0 .. Len(q.mQueue) :
                   DropFront(q, n).mTotalDuration - q.mDuration <= q.mMAXBackwardDuration}
           c == q.mCurrent - 1
<1>1. c \in Nat /\ c \in 0 .. Len(q.mQueue) /\ Total(q) \in Nat /\ Behind(q) \in Nat
  BY PlacedTypes DEF Tallied
<1>2. c \in S
  <2>1. DropFront(q, c).mTotalDuration = Total(q) - Behind(q)
    <3>1. DropFront(q, c).mTotalDuration = q.mTotalDuration - Sums(q.mQueue)[c]
      <4>1. c <= q.mCurrent - 1
        BY <1>1
      <4>. QED  BY <1>1, <4>1, DroppedTallied DEF IsDrop
    <3>. QED  BY <3>1 DEF Tallied, Behind
  <2>2. Total(q) - Behind(q) - q.mDuration <= q.mMAXBackwardDuration
    <3>1. q.mDuration = Total(q) - Behind(q) /\ q.mMAXBackwardDuration \in Nat
      BY DEF Tallied, Placed, QueueOf
    <3>. QED  BY <1>1, <3>1
  <2> HIDE DEF c
  <2>. QED  BY <1>1, <2>1, <2>2
<1>3. S \in SUBSET Nat
  OBVIOUS
<1>4. Trim(q) = DropFront(q, Min(S))
  BY Zenon DEF Trim
<1> HIDE DEF S
<1>5. Min(S) \in S /\ Min(S) <= c
  BY <1>2, <1>3, MinOf
<1>. QED  BY <1>3, <1>4, <1>5

(* Other packets of the same durations, and another extra data kept.       *)
Relabel(q, s, x) == [q EXCEPT !.mQueue = s, !.mDropedExtra = x]

LEMMA Relabelled ==
  ASSUME NEW q, Tallied(q), NEW s \in Seq(Packet), Len(s) = Len(q.mQueue), NEW x \in Nat,
         \A i \in 1 .. Len(s) : Counted(s[i]) = Counted(q.mQueue[i]) /\ Alike(s[i], q.mQueue[i]),
         NEW r, r = Relabel(q, s, x)
  PROVE  /\ Tallied(r) /\ EndOf(r, q)
         /\ r.mQueue = s /\ r.mCurrent = q.mCurrent /\ r.mDropedExtra = x
         /\ r.mMAXBackwardDuration = q.mMAXBackwardDuration
<1>1. q \in QueueOf(Seq(Packet), Int) /\ q.mQueue \in Seq(Packet)
  BY PlacedTypes DEF Tallied, Placed
<1>2. /\ r.mQueue = s /\ r.mCurrent = q.mCurrent /\ r.mDropedExtra = x
      /\ r.mMAXBackwardDuration = q.mMAXBackwardDuration
      /\ r.mDuration = q.mDuration /\ r.mTotalDuration = q.mTotalDuration
  BY <1>1 DEF QueueOf, Relabel
<1>3. Placed(r)
  <2> DEFINE S == Seq(Packet)
  <2>1. r \in QueueOf(S, Int)
    <3>1. s \in S /\ q \in QueueOf(S, Int)
      BY <1>1
    <3> HIDE DEF S
    <3>. QED  BY <3>1, Zenon DEF QueueOf, Relabel
  <2>. QED  BY <1>2, <2>1 DEF Tallied, Placed
<1>4. \A k \in 0 .. Len(s) : Sums(s)[k] = Sums(q.mQueue)[k]
  <2>1. Len(s) \in Nat /\ Len(s) <= Len(s) /\ Len(s) <= Len(q.mQueue)
    BY <1>1
  <2>2. \A i \in 1 .. Len(s) : Counted(q.mQueue[i]) = Counted(s[i])
    OBVIOUS
  <2>. QED  BY <1>1, <2>1, <2>2, SumsOfPrefix
<1>5. Behind(r) = Behind(q) /\ Total(r) = Total(q)
  <2>1. q.mCurrent - 1 \in 0 .. Len(s) /\ Len(s) \in 0 .. Len(s)
    BY PlacedTypes DEF Tallied
  <2>. QED  BY <1>2, <1>4, <2>1 DEF Behind, Total
<1>6. Tallied(r)
  BY <1>2, <1>3, <1>5, Zenon DEF Tallied
<1>7. EndOf(r, q)
  BY <1>2, <1>3, EndOfSame DEF Tallied
<1>. QED  BY <1>2, <1>6, <1>7

IsExtraChange(t, s, c, x) == t = [s EXCEPT ![c].extra = x]

LEMMA ExtraChanged ==
  ASSUME NEW s \in Seq(Packet), NEW c \in 1 .. Len(s), NEW x \in Nat,
         NEW t, IsExtraChange(t, s, c, x)
  PROVE  /\ t \in Seq(Packet) /\ Len(t) = Len(s) /\ t[c].extra = x
         /\ \A i \in 1 .. Len(s) : i # c => t[i] = s[i]
         /\ \A i \in 1 .. Len(t) : Counted(t[i]) = Counted(s[i]) /\ Alike(t[i], s[i])
<1> DEFINE o == s[c]
           p == [o EXCEPT !.extra = x]
<1>1. o \in Packet
  OBVIOUS
<1>2. /\ p \in Packet /\ p.extra = x /\ Alike(p, o)
      /\ p.duration = o.duration /\ p.discard = o.discard
  <2> HIDE DEF o
  <2>. QED  BY <1>1 DEF Packet, Alike
<1>3. t = [s EXCEPT ![c] = p]
  BY DEF IsExtraChange
<1> HIDE DEF p
<1>4. t \in Seq(Packet) /\ Len(t) = Len(s) /\ t[c] = p /\ \A i \in 1 .. Len(s) : i # c => t[i] = s[i]
  BY <1>2, <1>3
<1>5. ASSUME NEW i \in 1 .. Len(t)
      PROVE  Counted(t[i]) = Counted(s[i]) /\ Alike(t[i], s[i])
  <2>1. CASE i = c
    BY <1>2, <1>4, <2>1 DEF Counted, Alike
  <2>2. CASE i # c
    <3>1. t[i] = s[i]
      BY <1>4, <2>2
    <3>. QED  BY <3>1 DEF Alike
  <2>. QED  BY <2>1, <2>2
<1>. QED  BY <1>2, <1>4, <1>5

(* The packets ahead of the cursor.                                        *)
Rest(q) == Len(q.mQueue) + 1 - q.mCurrent

LEMMA ExtraGiven ==
  ASSUME NEW q, Tallied(q)
  PROVE  /\ Tallied(GiveExtra(q)) /\ EndOf(GiveExtra(q), q)
         /\ GiveExtra(q).mCurrent = q.mCurrent /\ Len(GiveExtra(q).mQueue) = Len(q.mQueue)
         /\ GiveExtra(q).mMAXBackwardDuration = q.mMAXBackwardDuration
         /\ \A i \in 1 .. Len(q.mQueue) : i # q.mCurrent => GiveExtra(q).mQueue[i] = q.mQueue[i]
         /\ AtEnd(q) => GiveExtra(q).mDropedExtra = q.mDropedExtra
         /\ ~ AtEnd(q) =>
               /\ GiveExtra(q).mDropedExtra = NoExtra
               /\ GiveExtra(q).mQueue[q.mCurrent].extra =
                     IF Current(q).extra = NoExtra THEN q.mDropedExtra ELSE Current(q).extra
<1> DEFINE r == GiveExtra(q)
           c == q.mCurrent
           s == q.mQueue
           x == IF s[c].extra = NoExtra THEN q.mDropedExtra ELSE s[c].extra
           t == [s EXCEPT ![c].extra = x]
<1>1. /\ s \in Seq(Packet) /\ Len(s) \in Nat /\ c \in Nat /\ 1 <= c
      /\ q \in QueueOf(Seq(Packet), Int) /\ q.mDropedExtra \in Nat
  BY PlacedTypes DEF Tallied, Placed, QueueOf
<1>2. CASE AtEnd(q) \/ q.mDropedExtra = NoExtra
  <2>1. r = q
    BY <1>2 DEF GiveExtra
  <2>2. EndOf(q, q)
    BY EndOfSame DEF Tallied, Alike
  <2>3. ~ AtEnd(q) => Current(q).extra = IF Current(q).extra = NoExtra THEN q.mDropedExtra ELSE Current(q).extra
    BY <1>2
  <2> HIDE DEF r
  <2>. QED  BY <1>2, <2>1, <2>2, <2>3 DEF Current, r
<1>3. CASE ~ AtEnd(q) /\ q.mDropedExtra # NoExtra
  <2>1. c \in 1 .. Len(s) /\ s[c] \in Packet
    BY <1>1, <1>3 DEF AtEnd
  <2>2. x \in Nat
    <3>1. s[c].extra \in Nat
      BY <2>1 DEF Packet
    <3>. QED  BY <1>1, <3>1
  <2> HIDE DEF x
  <2>3. /\ t \in Seq(Packet) /\ Len(t) = Len(s) /\ t[c].extra = x
        /\ \A i \in 1 .. Len(s) : i # c => t[i] = s[i]
        /\ \A i \in 1 .. Len(t) : Counted(t[i]) = Counted(s[i]) /\ Alike(t[i], s[i])
    <3>1. IsExtraChange(t, s, c, x)
      BY Zenon DEF IsExtraChange
    <3> HIDE DEF c, s, t
    <3>. QED  BY <1>1, <2>1, <2>2, <3>1, ExtraChanged
  <2>4. r = Relabel(q, t, NoExtra)
    BY <1>3 DEF GiveExtra, Relabel, x
  <2> HIDE DEF r, t
  <2>5. /\ Tallied(r) /\ EndOf(r, q)
        /\ r.mQueue = t /\ r.mCurrent = c /\ r.mDropedExtra = NoExtra
        /\ r.mMAXBackwardDuration = q.mMAXBackwardDuration
    <3>1. NoExtra \in Nat
      BY DEF NoExtra
    <3>. QED  BY <2>3, <2>4, <3>1, Relabelled
  <2>. QED  BY <1>3, <2>3, <2>5 DEF r, x, Current
<1>. QED  BY <1>2, <1>3

LEMMA DropUsed ==
  ASSUME NEW q, Placed(q), q.mCurrent = 1, NEW d
  PROVE  [DropFront([q EXCEPT !.mDuration = d], 1) EXCEPT !.mCurrent = 1]
            = DropFront([q EXCEPT !.mDuration = d, !.mCurrent = @ + 1], 1)
<1> DEFINE u == [q EXCEPT !.mDuration = d]
           n == q.mCurrent + 1
           v == [q EXCEPT !.mDuration = d, !.mCurrent = n]
           t == SubSeq(q.mQueue, 1 + 1, Len(q.mQueue))
           e == q.mTotalDuration - CountedIn(SubSeq(q.mQueue, 1, 1))
<1>1. q \in QueueOf(Seq(Packet), Int) /\ n = 2
  BY DEF Placed
<1>2. /\ u.mQueue = q.mQueue /\ u.mTotalDuration = q.mTotalDuration /\ u.mCurrent = 1
      /\ v.mQueue = q.mQueue /\ v.mTotalDuration = q.mTotalDuration /\ v.mCurrent = 2
  BY <1>1 DEF QueueOf
<1> HIDE DEF u, v, n
<1>3. DropFront(u, 1) = [u EXCEPT !.mQueue = t, !.mTotalDuration = e, !.mCurrent = 1]
  <2>1. (IF u.mCurrent > 1 THEN u.mCurrent - 1 ELSE 1) = 1
    BY <1>2
  <2>. QED  BY <1>2, <2>1, Zenon DEF DropFront
<1>4. DropFront(v, 1) = [v EXCEPT !.mQueue = t, !.mTotalDuration = e, !.mCurrent = 1]
  <2>1. (IF v.mCurrent > 1 THEN v.mCurrent - 1 ELSE 1) = 1
    BY <1>2
  <2>. QED  BY <1>2, <2>1, Zenon DEF DropFront
<1> HIDE DEF t, e
<1>5. [DropFront(u, 1) EXCEPT !.mCurrent = 1] = DropFront(v, 1)
  BY <1>1, <1>3, <1>4, Zenon DEF QueueOf, u, v
<1>. QED  BY <1>5 DEF u, v, n

(* The queue after the cursor went one packet on, as the limit has it.     *)
Stepped(q) == IF q.mMAXBackwardDuration = 0 THEN DropFront(Advanced(q), 1) ELSE Advanced(q)

LEMMA SteppedSound ==
  ASSUME NEW q, Sound(q), ~ AtEnd(q)
  PROVE  /\ Sound(Stepped(q)) /\ EndOf(Stepped(q), q) /\ Rest(Stepped(q)) = Rest(q) - 1
         /\ Stepped(q).mMAXBackwardDuration = q.mMAXBackwardDuration
         /\ Stepped(q).mDropedExtra = q.mDropedExtra
         /\ q.mMAXBackwardDuration = 0 =>
               /\ Len(Stepped(q).mQueue) = Len(q.mQueue) - 1
               /\ \A i \in 1 .. Len(q.mQueue) - 1 : Stepped(q).mQueue[i] = q.mQueue[1 + i]
<1> DEFINE a == Advanced(q)
           r == Stepped(q)
<1>1. /\ Tallied(q) /\ (q.mMAXBackwardDuration = 0 => q.mCurrent = 1) /\ Len(q.mQueue) \in Nat
      /\ q.mCurrent \in Nat /\ q.mCurrent >= 1
  BY PlacedTypes DEF Sound, Tallied
<1>2. /\ Tallied(a) /\ EndOf(a, q) /\ a.mQueue = q.mQueue /\ a.mCurrent = q.mCurrent + 1
      /\ a.mMAXBackwardDuration = q.mMAXBackwardDuration /\ a.mDropedExtra = q.mDropedExtra
  BY <1>1, AdvancedTallied
<1> HIDE DEF a
<1>3. CASE q.mMAXBackwardDuration = 0
  <2>1. r = DropFront(a, 1)
    BY <1>3 DEF Stepped, a
  <2> HIDE DEF r
  <2>2. 1 \in Nat /\ 1 <= a.mCurrent - 1 /\ a.mCurrent = 2
    BY <1>1, <1>2, <1>3
  <2>3. /\ Tallied(r) /\ EndOf(r, a) /\ Len(r.mQueue) = Len(q.mQueue) - 1
        /\ \A i \in 1 .. Len(q.mQueue) - 1 : r.mQueue[i] = q.mQueue[1 + i]
        /\ r.mCurrent = a.mCurrent - 1
        /\ r.mMAXBackwardDuration = 0 /\ r.mDropedExtra = q.mDropedExtra
    <3>1. IsDrop(r, a, 1)
      BY <1>2, <2>1, <2>2, DroppedTallied
    <3>. QED  BY <1>2, <1>3, <3>1 DEF IsDrop
  <2>4. EndOf(r, q)
    BY <1>1, <1>2, <2>3, EndOfEnd DEF Tallied
  <2>5. Sound(r) /\ Rest(r) = Rest(q) - 1
    <3>1. r.mCurrent = 1
      BY <2>2, <2>3
    <3>2. Len(r.mQueue) = Len(q.mQueue) - 1 /\ Tallied(r) /\ q.mCurrent = 1
      BY <1>1, <1>3, <2>3
    <3>3. Len(q.mQueue) \in Nat
      BY <1>1
    <3>. QED  BY <3>1, <3>2, <3>3 DEF Sound, Rest
  <2>. QED  BY <1>3, <2>3, <2>4, <2>5 DEF r
<1>4. CASE q.mMAXBackwardDuration # 0
  <2>1. r = a
    BY <1>4 DEF Stepped, a
  <2> HIDE DEF r
  <2>2. Rest(a) = Rest(q) - 1
    BY <1>1, <1>2 DEF Rest
  <2>. QED  BY <1>2, <1>4, <2>1, <2>2 DEF Sound, r
<1>. QED  BY <1>3, <1>4

LEMMA TakenSound ==
  ASSUME NEW q, Sound(q), ~ AtEnd(q)
  PROVE  /\ Sound(Taken(q)) /\ EndOf(Taken(q), q)
         /\ Taken(q).mMAXBackwardDuration = q.mMAXBackwardDuration
         /\ Taken(q).mDropedExtra = q.mDropedExtra
         /\ q.mMAXBackwardDuration = 0 =>
               /\ PacketTaken(q) = q.mQueue[1]
               /\ Len(Taken(q).mQueue) = Len(q.mQueue) - 1
               /\ \A i \in 1 .. Len(q.mQueue) - 1 : Taken(q).mQueue[i] = q.mQueue[1 + i]
<1>1. Tallied(q) /\ Placed(q) /\ (q.mMAXBackwardDuration = 0 => q.mCurrent = 1)
  BY DEF Sound, Tallied
<1>2. PacketTaken(q) = Current(q)
  BY <1>1, PlacedTypes DEF PacketTaken, Current
<1> DEFINE d == q.mDuration - Counted(Current(q))
           used == [q EXCEPT !.mDuration = d]
<1>3. used.mCurrent = q.mCurrent
  BY <1>1 DEF Placed, QueueOf
<1>4. CASE q.mMAXBackwardDuration = 0
  <2>1. Taken(q) = [DropFront(used, 1) EXCEPT !.mCurrent = 1]
    BY <1>2, <1>4, Zenon DEF Taken
  <2>2. Taken(q) = Stepped(q)
    <3> HIDE DEF d
    <3>1. Taken(q) = DropFront([q EXCEPT !.mDuration = d, !.mCurrent = @ + 1], 1)
      BY <1>1, <1>4, <2>1, DropUsed
    <3>. QED  BY <1>4, <3>1, Zenon DEF Stepped, Advanced, d
  <2>3. PacketTaken(q) = q.mQueue[1]
    BY <1>1, <1>2, <1>4 DEF Current
  <2>. QED  BY <1>4, <2>2, <2>3, SteppedSound
<1>5. CASE q.mMAXBackwardDuration # 0
  <2>1. Taken(q) = Trim(Advanced(q))
    <3>1. Taken(q) = Trim([used EXCEPT !.mCurrent = used.mCurrent + 1])
      BY <1>2, <1>5, Zenon DEF Taken
    <3>2. [used EXCEPT !.mCurrent = used.mCurrent + 1] = Advanced(q)
      BY <1>3, Zenon DEF Advanced
    <3>. QED  BY <3>1, <3>2, Zenon
  <2> DEFINE a == Advanced(q)
             r == Taken(q)
  <2>2. /\ Tallied(a) /\ EndOf(a, q)
        /\ a.mMAXBackwardDuration = q.mMAXBackwardDuration /\ a.mDropedExtra = q.mDropedExtra
    BY <1>1, AdvancedTallied
  <2> HIDE DEF a, r
  <2>3. PICK n \in Nat : n <= a.mCurrent - 1 /\ r = DropFront(a, n)
    BY <2>1, <2>2, TrimIsDrop DEF a, r
  <2>4. /\ Tallied(r) /\ EndOf(r, a)
        /\ r.mMAXBackwardDuration = q.mMAXBackwardDuration /\ r.mDropedExtra = q.mDropedExtra
    <3>1. IsDrop(r, a, n)
      BY <2>2, <2>3, DroppedTallied
    <3>. QED  BY <2>2, <3>1 DEF IsDrop
  <2>5. EndOf(r, q)
    BY <1>1, <2>2, <2>4, EndOfEnd DEF Tallied
  <2>. QED  BY <1>5, <2>4, <2>5 DEF Sound, r
<1>. QED  BY <1>4, <1>5

(* The queue with the extra data of the packet under the cursor kept.      *)
Saved(q) ==
    IF Current(q).extra = NoExtra THEN q
    ELSE [q EXCEPT !.mDropedExtra = Current(q).extra, !.mQueue[q.mCurrent].extra = NoExtra]

LEMMA SavedSound ==
  ASSUME NEW q, Sound(q), ~ AtEnd(q)
  PROVE  /\ Sound(Saved(q)) /\ EndOf(Saved(q), q)
         /\ Saved(q).mCurrent = q.mCurrent /\ Len(Saved(q).mQueue) = Len(q.mQueue)
         /\ Saved(q).mMAXBackwardDuration = q.mMAXBackwardDuration
         /\ \A i \in 1 .. Len(q.mQueue) : i # q.mCurrent => Saved(q).mQueue[i] = q.mQueue[i]
         /\ Counted(Current(Saved(q))) = Counted(Current(q))
         /\ Saved(q).mDropedExtra =
               IF Current(q).extra = NoExtra THEN q.mDropedExtra ELSE Current(q).extra
<1> DEFINE r == Saved(q)
           c == q.mCurrent
           s == q.mQueue
           x == Current(q).extra
           t == [s EXCEPT ![c].extra = NoExtra]
<1>1. /\ Tallied(q) /\ s \in Seq(Packet) /\ Len(s) \in Nat /\ c \in 1 .. Len(s) /\ s[c] \in Packet
      /\ Placed(q)
  BY PlacedTypes DEF Sound, Tallied, AtEnd
<1>2. CASE x = NoExtra
  <2>1. r = q
    BY <1>2 DEF Saved
  <2>2. EndOf(q, q)
    BY <1>1, EndOfSame DEF Alike
  <2>. QED  BY <1>2, <2>1, <2>2
<1>3. CASE x # NoExtra
  <2>1. x \in Nat /\ NoExtra \in Nat
    BY <1>1 DEF Packet, NoExtra, Current
  <2>2. /\ t \in Seq(Packet) /\ Len(t) = Len(s)
        /\ \A i \in 1 .. Len(s) : i # c => t[i] = s[i]
        /\ \A i \in 1 .. Len(t) : Counted(t[i]) = Counted(s[i]) /\ Alike(t[i], s[i])
    <3>1. IsExtraChange(t, s, c, NoExtra)
      BY Zenon DEF IsExtraChange
    <3> HIDE DEF c, s, t
    <3>. QED  BY <1>1, <2>1, <3>1, ExtraChanged
  <2>3. r = [q EXCEPT !.mDropedExtra = x, !.mQueue = t]
    <3>1. [q EXCEPT !.mDropedExtra = x].mQueue = q.mQueue
      BY <1>1 DEF Placed, QueueOf
    <3>. QED  BY <1>3, <3>1, Zenon DEF Saved
  <2> HIDE DEF r, t
  <2>4. r = Relabel(q, t, x)
    <3> HIDE DEF x
    <3>. QED  BY <1>1, <2>3, Zenon DEF Relabel, Placed, QueueOf
  <2>5. /\ Tallied(r) /\ EndOf(r, q) /\ r.mQueue = t /\ r.mCurrent = c /\ r.mDropedExtra = x
        /\ r.mMAXBackwardDuration = q.mMAXBackwardDuration
    <3>1. Tallied(q)
      BY <1>1
    <3> HIDE DEF x
    <3>. QED  BY <2>1, <2>2, <2>4, <3>1, Relabelled
  <2>6. Sound(r)
    BY <2>5 DEF Sound
  <2>. QED  BY <1>1, <1>3, <2>2, <2>5, <2>6 DEF r, Current
<1>. QED  BY <1>2, <1>3

LEMMA PopIsStep ==
  ASSUME NEW q, Sound(q), ~ AtEnd(q)
  PROVE  PopFrontPacket(q) = GiveExtra(Stepped(Saved(q)))
<1> DEFINE saved == Saved(q)
           d == saved.mDuration - Counted(Current(saved))
           ahead == [saved EXCEPT !.mDuration = d]
           moved == IF q.mMAXBackwardDuration = 0
                    THEN [DropFront(ahead, 1) EXCEPT !.mCurrent = 1]
                    ELSE [ahead EXCEPT !.mCurrent = @ + 1]
<1>1. /\ Sound(saved) /\ saved.mMAXBackwardDuration = q.mMAXBackwardDuration
      /\ Counted(Current(saved)) = Counted(Current(q))
  BY SavedSound
<1>2. Placed(saved) /\ (saved.mMAXBackwardDuration = 0 => saved.mCurrent = 1)
  BY <1>1 DEF Sound, Tallied
<1>3. PopFrontPacket(q) = GiveExtra(moved)
  <2> HIDE DEF saved
  <2>1. PopFrontPacket(q) =
          LET ahead2 == [saved EXCEPT !.mDuration = @ - Counted(Current(q))]
          IN  GiveExtra(IF q.mMAXBackwardDuration = 0
                        THEN [DropFront(ahead2, 1) EXCEPT !.mCurrent = 1]
                        ELSE [ahead2 EXCEPT !.mCurrent = @ + 1])
    BY Zenon DEF PopFrontPacket, Saved, saved
  <2>. QED  BY <1>1, <2>1, Zenon
<1> HIDE DEF saved
<1>4. moved = Stepped(saved)
  <2>1. CASE q.mMAXBackwardDuration = 0
    <3> HIDE DEF d
    <3>1. moved = DropFront([saved EXCEPT !.mDuration = d, !.mCurrent = @ + 1], 1)
      BY <1>1, <1>2, <2>1, DropUsed
    <3>. QED  BY <1>1, <2>1, <3>1, Zenon DEF Stepped, Advanced, d
  <2>2. CASE q.mMAXBackwardDuration # 0
    <3>1. ahead.mCurrent = saved.mCurrent
      BY <1>2 DEF Placed, QueueOf
    <3>2. moved = [ahead EXCEPT !.mCurrent = saved.mCurrent + 1]
      BY <2>2, <3>1, Zenon
    <3>. QED  BY <1>1, <2>2, <3>2, Zenon DEF Stepped, Advanced
  <2>. QED  BY <2>1, <2>2
<1>. QED  BY <1>3, <1>4, Zenon DEF saved

(* The extra data of a packet popped goes on to the next one, if it has    *)
(* none, or is kept.                                                       *)
ExtraPassed(r, q) ==
    /\ Len(r.mQueue) = Len(q.mQueue) - 1
    /\ \A i \in 2 .. Len(q.mQueue) - 1 : r.mQueue[i].extra = q.mQueue[1 + i].extra
    /\ LET saved == IF q.mQueue[1].extra = NoExtra THEN q.mDropedExtra ELSE q.mQueue[1].extra IN
       /\ Len(q.mQueue) = 1 => r.mDropedExtra = saved
       /\ Len(q.mQueue) > 1 =>
             /\ r.mDropedExtra = NoExtra
             /\ r.mQueue[1].extra = IF q.mQueue[2].extra = NoExtra THEN saved ELSE q.mQueue[2].extra

LEMMA PoppedSound ==
  ASSUME NEW q, Sound(q), ~ AtEnd(q), NEW r, r = PopFrontPacket(q)
  PROVE  /\ Sound(r) /\ EndOf(r, q) /\ Rest(r) = Rest(q) - 1
         /\ r.mMAXBackwardDuration = q.mMAXBackwardDuration
         /\ q.mMAXBackwardDuration = 0 => ExtraPassed(r, q)
<1> DEFINE a == Saved(q)
           b == Stepped(a)
<1>1. r = GiveExtra(b)
  BY PopIsStep
<1>2. /\ Sound(a) /\ EndOf(a, q) /\ a.mCurrent = q.mCurrent /\ Len(a.mQueue) = Len(q.mQueue)
      /\ a.mMAXBackwardDuration = q.mMAXBackwardDuration
      /\ \A i \in 1 .. Len(q.mQueue) : i # q.mCurrent => a.mQueue[i] = q.mQueue[i]
      /\ a.mDropedExtra = IF Current(q).extra = NoExtra THEN q.mDropedExtra ELSE Current(q).extra
  BY SavedSound
<1>3. ~ AtEnd(a) /\ Rest(a) = Rest(q)
  BY <1>2 DEF AtEnd, Rest
<1> HIDE DEF a
<1>4. /\ Sound(b) /\ EndOf(b, a) /\ Rest(b) = Rest(a) - 1
      /\ b.mMAXBackwardDuration = a.mMAXBackwardDuration /\ b.mDropedExtra = a.mDropedExtra
      /\ a.mMAXBackwardDuration = 0 =>
            /\ Len(b.mQueue) = Len(a.mQueue) - 1
            /\ \A i \in 1 .. Len(a.mQueue) - 1 : b.mQueue[i] = a.mQueue[1 + i]
  BY <1>2, <1>3, SteppedSound
<1> HIDE DEF b
<1>5. /\ Tallied(r) /\ EndOf(r, b) /\ r.mCurrent = b.mCurrent /\ Len(r.mQueue) = Len(b.mQueue)
      /\ r.mMAXBackwardDuration = b.mMAXBackwardDuration
      /\ \A i \in 1 .. Len(b.mQueue) : i # b.mCurrent => r.mQueue[i] = b.mQueue[i]
      /\ AtEnd(b) => r.mDropedExtra = b.mDropedExtra
      /\ ~ AtEnd(b) =>
            /\ r.mDropedExtra = NoExtra
            /\ r.mQueue[b.mCurrent].extra =
                  IF Current(b).extra = NoExtra THEN b.mDropedExtra ELSE Current(b).extra
  BY <1>1, <1>4, ExtraGiven DEF Sound
<1>6. Sound(r) /\ Rest(r) = Rest(q) - 1 /\ r.mMAXBackwardDuration = q.mMAXBackwardDuration
  <2>1. Rest(r) = Rest(b)
    BY <1>5 DEF Rest
  <2>. QED  BY <1>2, <1>3, <1>4, <1>5, <2>1 DEF Sound
<1>7. EndOf(r, q)
  <2>1. Placed(q) /\ Placed(a) /\ Placed(b) /\ Placed(r)
    BY <1>2, <1>4, <1>5 DEF Sound, Tallied
  <2>2. EndOf(b, q)
    BY <1>2, <1>4, <2>1, EndOfEnd
  <2>. QED  BY <1>5, <2>1, <2>2, EndOfEnd
<1>8. ASSUME q.mMAXBackwardDuration = 0
      PROVE  ExtraPassed(r, q)
  <2> DEFINE l == Len(q.mQueue)
  <2>1. l \in Nat /\ l >= 1 /\ q.mCurrent = 1 /\ b.mCurrent = 1
    <3>1. Placed(q) /\ q.mCurrent = 1
      BY <1>8 DEF Sound, Tallied
    <3>2. l \in Nat /\ ~ (1 > l)
      BY <3>1, PlacedTypes DEF AtEnd
    <3>3. b.mCurrent = 1
      BY <1>2, <1>4, <1>8 DEF Sound
    <3> HIDE DEF l
    <3>. QED  BY <3>1, <3>2, <3>3
  <2>2. Len(b.mQueue) = l - 1 /\ \A i \in 1 .. l - 1 : b.mQueue[i] = q.mQueue[1 + i]
    <3>1. Len(b.mQueue) = l - 1 /\ \A i \in 1 .. l - 1 : b.mQueue[i] = a.mQueue[1 + i]
      BY <1>2, <1>4, <1>8
    <3>2. \A i \in 1 .. l : i # 1 => a.mQueue[i] = q.mQueue[i]
      BY <1>2, <2>1
    <3> HIDE DEF l
    <3>3. \A i \in 1 .. l - 1 : 1 + i \in 1 .. l /\ 1 + i # 1
      BY <2>1
    <3>. QED  BY <3>1, <3>2, <3>3
  <2>3. Len(r.mQueue) = l - 1 /\ \A i \in 2 .. l - 1 : r.mQueue[i].extra = q.mQueue[1 + i].extra
    <3>1. Len(r.mQueue) = l - 1 /\ \A i \in 1 .. l - 1 : i # 1 => r.mQueue[i] = b.mQueue[i]
      BY <1>5, <2>1, <2>2
    <3> HIDE DEF l
    <3>2. \A i \in 2 .. l - 1 : i \in 1 .. l - 1 /\ i # 1
      BY <2>1
    <3>. QED  BY <2>2, <3>1, <3>2
  <2>4. l = 1 => r.mDropedExtra = b.mDropedExtra
    BY <1>5, <2>1, <2>2 DEF AtEnd
  <2>5. l > 1 => /\ r.mDropedExtra = NoExtra
                 /\ r.mQueue[1].extra =
                       IF q.mQueue[2].extra = NoExtra THEN b.mDropedExtra ELSE q.mQueue[2].extra
    <3> SUFFICES ASSUME l > 1
                 PROVE  /\ r.mDropedExtra = NoExtra
                        /\ r.mQueue[1].extra =
                             IF q.mQueue[2].extra = NoExtra THEN b.mDropedExtra ELSE q.mQueue[2].extra
      OBVIOUS
    <3>1. ~ AtEnd(b) /\ Current(b) = q.mQueue[2]
      <4>1. 1 \in 1 .. l - 1 /\ 1 + 1 = 2
        BY <2>1
      <4>2. Len(b.mQueue) = l - 1 /\ b.mQueue[1] = q.mQueue[2]
        BY <2>2, <4>1
      <4> HIDE DEF l
      <4>. QED  BY <2>1, <4>1, <4>2 DEF AtEnd, Current
    <3>. QED  BY <1>5, <2>1, <3>1
  <2>6. b.mDropedExtra = IF q.mQueue[1].extra = NoExtra THEN q.mDropedExtra ELSE q.mQueue[1].extra
    BY <1>2, <1>4, <2>1 DEF Current
  <2>. QED  BY <2>3, <2>4, <2>5, <2>6, Zenon DEF ExtraPassed
<1>. QED  BY <1>6, <1>7, <1>8

(* The queues f goes through when m packets before pos are popped.         *)
Pops(f, q, m) ==
    /\ f[0] = q
    /\ \A n \in 1 .. m : f[n] = PopFrontPacket(f[n - 1])

LateUpTo(q, pos, m) ==
    /\ m \in Nat /\ m <= Rest(q)
    /\ \A i \in q.mCurrent .. q.mCurrent + m - 1 : q.mQueue[i].timePosition < pos
    /\ m < Rest(q) => ~ (q.mQueue[q.mCurrent + m].timePosition < pos)

LEMMA PopsExist ==
  ASSUME NEW q, Sound(q), NEW N \in Nat
  PROVE  \E f : f = [n \in 0 .. N |-> IF n = 0 THEN q ELSE PopFrontPacket(f[n - 1])]
<1> DEFINE S == {r \in QueueOf(Seq(Packet), Int) : Sound(r)}
           F == [n \in 1 .. N |-> [r \in S |-> PopFrontPacket(r)]]
<1>1. ASSUME NEW r \in S
      PROVE  PopFrontPacket(r) \in S
  <2>1. Sound(PopFrontPacket(r))
    <3>1. CASE AtEnd(r)
      BY <3>1, Zenon DEF PopFrontPacket
    <3>2. CASE ~ AtEnd(r)
      BY <3>2, PoppedSound
    <3>. QED  BY <3>1, <3>2
  <2>. QED  BY <2>1, Zenon DEF Sound, Tallied, Placed
<1>2. q \in S
  BY Zenon DEF Sound, Tallied, Placed
<1>3. F \in [1 .. N -> [S -> S]]
  BY <1>1
<1>4. PICK f : Iterates(f, q, F, N, S)
  <2> HIDE DEF S, F
  <2>. QED  BY <1>2, <1>3, StepsExist
<1>5. f \in [0 .. N -> S] /\ f[0] = q /\ \A n \in 1 .. N : f[n] = F[n][f[n - 1]]
  BY <1>4 DEF Iterates
<1> SUFFICES ASSUME NEW n \in 0 .. N
             PROVE  f[n] = IF n = 0 THEN q ELSE PopFrontPacket(f[n - 1])
  BY <1>5
<1>6. n # 0 => f[n - 1] \in S /\ n \in 1 .. N
  BY <1>5
<1>7. n # 0 => F[n][f[n - 1]] = PopFrontPacket(f[n - 1])
  BY <1>6, Zenon
<1>. QED  BY <1>5, <1>6, <1>7, Zenon

LEMMA ClearIsPops ==
  ASSUME NEW q, Sound(q), NEW pos
  PROVE  \E f, m : Pops(f, q, m) /\ LateUpTo(q, pos, m) /\ ClearPacketBeforeTimePos(q, pos) = f[m]
<1> DEFINE l == Len(q.mQueue)
           c == q.mCurrent
           Late(i) == q.mQueue[i].timePosition < pos
           kept == {i \in Ahead(q) : ~ Late(i)} \cup {Len(q.mQueue) + 1}
           m == Min(kept) - c
           f == CHOOSE f : f = [n \in 0 .. l |-> IF n = 0 THEN q ELSE PopFrontPacket(f[n - 1])]
<1>1. l \in Nat /\ c \in Nat /\ 1 <= c /\ c <= l + 1
  BY PlacedTypes DEF Sound, Tallied
<1>2. ClearPacketBeforeTimePos(q, pos) = f[m]
  BY Zenon DEF ClearPacketBeforeTimePos
<1>3. f = [n \in 0 .. l |-> IF n = 0 THEN q ELSE PopFrontPacket(f[n - 1])]
  <2>1. \E g : g = [n \in 0 .. l |-> IF n = 0 THEN q ELSE PopFrontPacket(g[n - 1])]
    BY <1>1, PopsExist
  <2>. QED  BY <2>1, Zenon
<1> HIDE DEF f
<1>4. /\ Min(kept) \in kept /\ \A i \in kept : Min(kept) <= i
      /\ kept \in SUBSET (c .. l + 1)
  <2>1. kept \in SUBSET (c .. l + 1) /\ kept # {}
    BY <1>1 DEF Ahead
  <2>2. kept \in SUBSET Nat
    BY <1>1, <2>1
  <2> HIDE DEF kept
  <2>. QED  BY <2>1, <2>2, MinOf
<1>5. Min(kept) \in c .. l + 1
  BY <1>4
<1>6. LateUpTo(q, pos, m)
  <2>1. m \in Nat /\ m <= Rest(q) /\ c + m = Min(kept)
    BY <1>1, <1>5 DEF Rest
  <2>2. ASSUME NEW i \in c .. c + m - 1
        PROVE  Late(i)
    <3>1. i \in Ahead(q) /\ ~ (Min(kept) <= i)
      BY <1>1, <1>5, <2>1 DEF Ahead
    <3>2. i \notin kept
      BY <1>4, <3>1
    <3>. QED  BY <3>1, <3>2
  <2>3. ASSUME m < Rest(q)
        PROVE  ~ Late(c + m)
    <3>1. Min(kept) # l + 1
      BY <1>1, <1>5, <2>1, <2>3 DEF Rest
    <3>. QED  BY <1>4, <2>1, <3>1
  <2> HIDE DEF m, kept
  <2>. QED  BY <2>1, <2>2, <2>3 DEF LateUpTo
<1>7. Pops(f, q, m)
  <2>1. m \in Nat /\ m <= l
    BY <1>1, <1>6 DEF LateUpTo, Rest
  <2> HIDE DEF m
  <2>2. f[0] = q /\ \A n \in 1 .. m : f[n] = PopFrontPacket(f[n - 1])
    <3>1. 0 \in 0 .. l /\ \A n \in 1 .. m : n \in 0 .. l /\ n # 0
      BY <1>1, <2>1
    <3>. QED  BY <1>3, <3>1, Zenon
  <2>. QED  BY <2>2 DEF Pops
<1> HIDE DEF m
<1>. QED  BY <1>2, <1>6, <1>7

(* Where n pops of packets ahead lead.                                     *)
PopsTo(r, q, n) ==
    /\ Sound(r) /\ EndOf(r, q) /\ Rest(r) = Rest(q) - n
    /\ r.mMAXBackwardDuration = q.mMAXBackwardDuration

LEMMA PopsKeep ==
  ASSUME NEW q, Sound(q), NEW f, NEW m \in Nat, m <= Rest(q), Pops(f, q, m)
  PROVE  \A n \in 0 .. m : PopsTo(f[n], q, n)
<1> DEFINE T == {n \in 0 .. m : PopsTo(f[n], q, n)}
<1>1. Rest(q) \in Nat /\ Placed(q)
  BY PlacedTypes DEF Rest, Sound, Tallied
<1>2. 0 \in T
  <2>1. EndOf(q, q)
    BY <1>1, EndOfSame DEF Alike
  <2>. QED  BY <1>1, <2>1 DEF PopsTo, Pops
<1>3. ASSUME NEW n \in 1 .. m, n - 1 \in T
      PROVE  n \in T
  <2> DEFINE a == f[n - 1]
             r == f[n]
  <2>1. PopsTo(a, q, n - 1) /\ r = PopFrontPacket(a)
    BY <1>3 DEF Pops
  <2> HIDE DEF a, r
  <2>2. ~ AtEnd(a)
    <3>1. Rest(a) = Rest(q) - (n - 1) /\ Placed(a)
      BY <2>1 DEF PopsTo, Sound, Tallied
    <3>2. Len(a.mQueue) \in Nat /\ a.mCurrent \in Nat
      BY <3>1, PlacedTypes
    <3>3. Rest(a) >= 1
      BY <1>1, <3>1
    <3>. QED  BY <3>2, <3>3 DEF Rest, AtEnd
  <2>3. /\ Sound(r) /\ EndOf(r, a) /\ Rest(r) = Rest(a) - 1
        /\ r.mMAXBackwardDuration = a.mMAXBackwardDuration
    BY <2>1, <2>2, PoppedSound DEF PopsTo
  <2>4. EndOf(r, q)
    BY <1>1, <2>1, <2>3, EndOfEnd DEF PopsTo, Sound, Tallied
  <2>5. Rest(r) = Rest(q) - n
    <3>1. Rest(a) = Rest(q) - (n - 1)
      BY <2>1 DEF PopsTo
    <3>. QED  BY <1>1, <2>3, <3>1
  <2>6. PopsTo(r, q, n)
    BY <2>1, <2>3, <2>4, <2>5 DEF PopsTo
  <2>. QED  BY <2>6 DEF r
<1> HIDE DEF T
<1>4. \A n \in 1 .. m : n - 1 \in T => n \in T
  BY <1>3
<1>. QED  BY <1>2, <1>4, UpTo DEF T

-----------------------------------------------------------------------------
(* The newest extra data                                                   *)

LastExtra(s, i) ==
    /\ i \in 1 .. Len(s) /\ s[i].extra # NoExtra
    /\ \A j \in 1 .. Len(s) : j > i => s[j].extra = NoExtra
WithoutExtra(s) == \A i \in 1 .. Len(s) : s[i].extra = NoExtra

InLine(s, dropped, read, out) ==
    /\ dropped # NoExtra => Len(s) = 0
    /\ read # NoExtra =>
          /\ \A i : LastExtra(s, i) => s[i].extra = read
          /\ WithoutExtra(s) => read = IF dropped # NoExtra THEN dropped ELSE out

LEMMA ExtraIsInLine ==
  ASSUME NEW q, Placed(q), NEW read, NEW out
  PROVE  ExtraInLine(q, read, out) <=>
            (q.mMAXBackwardDuration = 0 => InLine(q.mQueue, q.mDropedExtra, read, out))
<1>1. q.mQueue \in Seq(Packet) /\ DOMAIN q.mQueue = 1 .. Len(q.mQueue)
  BY PlacedTypes
<1>2. q.mQueue = <<>> <=> Len(q.mQueue) = 0
  BY <1>1
<1>3. ExtraInLine(q, read, out) <=>
        (q.mMAXBackwardDuration = 0 =>
          /\ q.mDropedExtra # NoExtra => Len(q.mQueue) = 0
          /\ read # NoExtra =>
            /\ \A i \in 1 .. Len(q.mQueue) :
                  /\ q.mQueue[i].extra # NoExtra
                  /\ \A j \in 1 .. Len(q.mQueue) : j > i => q.mQueue[j].extra = NoExtra
                  => q.mQueue[i].extra = read
            /\ (\A i \in 1 .. Len(q.mQueue) : q.mQueue[i].extra = NoExtra) =>
                  read = IF q.mDropedExtra # NoExtra THEN q.mDropedExtra ELSE out)
  BY <1>1, <1>2, Zenon DEF ExtraInLine
<1>. QED  BY <1>3, Zenon DEF InLine, LastExtra, WithoutExtra

(* A packet after the first is the last with extra data in what is left    *)
(* when it is in all.                                                      *)
LEMMA LastOfRest ==
  ASSUME NEW s \in Seq(Packet), NEW t \in Seq(Packet), Len(t) = Len(s) - 1, NEW i \in 1 .. Len(t),
         \A j \in i .. Len(t) : t[j].extra = s[1 + j].extra, LastExtra(t, i)
  PROVE  LastExtra(s, 1 + i)
<1>1. Len(s) \in Nat /\ Len(t) \in Nat /\ 1 + i \in 1 .. Len(s)
  OBVIOUS
<1>2. s[1 + i].extra # NoExtra
  BY <1>1 DEF LastExtra
<1>3. ASSUME NEW j \in 1 .. Len(s), j > 1 + i
      PROVE  s[j].extra = NoExtra
  <2>1. j - 1 \in i .. Len(t) /\ j - 1 \in 1 .. Len(t) /\ j - 1 > i /\ 1 + (j - 1) = j
    BY <1>1, <1>3
  <2>. QED  BY <2>1 DEF LastExtra
<1>. QED  BY <1>1, <1>2, <1>3 DEF LastExtra

LEMMA InLinePopped ==
  ASSUME NEW q, NEW r, NEW read, NEW out, q.mQueue \in Seq(Packet), r.mQueue \in Seq(Packet),
         Len(q.mQueue) >= 1, ExtraPassed(r, q), InLine(q.mQueue, q.mDropedExtra, read, out)
  PROVE  InLine(r.mQueue, r.mDropedExtra, read, out)
<1> DEFINE s == q.mQueue
           t == r.mQueue
           l == Len(s)
<1>1. l \in Nat /\ l >= 1 /\ (l # 1 => l > 1) /\ q.mDropedExtra = NoExtra
  <2>1. l \in Nat /\ l >= 1 /\ q.mDropedExtra = NoExtra
    BY DEF InLine
  <2> HIDE DEF l
  <2>2. l # 1 => l > 1
    BY <2>1
  <2>. QED  BY <2>1, <2>2
<1>2. /\ Len(t) = l - 1 /\ (\A i \in 2 .. l - 1 : t[i].extra = s[1 + i].extra)
      /\ l = 1 => r.mDropedExtra = s[1].extra
      /\ l > 1 => /\ r.mDropedExtra = NoExtra
                  /\ t[1].extra = IF s[2].extra = NoExtra THEN s[1].extra ELSE s[2].extra
  BY <1>1, Zenon DEF ExtraPassed
<1>3. s \in Seq(Packet) /\ t \in Seq(Packet)
  OBVIOUS
<1>4. InLine(s, NoExtra, read, out)
  BY <1>1
<1> HIDE DEF s, t
<1>5. r.mDropedExtra # NoExtra => Len(t) = 0
  BY <1>1, <1>2, <1>3
<1>6. ASSUME read # NoExtra, NEW i, LastExtra(t, i)
      PROVE  t[i].extra = read
  <2>1. i \in 1 .. l - 1 /\ l > 1
    BY <1>1, <1>2, <1>3, <1>6 DEF LastExtra
  <2>2. CASE i # 1 \/ s[2].extra # NoExtra
    <3>1. \A j \in i .. Len(t) : t[j].extra = s[1 + j].extra
      <4> SUFFICES ASSUME NEW j \in i .. Len(t)
                   PROVE  t[j].extra = s[1 + j].extra
        OBVIOUS
      <4>1. CASE j = 1
        BY <1>2, <2>1, <2>2, <4>1
      <4>2. CASE j # 1
        <5>1. j \in 2 .. l - 1
          BY <1>1, <1>2, <2>1, <4>2
        <5>. QED  BY <1>2, <5>1
      <4>. QED  BY <4>1, <4>2
    <3>2. i \in 1 .. Len(t) /\ i \in i .. Len(t)
      BY <1>1, <1>2, <2>1
    <3>3. LastExtra(s, 1 + i)
      BY <1>2, <1>3, <1>6, <3>1, <3>2, LastOfRest
    <3>4. s[1 + i].extra = read
      BY <1>4, <1>6, <3>3 DEF InLine
    <3>. QED  BY <3>1, <3>2, <3>4
  <2>3. CASE i = 1 /\ s[2].extra = NoExtra
    <3>1. t[1].extra = s[1].extra
      BY <1>2, <2>1, <2>3
    <3>2. LastExtra(s, 1)
      <4>1. s[1].extra # NoExtra
        BY <1>6, <2>3, <3>1 DEF LastExtra
      <4>2. ASSUME NEW j \in 1 .. l, j > 1
            PROVE  s[j].extra = NoExtra
        <5>1. CASE j = 2
          BY <2>3, <5>1
        <5>2. CASE j # 2
          <6>1. j - 1 \in 2 .. l - 1 /\ 1 + (j - 1) = j /\ j - 1 \in 1 .. Len(t) /\ j - 1 > 1
            BY <1>1, <1>2, <4>2, <5>2
          <6>2. t[j - 1].extra = NoExtra
            BY <1>6, <2>3, <6>1 DEF LastExtra
          <6>3. t[j - 1].extra = s[1 + (j - 1)].extra
            BY <1>2, <6>1
          <6>. QED  BY <6>1, <6>2, <6>3
        <5>. QED  BY <5>1, <5>2
      <4>3. 1 \in 1 .. l
        BY <1>1
      <4>. QED  BY <4>1, <4>2, <4>3 DEF LastExtra
    <3>. QED  BY <1>4, <1>6, <2>3, <3>1, <3>2 DEF InLine
  <2>. QED  BY <2>2, <2>3
<1>7. ASSUME read # NoExtra, WithoutExtra(t)
      PROVE  read = IF r.mDropedExtra # NoExtra THEN r.mDropedExtra ELSE out
  <2>1. \A j \in 2 .. l : s[j].extra = NoExtra
    <3> SUFFICES ASSUME NEW j \in 2 .. l
                 PROVE  s[j].extra = NoExtra
      OBVIOUS
    <3>1. j - 1 \in 1 .. Len(t) /\ 1 + (j - 1) = j /\ l > 1
      BY <1>1, <1>2
    <3>2. t[j - 1].extra = NoExtra
      BY <1>7, <3>1 DEF WithoutExtra
    <3>3. CASE j = 2
      <4>1. t[1].extra = NoExtra
        BY <3>2, <3>3
      <4>. QED  BY <1>2, <3>1, <3>3, <4>1
    <3>4. CASE j # 2
      <4>1. j - 1 \in 2 .. l - 1
        BY <1>1, <3>4
      <4>. QED  BY <1>2, <3>1, <3>2, <4>1
    <3>. QED  BY <3>3, <3>4
  <2>2. CASE s[1].extra = NoExtra
    <3>1. WithoutExtra(s)
      <4> SUFFICES ASSUME NEW j \in 1 .. l
                   PROVE  s[j].extra = NoExtra
        BY DEF WithoutExtra
      <4>1. j # 1 => j \in 2 .. l
        BY <1>1
      <4>. QED  BY <2>1, <2>2, <4>1
    <3>2. read = out
      BY <1>4, <1>7, <3>1 DEF InLine
    <3>3. r.mDropedExtra = NoExtra
      BY <1>1, <1>2, <2>2
    <3>. QED  BY <3>2, <3>3
  <2>3. CASE s[1].extra # NoExtra
    <3>1. LastExtra(s, 1)
      <4>1. 1 \in 1 .. l /\ \A j \in 1 .. l : j > 1 => j \in 2 .. l
        BY <1>1
      <4>. QED  BY <2>1, <2>3, <4>1 DEF LastExtra
    <3>2. s[1].extra = read
      BY <1>4, <1>7, <3>1 DEF InLine
    <3>3. l = 1
      <4> SUFFICES ASSUME l > 1
                   PROVE  FALSE
        BY <1>1, Zenon
      <4>1. t[1].extra = s[1].extra
        BY <1>1, <1>2, <2>1
      <4>2. 1 \in 1 .. Len(t)
        BY <1>1, <1>2
      <4>. QED  BY <1>7, <2>3, <4>1, <4>2 DEF WithoutExtra
    <3>. QED  BY <1>2, <2>3, <3>2, <3>3
  <2>. QED  BY <2>2, <2>3
<1>. QED  BY <1>5, <1>6, <1>7, Zenon DEF InLine, t

LEMMA InLineTaken ==
  ASSUME NEW s \in Seq(Packet), NEW t \in Seq(Packet), NEW dropped, NEW read, NEW out, NEW handed,
         Len(s) >= 1, Len(t) = Len(s) - 1, \A i \in 1 .. Len(s) - 1 : t[i] = s[1 + i],
         handed = IF s[1].extra = NoExtra THEN out ELSE s[1].extra,
         InLine(s, dropped, read, out)
  PROVE  InLine(t, dropped, read, handed)
<1> DEFINE l == Len(s)
<1>1. l \in Nat /\ dropped = NoExtra
  BY DEF InLine
<1>2. ASSUME read # NoExtra, NEW i, LastExtra(t, i)
      PROVE  t[i].extra = read
  <2>1. i \in 1 .. Len(t) /\ i \in 1 .. l - 1
    BY <1>1, <1>2 DEF LastExtra
  <2>2. \A j \in i .. Len(t) : t[j].extra = s[1 + j].extra
    <3>1. \A j \in i .. Len(t) : j \in 1 .. l - 1
      BY <1>1, <2>1
    <3>. QED  BY <3>1
  <2>3. LastExtra(s, 1 + i)
    BY <1>2, <2>1, <2>2, LastOfRest
  <2>4. s[1 + i].extra = read
    BY <1>2, <2>3 DEF InLine
  <2>. QED  BY <2>1, <2>4
<1>3. ASSUME read # NoExtra, WithoutExtra(t)
      PROVE  read = handed
  <2>1. \A j \in 2 .. l : s[j].extra = NoExtra
    <3> SUFFICES ASSUME NEW j \in 2 .. l
                 PROVE  s[j].extra = NoExtra
      OBVIOUS
    <3>1. j - 1 \in 1 .. Len(t) /\ j - 1 \in 1 .. l - 1 /\ 1 + (j - 1) = j
      BY <1>1
    <3>2. t[j - 1].extra = NoExtra /\ t[j - 1] = s[1 + (j - 1)]
      BY <1>3, <3>1 DEF WithoutExtra
    <3>. QED  BY <3>1, <3>2
  <2>2. 1 \in 1 .. l /\ \A j \in 1 .. l : j # 1 => j \in 2 .. l /\ (j > 1)
    BY <1>1
  <2>3. CASE s[1].extra = NoExtra
    <3>1. WithoutExtra(s)
      BY <2>1, <2>2, <2>3 DEF WithoutExtra
    <3>. QED  BY <1>1, <1>3, <2>3, <3>1 DEF InLine
  <2>4. CASE s[1].extra # NoExtra
    <3>1. LastExtra(s, 1)
      BY <2>1, <2>2, <2>4 DEF LastExtra
    <3>. QED  BY <1>3, <2>4, <3>1 DEF InLine
  <2>. QED  BY <2>3, <2>4
<1>. QED  BY <1>1, <1>2, <1>3 DEF InLine

(* One packet more, which takes the extra data that was dropped if it has  *)
(* none.                                                                   *)
LEMMA InLineAdded ==
  ASSUME NEW s \in Seq(Packet), NEW t \in Seq(Packet), NEW dropped, NEW read, NEW out,
         NEW own, NEW readNow,
         Len(t) = Len(s) + 1, \A i \in 1 .. Len(s) : t[i] = s[i],
         t[Len(s) + 1].extra = IF own = NoExtra THEN dropped ELSE own,
         readNow = IF own = NoExtra THEN read ELSE own,
         InLine(s, dropped, read, out)
  PROVE  InLine(t, NoExtra, readNow, out)
<1> DEFINE l == Len(s)
<1>1. l \in Nat /\ l + 1 \in 1 .. l + 1 /\ \A j \in 1 .. l + 1 : j # l + 1 => j \in 1 .. l
  OBVIOUS
<1>2. ASSUME readNow # NoExtra, NEW i, LastExtra(t, i)
      PROVE  t[i].extra = readNow
  <2>1. i \in 1 .. l + 1
    BY <1>2 DEF LastExtra
  <2>2. CASE i = l + 1
    <3>1. CASE own # NoExtra
      BY <2>2, <3>1
    <3>2. CASE own = NoExtra
      <4>1. dropped # NoExtra /\ t[i].extra = dropped /\ readNow = read
        BY <1>2, <2>2, <3>2 DEF LastExtra
      <4>2. WithoutExtra(s)
        <5>1. Len(s) = 0
          BY <4>1 DEF InLine
        <5>. QED  BY <5>1 DEF WithoutExtra
      <4>. QED  BY <1>2, <4>1, <4>2 DEF InLine
    <3>. QED  BY <3>1, <3>2
  <2>3. CASE i # l + 1
    <3>1. i \in 1 .. l /\ l + 1 > i
      BY <1>1, <2>1, <2>3
    <3>2. t[l + 1].extra = NoExtra
      BY <1>1, <1>2, <3>1 DEF LastExtra
    <3>3. own = NoExtra
      BY <3>2
    <3>4. LastExtra(s, i)
      <4>1. \A j \in 1 .. l : j \in 1 .. Len(t)
        BY <1>1
      <4>. QED  BY <1>2, <3>1, <4>1 DEF LastExtra
    <3>. QED  BY <1>2, <3>1, <3>3, <3>4 DEF InLine
  <2>. QED  BY <2>2, <2>3
<1>3. ASSUME readNow # NoExtra, WithoutExtra(t)
      PROVE  readNow = out
  <2>1. t[l + 1].extra = NoExtra
    BY <1>1, <1>3 DEF WithoutExtra
  <2>2. own = NoExtra /\ dropped = NoExtra
    BY <2>1
  <2>3. WithoutExtra(s)
    <3>1. \A j \in 1 .. l : j \in 1 .. Len(t)
      BY <1>1
    <3>. QED  BY <1>3, <3>1 DEF WithoutExtra
  <2>. QED  BY <1>3, <2>2, <2>3 DEF InLine
<1>. QED  BY <1>2, <1>3 DEF InLine

-----------------------------------------------------------------------------
(* What every operation leaves of a sound queue                            *)

KeepsExtra(r, q) == \A read, out : ExtraInLine(q, read, out) => ExtraInLine(r, read, out)

(* Less at the front, or the cursor elsewhere.                             *)
LeftOf(r, q) ==
    /\ Sound(r) /\ EndOf(r, q) /\ KeepsExtra(r, q)
    /\ r.mMAXBackwardDuration = q.mMAXBackwardDuration

LEMMA LeftOfSelf == ASSUME NEW q, Sound(q)  PROVE LeftOf(q, q)
BY EndOfSame DEF LeftOf, KeepsExtra, Sound, Tallied, Alike

LEMMA LeftOfLeft ==
  ASSUME NEW q, NEW r, NEW t, Sound(q), LeftOf(r, q), LeftOf(t, r)
  PROVE  LeftOf(t, q)
<1>1. EndOf(t, q)
  BY EndOfEnd DEF LeftOf, Sound, Tallied
<1>2. KeepsExtra(t, q)
  BY DEF LeftOf, KeepsExtra
<1>. QED  BY <1>1, <1>2 DEF LeftOf

LEMMA LeftPopped ==
  ASSUME NEW q, Sound(q), ~ AtEnd(q)
  PROVE  LeftOf(PopFrontPacket(q), q)
<1> DEFINE r == PopFrontPacket(q)
<1>1. /\ Sound(r) /\ EndOf(r, q) /\ r.mMAXBackwardDuration = q.mMAXBackwardDuration
      /\ q.mMAXBackwardDuration = 0 => ExtraPassed(r, q)
  BY PoppedSound
<1> HIDE DEF r
<1>2. ASSUME NEW read, NEW out, ExtraInLine(q, read, out)
      PROVE  ExtraInLine(r, read, out)
  <2>1. Placed(q) /\ Placed(r)
    BY <1>1 DEF Sound, Tallied
  <2> SUFFICES ASSUME r.mMAXBackwardDuration = 0
               PROVE  InLine(r.mQueue, r.mDropedExtra, read, out)
    BY <2>1, ExtraIsInLine
  <2>2. InLine(q.mQueue, q.mDropedExtra, read, out) /\ ExtraPassed(r, q)
    BY <1>1, <1>2, <2>1, ExtraIsInLine
  <2>3. Len(q.mQueue) >= 1 /\ q.mQueue \in Seq(Packet) /\ r.mQueue \in Seq(Packet)
    BY <2>1, PlacedTypes DEF AtEnd
  <2>. QED  BY <2>2, <2>3, InLinePopped
<1>. QED  BY <1>1, <1>2 DEF LeftOf, KeepsExtra, r

LEMMA LeftCleared ==
  ASSUME NEW q, Sound(q), NEW pos
  PROVE  /\ LeftOf(ClearPacketBeforeTimePos(q, pos), q)
         /\ \E m : /\ LateUpTo(q, pos, m)
                   /\ Rest(ClearPacketBeforeTimePos(q, pos)) = Rest(q) - m
<1>1. PICK f, m : Pops(f, q, m) /\ LateUpTo(q, pos, m) /\ ClearPacketBeforeTimePos(q, pos) = f[m]
  BY ClearIsPops
<1>2. m \in Nat /\ m <= Rest(q) /\ m \in 0 .. m /\ Rest(q) \in Nat
  <2>1. m \in Nat /\ m <= Rest(q)
    BY <1>1 DEF LateUpTo
  <2>. QED  BY <2>1, PlacedTypes DEF Rest, Sound, Tallied
<1>3. \A n \in 0 .. m : PopsTo(f[n], q, n)
  BY <1>1, <1>2, PopsKeep
<1> DEFINE T == {n \in 0 .. m : LeftOf(f[n], q)}
<1>4. 0 \in T
  BY <1>1, <1>2, LeftOfSelf DEF Pops
<1>5. ASSUME NEW n \in 1 .. m, n - 1 \in T
      PROVE  n \in T
  <2> DEFINE a == f[n - 1]
             r == f[n]
  <2>1. LeftOf(a, q) /\ r = PopFrontPacket(a) /\ PopsTo(a, q, n - 1)
    <3>1. n - 1 \in 0 .. m
      BY <1>2
    <3>. QED  BY <1>1, <1>3, <1>5, <3>1 DEF Pops
  <2> HIDE DEF a, r
  <2>2. Sound(a) /\ ~ AtEnd(a)
    <3>1. Rest(a) = Rest(q) - (n - 1) /\ Placed(a) /\ Sound(a)
      BY <2>1 DEF PopsTo, Sound, Tallied
    <3>2. Len(a.mQueue) \in Nat /\ a.mCurrent \in Nat
      BY <3>1, PlacedTypes
    <3>3. Rest(a) >= 1
      BY <1>2, <3>1
    <3>. QED  BY <3>1, <3>2, <3>3 DEF Rest, AtEnd
  <2>3. LeftOf(r, a)
    BY <2>1, <2>2, LeftPopped
  <2>4. LeftOf(r, q)
    BY <2>1, <2>3, LeftOfLeft
  <2>. QED  BY <2>4 DEF r
<1> HIDE DEF T
<1>6. m \in T
  <2>1. \A n \in 1 .. m : n - 1 \in T => n \in T
    BY <1>5
  <2>. QED  BY <1>2, <1>4, <2>1, UpTo
<1>7. LeftOf(f[m], q) /\ Rest(f[m]) = Rest(q) - m
  BY <1>2, <1>3, <1>6 DEF T, PopsTo
<1>. QED  BY <1>1, <1>7

(* Only the counters and the cursor change.                                *)
LEMMA LeftRewound ==
  ASSUME NEW q, Sound(q)
  PROVE  /\ LeftOf(Rewind(q), q)
         /\ Rewind(q).mQueue = q.mQueue /\ Rewind(q).mCurrent = 1
<1> DEFINE r == Rewind(q)
           d == q.mTotalDuration
<1>1. /\ Placed(q) /\ q \in QueueOf(Seq(Packet), Int) /\ d = Total(q) /\ Total(q) \in Nat
      /\ q.mQueue \in Seq(Packet)
  BY PlacedTypes DEF Sound, Tallied, Placed
<1>2. /\ r.mQueue = q.mQueue /\ r.mCurrent = 1 /\ r.mDuration = d /\ r.mTotalDuration = d
      /\ r.mMAXBackwardDuration = q.mMAXBackwardDuration /\ r.mDropedExtra = q.mDropedExtra
  BY <1>1 DEF Rewind, QueueOf
<1>3. Placed(r)
  <2> DEFINE S == Seq(Packet)
             n == 1
  <2>1. r \in QueueOf(S, Int)
    <3>1. q \in QueueOf(S, Int) /\ d \in Int /\ n \in Nat
      BY <1>1
    <3> HIDE DEF S, d, n
    <3>2. [q EXCEPT !.mCurrent = n, !.mDuration = d] \in QueueOf(S, Int)
      BY <3>1, Zenon DEF QueueOf
    <3>. QED  BY <3>2 DEF Rewind, n, d
  <2> HIDE DEF r
  <2>2. 1 \in 1 .. Len(r.mQueue) + 1
    BY <1>1, <1>2
  <2>. QED  BY <1>2, <2>1, <2>2 DEF Placed
<1> HIDE DEF r
<1>4. Sound(r)
  <2>1. Total(r) = Total(q)
    BY <1>2 DEF Total
  <2>2. Behind(r) = 0
    <3>1. r.mCurrent - 1 = 0
      BY <1>2
    <3>. QED  BY <1>1, <1>2, <3>1, SumsOf DEF Behind
  <2>. QED  BY <1>1, <1>2, <1>3, <2>1, <2>2 DEF Sound, Tallied
<1>5. EndOf(r, q)
  BY <1>1, <1>2, <1>3, EndOfSame DEF Alike
<1>6. KeepsExtra(r, q)
  BY <1>2, Zenon DEF KeepsExtra, ExtraInLine
<1>. QED  BY <1>2, <1>4, <1>5, <1>6 DEF LeftOf, r

LEMMA LeftTimed ==
  ASSUME NEW q, Sound(q), NEW duration \in Nat
  PROVE  LeftOf(SetOnePacketDuration(q, duration), q)
<1> DEFINE r == SetOnePacketDuration(q, duration)
           s == q.mQueue
           c == q.mCurrent
           l == Len(s)
           t == [i \in DOMAIN q.mQueue |->
                    IF q.mQueue[i].duration > 0 THEN q.mQueue[i]
                    ELSE [q.mQueue[i] EXCEPT !.duration = duration]]
<1>1. /\ Placed(q) /\ q \in QueueOf(Seq(Packet), Int)
      /\ s \in Seq(Packet) /\ l \in Nat /\ c \in Nat /\ 1 <= c /\ c - 1 <= l /\ c - 1 \in Nat
      /\ Total(q) \in Nat /\ Behind(q) \in Nat
  BY PlacedTypes DEF Sound, Tallied, Placed
<1>2. /\ t \in Seq(Packet) /\ Len(t) = l
      /\ \A i \in 1 .. l : Alike(t[i], s[i])
                           /\ t[i].extra = s[i].extra
  <2>1. ASSUME NEW i \in 1 .. l
        PROVE  t[i] \in Packet /\ Alike(t[i], s[i]) /\ t[i].extra = s[i].extra
    <3> DEFINE p == s[i]
    <3>1. p \in Packet /\ i \in DOMAIN q.mQueue
      BY <1>1
    <3>2. t[i] = IF p.duration > 0 THEN p ELSE [p EXCEPT !.duration = duration]
      BY <3>1
    <3> HIDE DEF p, t
    <3>. QED  BY <3>1, <3>2 DEF Packet, Alike, p
  <2>2. t \in [1 .. l -> Packet]
    <3>1. DOMAIN q.mQueue = 1 .. l
      BY <1>1
    <3> HIDE DEF l
    <3>2. \A i \in 1 .. l : t[i] \in Packet
      BY <2>1
    <3>. QED  BY <3>1, <3>2
  <2> HIDE DEF t
  <2>3. t \in Seq(Packet) /\ Len(t) = l
    BY <1>1, <2>2
  <2>. QED  BY <2>1, <2>3
<1> HIDE DEF t
<1>3. CASE q.mPacketDuration > 0
  <2>1. r = q
    BY <1>3 DEF SetOnePacketDuration
  <2>. QED  BY <2>1, LeftOfSelf
<1>4. CASE ~ (q.mPacketDuration > 0)
  <2> DEFINE Missed(from) == CountedIn(SubSeq(t, from, Len(t))) - CountedIn(SubSeq(s, from, Len(t)))
             d == q.mDuration + Missed(c)
             e == q.mTotalDuration + Missed(1)
  <2>1. r = [q EXCEPT !.mQueue = t, !.mPacketDuration = duration,
                      !.mDuration = d, !.mTotalDuration = e]
    BY <1>4, Zenon DEF SetOnePacketDuration, t
  <2>2. \A n \in 0 .. l : /\ Sums(t)[n] \in Nat /\ Sums(s)[n] \in Nat
                          /\ Missed(n + 1) = (Sums(t)[l] - Sums(t)[n]) - (Sums(s)[l] - Sums(s)[n])
    <3> SUFFICES ASSUME NEW n \in 0 .. l
                 PROVE  /\ Sums(t)[n] \in Nat /\ Sums(s)[n] \in Nat
                        /\ Missed(n + 1) = (Sums(t)[l] - Sums(t)[n]) - (Sums(s)[l] - Sums(s)[n])
      OBVIOUS
    <3>2. n \in Nat /\ n <= l /\ l <= Len(t) /\ l <= Len(s)
      BY <1>1, <1>2
    <3>3. /\ CountedIn(SubSeq(t, n + 1, l)) = Sums(t)[l] - Sums(t)[n]
          /\ CountedIn(SubSeq(s, n + 1, l)) = Sums(s)[l] - Sums(s)[n]
      <4> HIDE DEF l, s
      <4>. QED  BY <1>1, <1>2, <3>2, CountedPart, Zenon
    <3>4. Sums(t)[n] \in Nat /\ Sums(s)[n] \in Nat
      BY <1>1, <1>2, SumsOf
    <3>. QED  BY <1>2, <3>3, <3>4, Zenon
  <2>3. /\ Sums(t)[l] \in Nat /\ Sums(s)[l] \in Nat /\ Sums(t)[c - 1] \in Nat /\ Sums(s)[c - 1] \in Nat
        /\ Sums(t)[0] = 0 /\ Sums(s)[0] = 0
        /\ Missed(c) = (Sums(t)[l] - Sums(t)[c - 1]) - (Sums(s)[l] - Sums(s)[c - 1])
        /\ Missed(1) = (Sums(t)[l] - Sums(t)[0]) - (Sums(s)[l] - Sums(s)[0])
    <3>1. c - 1 \in 0 .. l /\ (c - 1) + 1 = c /\ 0 \in 0 .. l /\ 0 + 1 = 1 /\ l \in 0 .. l
      BY <1>1
    <3>2. Sums(t)[0] = 0 /\ Sums(s)[0] = 0
      BY <1>1, <1>2, SumsOf
    <3> HIDE DEF Missed, l, c, s
    <3>. QED  BY <2>2, <3>1, <3>2, Zenon
  <2>4. Missed(c) \in Int /\ Missed(1) \in Int
    <3> HIDE DEF Missed
    <3>. QED  BY <2>3
  <2>5. d = Sums(t)[l] - Sums(t)[c - 1] /\ e = Sums(t)[l] /\ d \in Int /\ e \in Int
    <3>1. q.mDuration = Sums(s)[l] - Sums(s)[c - 1] /\ q.mTotalDuration = Sums(s)[l]
      BY Zenon DEF Sound, Tallied, Total, Behind
    <3> DEFINE tl == Sums(t)[l]
               tc == Sums(t)[c - 1]
               sl == Sums(s)[l]
               sc == Sums(s)[c - 1]
               mc == Missed(c)
               m1 == Missed(1)
    <3>2. /\ tl \in Nat /\ sl \in Nat /\ tc \in Nat /\ sc \in Nat
          /\ mc = (tl - tc) - (sl - sc) /\ m1 = (tl - 0) - (sl - 0)
          /\ q.mDuration = sl - sc /\ q.mTotalDuration = sl
      BY <2>3, <3>1, Zenon
    <3> HIDE DEF tl, tc, sl, sc, mc, m1
    <3>3. q.mDuration + mc = tl - tc /\ q.mTotalDuration + m1 = tl
      BY <3>2
    <3>. QED  BY <3>2, <3>3 DEF tl, tc, mc, m1
  <2> HIDE DEF d, e
  <2>6. /\ r.mQueue = t /\ r.mCurrent = c /\ r.mDuration = d /\ r.mTotalDuration = e
        /\ r.mMAXBackwardDuration = q.mMAXBackwardDuration /\ r.mDropedExtra = q.mDropedExtra
    BY <1>1, <2>1 DEF QueueOf
  <2>7. Placed(r)
    <3> DEFINE S == Seq(Packet)
    <3>1. r \in QueueOf(S, Int)
      <4>1. q \in QueueOf(S, Int) /\ t \in S /\ d \in Int /\ e \in Int /\ duration \in Nat
        BY <1>1, <1>2, <2>5
      <4> HIDE DEF S
      <4>. QED  BY <2>1, <4>1, Zenon DEF QueueOf
    <3> HIDE DEF r
    <3>. QED  BY <1>1, <1>2, <2>6, <3>1 DEF Placed
  <2> HIDE DEF r
  <2>8. Sound(r)
    <3>1. Total(r) = Sums(t)[l] /\ Behind(r) = Sums(t)[c - 1]
      BY <1>2, <2>6 DEF Total, Behind
    <3>. QED  BY <2>5, <2>6, <2>7, <3>1, Zenon DEF Sound, Tallied
  <2>9. EndOf(r, q)
    <3>1. Len(r.mQueue) = Len(q.mQueue) /\ \A i \in 1 .. Len(q.mQueue) : Alike(r.mQueue[i], q.mQueue[i])
      BY <1>2, <2>6 DEF Alike
    <3>. QED  BY <1>1, <2>7, <3>1, EndOfSame
  <2>10. KeepsExtra(r, q)
    <3> SUFFICES ASSUME NEW read, NEW out, ExtraInLine(q, read, out)
                 PROVE  ExtraInLine(r, read, out)
      BY DEF KeepsExtra
    <3> SUFFICES ASSUME r.mMAXBackwardDuration = 0
                 PROVE  InLine(t, q.mDropedExtra, read, out)
      BY <2>6, <2>7, ExtraIsInLine
    <3>1. InLine(s, q.mDropedExtra, read, out)
      BY <1>1, <2>6, ExtraIsInLine
    <3>2. \A i : LastExtra(t, i) => LastExtra(s, i) /\ t[i].extra = s[i].extra
      BY <1>2 DEF LastExtra
    <3>3. WithoutExtra(t) => WithoutExtra(s)
      BY <1>2 DEF WithoutExtra
    <3>. QED  BY <1>2, <3>1, <3>2, <3>3 DEF InLine
  <2>. QED  BY <2>6, <2>8, <2>9, <2>10 DEF LeftOf, r
<1>. QED  BY <1>3, <1>4

-----------------------------------------------------------------------------
(* A queue, its stream and the place the demuxer goes on from.             *)

Kept(q, packets, n, read, out) ==
    Sound(q) /\ Continues(q, packets, n) /\ ExtraInLine(q, read, out)

LEMMA KeptLeft ==
  ASSUME NEW q, NEW r, NEW packets, NEW n \in Nat, NEW read, NEW out,
         Kept(q, packets, n, read, out), LeftOf(r, q)
  PROVE  Kept(r, packets, n, read, out)
<1>1. Continues(r, packets, n)
  BY EndContinues DEF Kept, LeftOf, Sound, Tallied
<1>. QED  BY <1>1 DEF Kept, LeftOf, KeepsExtra

LEMMA KeptTaken ==
  ASSUME NEW q, NEW packets, NEW n \in Nat, NEW read, NEW out, NEW handed,
         Kept(q, packets, n, read, out), ~ AtEnd(q),
         handed = IF PacketTaken(q).extra = NoExtra THEN out ELSE PacketTaken(q).extra
  PROVE  Kept(Taken(q), packets, n, read, handed)
<1> DEFINE r == Taken(q)
<1>1. /\ Sound(r) /\ EndOf(r, q)
      /\ r.mMAXBackwardDuration = q.mMAXBackwardDuration
      /\ r.mDropedExtra = q.mDropedExtra
      /\ q.mMAXBackwardDuration = 0 =>
            /\ PacketTaken(q) = q.mQueue[1]
            /\ Len(r.mQueue) = Len(q.mQueue) - 1
            /\ \A i \in 1 .. Len(q.mQueue) - 1 : r.mQueue[i] = q.mQueue[1 + i]
  BY TakenSound DEF Kept
<1> HIDE DEF r
<1>2. Placed(q) /\ Placed(r)
  BY <1>1 DEF Kept, Sound, Tallied
<1>3. Continues(r, packets, n)
  BY <1>1, <1>2, EndContinues DEF Kept
<1>4. ExtraInLine(r, read, handed)
  <2> SUFFICES ASSUME r.mMAXBackwardDuration = 0
               PROVE  InLine(r.mQueue, r.mDropedExtra, read, handed)
    BY <1>2, ExtraIsInLine
  <2>1. InLine(q.mQueue, q.mDropedExtra, read, out)
    BY <1>1, <1>2, ExtraIsInLine DEF Kept
  <2>2. q.mQueue \in Seq(Packet) /\ r.mQueue \in Seq(Packet) /\ Len(q.mQueue) >= 1
    BY <1>2, PlacedTypes DEF AtEnd
  <2>3. handed = IF q.mQueue[1].extra = NoExtra THEN out ELSE q.mQueue[1].extra
    BY <1>1
  <2>. QED  BY <1>1, <2>1, <2>2, <2>3, InLineTaken
<1>. QED  BY <1>1, <1>3, <1>4 DEF Kept, r

LEMMA KeptAdded ==
  ASSUME NEW q, NEW packets, NEW n \in DOMAIN packets, NEW read, NEW out, NEW readNow,
         NEW p \in Packet, Alike(p, packets[n]),
         packets \in Seq(Packet), Kept(q, packets, n, read, out),
         readNow = IF p.extra = NoExtra THEN read ELSE p.extra
  PROVE  Kept(AddPacket(q, p), packets, n + 1, readNow, out)
<1> DEFINE s == q.mQueue
           l == Len(s)
           new == Filled(q, p)
           t == Append(s, new)
           r == AddPacket(q, p)
<1>1. /\ Placed(q) /\ q \in QueueOf(Seq(Packet), Int) /\ Sound(q)
      /\ s \in Seq(Packet) /\ l \in Nat /\ q.mCurrent \in Nat /\ q.mCurrent \in 1 .. l + 1
      /\ p \in Packet /\ n \in Nat
  BY PlacedTypes DEF Kept, Sound, Tallied, Placed
<1>2. new \in Packet /\ Alike(new, p)
      /\ new.extra = IF p.extra = NoExtra THEN q.mDropedExtra ELSE p.extra
  <2>1. q.mPacketDuration \in Nat /\ q.mDropedExtra \in Nat
    BY <1>1 DEF QueueOf
  <2>. QED  BY <1>1, <2>1 DEF Filled, Packet, Alike
<1> DEFINE k == Counted(new)
           m == IF q.mPacketDuration = 0 THEN new.duration ELSE q.mPacketDuration
           d == q.mDuration + k
           e == q.mTotalDuration + k
<1>3. k \in Nat
  BY <1>2, CountedType
<1>4. m \in Nat /\ d \in Int /\ e \in Int
  <2>1. new.duration \in Nat /\ q.mPacketDuration \in Nat /\ q.mDuration \in Int /\ q.mTotalDuration \in Int
    BY <1>1, <1>2 DEF Packet, QueueOf
  <2> HIDE DEF new, k
  <2>. QED  BY <1>3, <2>1
<1>5. r = [q EXCEPT !.mQueue = t, !.mPacketDuration = m, !.mDuration = d, !.mTotalDuration = e,
                    !.mDropedExtra = NoExtra]
  BY Zenon DEF AddPacket
<1>6. /\ t \in Seq(Packet) /\ Len(t) = l + 1 /\ t[l + 1] = new /\ \A i \in 1 .. l : t[i] = s[i]
      /\ \A i \in 0 .. l : Sums(t)[i] = Sums(s)[i]
      /\ Sums(t)[l + 1] = Sums(s)[l] + k
  <2>1. t \in Seq(Packet) /\ Len(t) = l + 1 /\ t[l + 1] = new /\ \A i \in 1 .. l : t[i] = s[i]
    <3>1. s \in Seq(Packet) /\ new \in Packet
      BY <1>1, <1>2
    <3> HIDE DEF new, s
    <3>. QED  BY <3>1
  <2> HIDE DEF new, s
  <2>2. (\A i \in 0 .. l : Sums(t)[i] = Sums(s)[i]) /\ Sums(t)[l + 1] = Sums(s)[l] + k
    <3>1. s \in Seq(Packet) /\ new \in Packet /\ t = Append(s, new)
      BY <1>1, <1>2
    <3> HIDE DEF t
    <3>2. \A i \in 0 .. Len(s) : Sums(t)[i] = Sums(s)[i]
      BY <3>1, SumsOfAppend, ZenonT(60)
    <3>3. Sums(t)[Len(s) + 1] = Sums(s)[Len(s)] + Counted(new)
      BY <3>1, SumsOfAppend, ZenonT(60)
    <3>4. Counted(new) = k
      OBVIOUS
    <3>. QED  BY <3>2, <3>3, <3>4, Zenon
  <2>. QED  BY <2>1, <2>2
<1> HIDE DEF new, t, m, d, e, r
<1>7. /\ r.mQueue = t /\ r.mCurrent = q.mCurrent /\ r.mDuration = d /\ r.mTotalDuration = e
      /\ r.mMAXBackwardDuration = q.mMAXBackwardDuration /\ r.mDropedExtra = NoExtra
  BY <1>1, <1>5 DEF QueueOf
<1>8. Placed(r)
  <2> DEFINE S == Seq(Packet)
  <2>1. r \in QueueOf(S, Int)
    <3>1. q \in QueueOf(S, Int) /\ t \in S /\ NoExtra \in Nat
      BY <1>1, <1>6 DEF NoExtra
    <3> HIDE DEF S
    <3>. QED  BY <1>4, <1>5, <3>1, Zenon DEF QueueOf
  <2>. QED  BY <1>1, <1>6, <1>7, <2>1 DEF Placed
<1>9. Sound(r)
  <2>1. Total(r) = Total(q) + k /\ Behind(r) = Behind(q)
    <3>1. q.mCurrent - 1 \in 0 .. l
      BY <1>1
    <3>. QED  BY <1>6, <1>7, <3>1 DEF Total, Behind
  <2>2. /\ Total(q) \in Nat /\ Behind(q) \in Nat
        /\ q.mDuration = Total(q) - Behind(q) /\ q.mTotalDuration = Total(q)
    BY <1>1, PlacedTypes DEF Sound, Tallied
  <2> HIDE DEF k
  <2>3. d = Total(r) - Behind(r) /\ e = Total(r)
    BY <1>3, <2>1, <2>2 DEF d, e
  <2>. QED  BY <1>1, <1>7, <1>8, <2>3 DEF Sound, Tallied
<1>10. Continues(r, packets, n + 1)
  <2>1. \A i \in 1 .. l : /\ n - 1 - (l - i) \in DOMAIN packets
                          /\ Alike(s[i], packets[n - 1 - (l - i)])
    <3>1. DOMAIN s = 1 .. l
      BY <1>1
    <3>. QED  BY <3>1, Zenon DEF Kept, Continues
  <2> HIDE DEF l, s
  <2>2. \A i \in 1 .. l + 1 : /\ (n + 1) - 1 - ((l + 1) - i) \in DOMAIN packets
                              /\ Alike(t[i], packets[(n + 1) - 1 - ((l + 1) - i)])
    <3> SUFFICES ASSUME NEW i \in 1 .. l + 1
                 PROVE  /\ (n + 1) - 1 - ((l + 1) - i) \in DOMAIN packets
                        /\ Alike(t[i], packets[(n + 1) - 1 - ((l + 1) - i)])
      OBVIOUS
    <3>1. CASE i = l + 1
      <4>1. (n + 1) - 1 - ((l + 1) - i) = n
        BY <1>1, <3>1
      <4>. QED  BY <1>2, <1>6, <3>1, <4>1 DEF Alike
    <3>2. CASE i # l + 1
      <4>1. i \in 1 .. l /\ (n + 1) - 1 - ((l + 1) - i) = n - 1 - (l - i)
        BY <1>1, <3>2
      <4>. QED  BY <1>6, <2>1, <4>1
    <3>. QED  BY <3>1, <3>2
  <2>3. DOMAIN t = 1 .. l + 1
    BY <1>6
  <2>. QED  BY <1>6, <1>7, <2>2, <2>3, Zenon DEF Continues
<1>11. ExtraInLine(r, readNow, out)
  <2> SUFFICES ASSUME r.mMAXBackwardDuration = 0
               PROVE  InLine(t, NoExtra, readNow, out)
    BY <1>7, <1>8, ExtraIsInLine
  <2>1. InLine(s, q.mDropedExtra, read, out)
    BY <1>1, <1>7, ExtraIsInLine DEF Kept
  <2> DEFINE own == p.extra
             dropped == q.mDropedExtra
  <2>2. readNow = IF own = NoExtra THEN read ELSE own
    OBVIOUS
  <2>3. t[Len(s) + 1].extra = IF own = NoExtra THEN dropped ELSE own
    BY <1>2, <1>6
  <2> HIDE DEF s, own, dropped
  <2>4. s \in Seq(Packet) /\ Len(t) = Len(s) + 1 /\ t \in Seq(Packet) /\ \A i \in 1 .. Len(s) : t[i] = s[i]
    BY <1>1, <1>6
  <2>. QED  BY <2>1, <2>2, <2>3, <2>4, InLineAdded DEF dropped
<1>. QED  BY <1>9, <1>10, <1>11, Zenon DEF Kept, r

(* With a limit packets stay behind the cursor, and nothing is claimed of  *)
(* the extra data any more.                                                *)
LEMMA KeptLimited ==
  ASSUME NEW q, NEW packets, NEW n \in Nat, NEW read, NEW out, NEW duration \in Nat, duration # 0,
         Kept(q, packets, n, read, out)
  PROVE  Kept(SetMaxBackwardDuration(q, duration), packets, n, read, out)
<1> DEFINE r == SetMaxBackwardDuration(q, duration)
<1>1. /\ Placed(q) /\ q \in QueueOf(Seq(Packet), Int) /\ Tallied(q)
      /\ q.mCurrent \in 1 .. Len(q.mQueue) + 1
  BY DEF Kept, Sound, Tallied, Placed
<1>2. /\ r.mQueue = q.mQueue /\ r.mCurrent = q.mCurrent /\ r.mMAXBackwardDuration = duration
      /\ r.mDuration = q.mDuration /\ r.mTotalDuration = q.mTotalDuration
  BY <1>1 DEF SetMaxBackwardDuration, QueueOf
<1>3. Placed(r)
  <2> DEFINE S == Seq(Packet)
  <2>1. r \in QueueOf(S, Int)
    <3>1. q \in QueueOf(S, Int)
      BY <1>1
    <3> HIDE DEF S
    <3>. QED  BY <3>1, Zenon DEF QueueOf, SetMaxBackwardDuration
  <2> HIDE DEF r
  <2>. QED  BY <1>1, <1>2, <2>1 DEF Placed
<1> HIDE DEF r
<1>4. Sound(r)
  BY <1>1, <1>2, <1>3, Zenon DEF Sound, Tallied, Total, Behind
<1>5. Continues(r, packets, n)
  BY <1>2, Zenon DEF Kept, Continues
<1>6. ExtraInLine(r, read, out)
  BY <1>2 DEF ExtraInLine
<1>. QED  BY <1>4, <1>5, <1>6 DEF Kept, r

IsEmpty(q) ==
    /\ q \in QueueOf(Seq(Packet), Int)
    /\ q.mQueue = <<>> /\ q.mCurrent = 1 /\ q.mDuration = 0 /\ q.mTotalDuration = 0

LEMMA KeptEmpty ==
  ASSUME NEW packets, NEW n, NEW out, NEW q, IsEmpty(q)
  PROVE  Kept(q, packets, n, NoExtra, out)
<1>2. /\ q.mQueue = <<>> /\ q.mCurrent = 1 /\ q.mDuration = 0 /\ q.mTotalDuration = 0
      /\ q.mQueue \in Seq(Packet) /\ Len(q.mQueue) = 0
  BY DEF IsEmpty
<1>3. Placed(q)
  BY <1>2 DEF Placed, IsEmpty
<1>4. Sound(q)
  <2>1. q.mCurrent - 1 = 0
    BY <1>2
  <2>2. Sums(q.mQueue)[0] = 0
    <3>1. q.mQueue \in Seq(Packet)
      BY <1>2
    <3>. QED  BY <3>1, SumsOf, Zenon
  <2>3. Total(q) = 0 /\ Behind(q) = 0
    BY <1>2, <2>1, <2>2, Zenon DEF Total, Behind
  <2>. QED  BY <1>2, <1>3, <2>3 DEF Sound, Tallied
<1>5. Continues(q, packets, n)
  BY <1>2 DEF Continues
<1>6. ExtraInLine(q, NoExtra, out)
  BY <1>2 DEF ExtraInLine
<1>. QED  BY <1>4, <1>5, <1>6 DEF Kept

(* The first k packets of a queue, the cursor on one of them or behind.    *)
Cut(q, k) ==
    LET gone == CountedIn(SubSeq(q.mQueue, k + 1, Len(q.mQueue)))
    IN  [q EXCEPT !.mQueue = SubSeq(@, 1, k),
                  !.mDuration = @ - gone,
                  !.mTotalDuration = @ - gone]

LEMMA KeptCut ==
  ASSUME NEW q, NEW packets, NEW n \in Nat, NEW read, NEW out, NEW readNow, NEW k \in Nat,
         Kept(q, packets, n, read, out), q.mCurrent - 1 <= k, k < Len(q.mQueue),
         readNow = NoExtra \/ (/\ readNow = read
                               /\ \A i \in k + 1 .. Len(q.mQueue) : q.mQueue[i].extra = NoExtra)
  PROVE  Kept(Cut(q, k), packets, n - (Len(q.mQueue) - k), readNow, out)
<1> DEFINE s == q.mQueue
           l == Len(s)
           c == q.mCurrent
           gone == CountedIn(SubSeq(s, k + 1, l))
           d == q.mDuration - gone
           e == q.mTotalDuration - gone
           t == SubSeq(s, 1, k)
           r == Cut(q, k)
<1>1. /\ Placed(q) /\ q \in QueueOf(Seq(Packet), Int) /\ Sound(q)
      /\ s \in Seq(Packet) /\ l \in Nat /\ c \in Nat /\ 1 <= c /\ c - 1 <= k /\ k < l
      /\ Total(q) \in Nat /\ Behind(q) \in Nat
  BY PlacedTypes DEF Kept, Sound, Tallied, Placed
<1>2. /\ t \in Seq(Packet) /\ Len(t) = k /\ \A i \in 1 .. k : t[i] = s[i]
      /\ \A i \in 0 .. k : Sums(t)[i] = Sums(s)[i]
  <2>1. t \in Seq(Packet) /\ Len(t) = k /\ \A i \in 1 .. k : t[i] = s[i]
    BY <1>1
  <2> HIDE DEF t, s, l
  <2>2. k <= Len(s) /\ k <= Len(t) /\ \A i \in 1 .. k : Counted(s[i]) = Counted(t[i])
    BY <1>1, <2>1 DEF l
  <2>3. \A i \in 0 .. k : Sums(t)[i] = Sums(s)[i]
    BY <1>1, <2>1, <2>2, SumsOfPrefix
  <2>. QED  BY <2>1, <2>3
<1>3. gone = Sums(s)[l] - Sums(s)[k] /\ Sums(s)[l] \in Nat /\ Sums(s)[k] \in Nat
  <2>1. k <= l /\ l <= Len(s) /\ k \in 0 .. Len(s) /\ l \in 0 .. Len(s)
    BY <1>1
  <2>2. Sums(s)[l] \in Nat /\ Sums(s)[k] \in Nat
    BY <1>1, <2>1, SumsOf
  <2> HIDE DEF s, l
  <2>. QED  BY <1>1, <2>1, <2>2, CountedPart, Zenon
<1>4. r = [q EXCEPT !.mQueue = t, !.mDuration = d, !.mTotalDuration = e]
  BY Zenon DEF Cut
<1> HIDE DEF t, r
<1>5. d = Sums(s)[k] - Behind(q) /\ e = Sums(s)[k] /\ d \in Int /\ e \in Int
  <2> DEFINE x == Sums(s)[l]
             y == Sums(s)[k]
             b == Behind(q)
  <2>1. x \in Nat /\ y \in Nat /\ b \in Nat /\ gone = x - y
    BY <1>1, <1>3
  <2>2. q.mDuration = x - b /\ q.mTotalDuration = x
    BY <1>1 DEF Sound, Tallied, Total
  <2> HIDE DEF x, y, b, gone
  <2>3. d = y - b /\ e = y
    BY <2>1, <2>2
  <2>. QED  BY <2>1, <2>3 DEF y, b
<1> HIDE DEF d, e
<1>6. /\ r.mQueue = t /\ r.mCurrent = c /\ r.mDuration = d /\ r.mTotalDuration = e
      /\ r.mMAXBackwardDuration = q.mMAXBackwardDuration /\ r.mDropedExtra = q.mDropedExtra
  BY <1>1, <1>4 DEF QueueOf
<1>7. Placed(r)
  <2> DEFINE S == Seq(Packet)
  <2>1. r \in QueueOf(S, Int)
    <3>1. q \in QueueOf(S, Int) /\ t \in S
      BY <1>1, <1>2
    <3> HIDE DEF S
    <3>. QED  BY <1>4, <1>5, <3>1, Zenon DEF QueueOf
  <2>. QED  BY <1>1, <1>2, <1>6, <2>1 DEF Placed
<1>8. Sound(r)
  <2>1. c - 1 \in 0 .. k /\ k \in 0 .. k
    BY <1>1
  <2>2. Total(r) = Sums(s)[k] /\ Behind(r) = Behind(q)
    BY <1>2, <1>6, <2>1 DEF Total, Behind
  <2>. QED  BY <1>1, <1>5, <1>6, <1>7, <2>2, Zenon DEF Sound, Tallied
<1>9. Continues(r, packets, n - (l - k))
  <2>1. \A i \in 1 .. l : /\ n - 1 - (l - i) \in DOMAIN packets
                          /\ Alike(s[i], packets[n - 1 - (l - i)])
    <3>1. DOMAIN s = 1 .. l
      BY <1>1
    <3>. QED  BY <3>1, Zenon DEF Kept, Continues
  <2> HIDE DEF s, l
  <2>2. \A i \in 1 .. k : /\ (n - (l - k)) - 1 - (k - i) \in DOMAIN packets
                          /\ Alike(t[i], packets[(n - (l - k)) - 1 - (k - i)])
    <3> SUFFICES ASSUME NEW i \in 1 .. k
                 PROVE  /\ (n - (l - k)) - 1 - (k - i) \in DOMAIN packets
                        /\ Alike(t[i], packets[(n - (l - k)) - 1 - (k - i)])
      OBVIOUS
    <3>1. i \in 1 .. l /\ (n - (l - k)) - 1 - (k - i) = n - 1 - (l - i)
      BY <1>1
    <3>. QED  BY <1>2, <2>1, <3>1
  <2>3. DOMAIN t = 1 .. k
    BY <1>2
  <2>. QED  BY <1>2, <1>6, <2>2, <2>3, Zenon DEF Continues
<1>10. ExtraInLine(r, readNow, out)
  <2> SUFFICES ASSUME r.mMAXBackwardDuration = 0
               PROVE  InLine(t, q.mDropedExtra, readNow, out)
    BY <1>6, <1>7, ExtraIsInLine
  <2>1. InLine(s, q.mDropedExtra, read, out)
    BY <1>1, <1>6, ExtraIsInLine DEF Kept
  <2>2. q.mDropedExtra = NoExtra
    BY <1>1, <2>1 DEF InLine
  <2>3. CASE readNow = NoExtra
    BY <2>2, <2>3 DEF InLine
  <2>4. CASE readNow # NoExtra
    <3>1. readNow = read /\ \A i \in k + 1 .. l : s[i].extra = NoExtra
      BY <2>4
    <3> HIDE DEF s, l
    <3>2. \A i \in 1 .. l : i \in 1 .. k \/ i \in k + 1 .. l
      BY <1>1
    <3>3. \A i \in 1 .. k : i \in 1 .. l
      BY <1>1
    <3>4. \A i : LastExtra(t, i) => LastExtra(s, i) /\ t[i].extra = s[i].extra
      <4> SUFFICES ASSUME NEW i, LastExtra(t, i)
                   PROVE  LastExtra(s, i) /\ t[i].extra = s[i].extra
        OBVIOUS
      <4>1. i \in 1 .. k /\ t[i] = s[i] /\ t[i].extra # NoExtra
        BY <1>2 DEF LastExtra
      <4>2. \A j \in 1 .. l : j > i => s[j].extra = NoExtra
        BY <1>2, <3>1, <3>2 DEF LastExtra
      <4>. QED  BY <3>3, <4>1, <4>2 DEF LastExtra, l
    <3>5. WithoutExtra(t) => WithoutExtra(s)
      BY <1>2, <3>1, <3>2 DEF WithoutExtra, l
    <3>. QED  BY <2>1, <2>2, <2>4, <3>1, <3>4, <3>5 DEF InLine
  <2>. QED  BY <2>3, <2>4
<1>. QED  BY <1>8, <1>9, <1>10, Zenon DEF Kept, r

LEMMA EmptyIsEmpty == IsEmpty(EmptyQueue)
BY DEF IsEmpty, EmptyQueue, QueueOf, NoExtra

LEMMA KeptCleared ==
  ASSUME NEW q, Sound(q), NEW packets, NEW n, NEW out
  PROVE  Kept(ClearQueue(q), packets, n, NoExtra, out)
<1> DEFINE limit == q.mMAXBackwardDuration
           dropped == q.mDropedExtra
           S == Seq(Packet)
           r == [EmptyQueue EXCEPT !.mMAXBackwardDuration = limit, !.mDropedExtra = dropped]
<1>1. limit \in Nat /\ dropped \in Nat
  BY DEF Sound, Tallied, Placed, QueueOf
<1>2. ClearQueue(q) = r
  BY Zenon DEF ClearQueue
<1>3. EmptyQueue \in QueueOf(S, Int) /\ IsEmpty(EmptyQueue)
  BY EmptyIsEmpty DEF IsEmpty
<1> HIDE DEF limit, dropped, S
<1>4. r \in QueueOf(S, Int)
  BY <1>1, <1>3, Zenon DEF QueueOf
<1>5. /\ r.mQueue = EmptyQueue.mQueue /\ r.mCurrent = EmptyQueue.mCurrent
      /\ r.mDuration = EmptyQueue.mDuration /\ r.mTotalDuration = EmptyQueue.mTotalDuration
  BY <1>3 DEF QueueOf
<1> HIDE DEF r
<1>6. IsEmpty(r)
  BY <1>3, <1>4, <1>5, Zenon DEF IsEmpty, S
<1>. QED  BY <1>2, <1>6, KeptEmpty

(* Across a key or a seamless point the packets of a queue are in the      *)
(* order of their time position.                                           *)
LEMMA QueueInOrder ==
  ASSUME NEW q, NEW packets, NEW n \in Nat, Placed(q), Continues(q, packets, n), InOrder(packets),
         packets \in Seq(Packet)
  PROVE  \A i, j \in 1 .. Len(q.mQueue) :
            i < j /\ (Divides(q.mQueue[i]) \/ Divides(q.mQueue[j]))
                => q.mQueue[i].timePosition < q.mQueue[j].timePosition
<1> DEFINE l == Len(q.mQueue)
<1>1. l \in Nat /\ DOMAIN q.mQueue = 1 .. l
  BY PlacedTypes
<1>2. \A i \in 1 .. l : /\ n - 1 - (l - i) \in DOMAIN packets
                        /\ Alike(q.mQueue[i], packets[n - 1 - (l - i)])
  BY <1>1, Zenon DEF Continues
<1> HIDE DEF l
<1> SUFFICES ASSUME NEW i \in 1 .. l, NEW j \in 1 .. l, i < j,
                    Divides(q.mQueue[i]) \/ Divides(q.mQueue[j])
             PROVE  q.mQueue[i].timePosition < q.mQueue[j].timePosition
  BY DEF l
<1> DEFINE a == n - 1 - (l - i)
           b == n - 1 - (l - j)
<1>3. a < b
  BY <1>1
<1>5. /\ a \in DOMAIN packets /\ b \in DOMAIN packets
      /\ Alike(q.mQueue[i], packets[a]) /\ Alike(q.mQueue[j], packets[b])
  BY <1>2
<1> HIDE DEF a, b
<1>4. Divides(packets[a]) \/ Divides(packets[b])
  BY <1>5 DEF Alike, Divides
<1>. QED  BY <1>3, <1>4, <1>5 DEF InOrder, Alike

(* The packet of the stream at the place of a key or a seamless point.     *)
LEMMA PlaceOfPacket ==
  ASSUME NEW type \in Types, NEW n \in Nat, NEW q, Placed(q), NEW i \in 1 .. Len(q.mQueue),
         media[type] \in Seq(Packet), InOrder(media[type]), Continues(q, media[type], n),
         Divides(q.mQueue[i])
  PROVE  PacketAt(type, q.mQueue[i].timePosition) = n - 1 - (Len(q.mQueue) - i)
<1> DEFINE packets == media[type]
           l == Len(q.mQueue)
           j == n - 1 - (l - i)
           pos == q.mQueue[i].timePosition
           S == {k \in DOMAIN packets : packets[k].timePosition >= pos} \cup {Len(packets) + 1}
<1>1. l \in Nat /\ DOMAIN q.mQueue = 1 .. l
  BY PlacedTypes
<1>2. j \in DOMAIN packets /\ pos = packets[j].timePosition /\ Divides(packets[j])
  <2>1. j \in DOMAIN packets /\ Alike(q.mQueue[i], packets[j])
    BY <1>1, Zenon DEF Continues
  <2>. QED  BY <2>1 DEF Alike, Divides
<1>3. DOMAIN packets = 1 .. Len(packets) /\ Len(packets) \in Nat
  OBVIOUS
<1>4. pos \in Nat /\ \A k \in DOMAIN packets : packets[k].timePosition \in Nat
  <2>1. \A k \in DOMAIN packets : packets[k] \in Packet
    OBVIOUS
  <2>. QED  BY <1>2, <2>1 DEF Packet
<1>5. PacketAt(type, pos) = Min(S)
  BY Zenon DEF PacketAt
<1> HIDE DEF packets, l, j, pos
<1>6. j \in S /\ S \in SUBSET Nat
  BY <1>2, <1>3, <1>4
<1>7. Min(S) \in S /\ Min(S) <= j
  <2>1. S # {} /\ S \in SUBSET Nat /\ j \in S
    BY <1>6
  <2> HIDE DEF S
  <2>. QED  BY <2>1, MinOf
<1>8. Min(S) = j
  <2>1. Min(S) \in 1 .. Len(packets) /\ j \in 1 .. Len(packets)
    BY <1>2, <1>3, <1>7
  <2>2. packets[Min(S)].timePosition >= pos
    <3>1. Min(S) # Len(packets) + 1
      BY <1>3, <2>1
    <3>. QED  BY <1>7, <3>1
  <2> DEFINE k == Min(S)
  <2> HIDE DEF k, S
  <2>3. k \in 1 .. Len(packets) /\ k <= j /\ packets[k].timePosition >= packets[j].timePosition
    BY <1>2, <1>7, <2>1, <2>2 DEF k
  <2>4. InOrder(packets)
    BY DEF packets
  <2>5. ~ (k < j)
    <3> SUFFICES ASSUME k < j
                 PROVE  FALSE
      OBVIOUS
    <3>1. packets[k].timePosition < packets[j].timePosition
      <4>1. k \in DOMAIN packets /\ j \in DOMAIN packets /\ Divides(packets[j])
        BY <1>2, <1>3, <2>3
      <4>. QED  BY <2>4, <4>1 DEF InOrder
    <3>2. packets[k].timePosition \in Nat /\ packets[j].timePosition \in Nat
      BY <1>2, <1>3, <1>4, <2>3
    <3>. QED  BY <2>3, <3>1, <3>2
  <2>6. k = j
    BY <1>3, <2>1, <2>3, <2>5
  <2>. QED  BY <2>6 DEF k
<1>. QED  BY <1>5, <1>8 DEF l, j, pos

LEMMA PlaceIsInStream ==
  ASSUME NEW type \in Types, media[type] \in Seq(Packet), NEW pos
  PROVE  PacketAt(type, pos) \in 1 .. Len(media[type]) + 1
<1> DEFINE l == Len(media[type])
           S == {k \in DOMAIN media[type] : media[type][k].timePosition >= pos} \cup {l + 1}
<1>1. l \in Nat /\ S \in SUBSET (1 .. l + 1) /\ S # {}
  <2>1. l \in Nat /\ DOMAIN media[type] = 1 .. l
    OBVIOUS
  <2> HIDE DEF l
  <2>. QED  BY <2>1
<1>2. S \in SUBSET Nat
  BY <1>1
<1>3. PacketAt(type, pos) = Min(S)
  BY Zenon DEF PacketAt
<1> HIDE DEF S
<1>4. Min(S) \in S
  BY <1>1, <1>2, MinOf
<1>. QED  BY <1>1, <1>3, <1>4

(* Dropping from a key or a seamless point on, ahead of the cursor.        *)
LEMMA ClearIsCut ==
  ASSUME NEW q, NEW packets, NEW n \in Nat, Placed(q), Continues(q, packets, n), InOrder(packets),
         packets \in Seq(Packet), NEW i \in Ahead(q), i # q.mCurrent, Divides(q.mQueue[i])
  PROVE  ClearPacketAfterTimePosition(q, q.mQueue[i].timePosition) = Cut(q, i - 1)
<1> DEFINE pos == q.mQueue[i].timePosition
           found == {j \in Ahead(q) \ {q.mCurrent} : q.mQueue[j].timePosition = pos}
           last == IF found = {} THEN q.mCurrent ELSE Max(found) - 1
           l == Len(q.mQueue)
<1>1. l \in Nat /\ q.mCurrent \in Nat /\ 1 <= q.mCurrent
  BY PlacedTypes
<1>2. \A j, k \in 1 .. l :
        j < k /\ (Divides(q.mQueue[j]) \/ Divides(q.mQueue[k]))
            => q.mQueue[j].timePosition < q.mQueue[k].timePosition
  BY QueueInOrder
<1>3. Ahead(q) \subseteq 1 .. l
  BY <1>1 DEF Ahead
<1>4. \A j \in 1 .. l : q.mQueue[j].timePosition \in Nat
  <2>1. \A j \in 1 .. l : q.mQueue[j] \in Packet
    BY PlacedTypes
  <2>. QED  BY <2>1 DEF Packet
<1> HIDE DEF l
<1>5. found = {i}
  <2>1. ASSUME NEW j \in found
        PROVE  j = i
    <3>1. j \in 1 .. l /\ i \in 1 .. l /\ q.mQueue[j].timePosition = q.mQueue[i].timePosition
      BY <1>3
    <3>2. ~ (j < i) /\ ~ (i < j)
      BY <1>2, <1>4, <3>1
    <3>. QED  BY <1>1, <3>1, <3>2
  <2>2. i \in found
    OBVIOUS
  <2>. QED  BY <2>1, <2>2
<1>6. Max(found) = i
  <2>1. i \in Nat
    BY <1>1, <1>3
  <2>2. i >= i
    BY <2>1
  <2>. QED  BY <1>5, <2>2 DEF Max
<1>7. last = i - 1
  BY <1>5, <1>6
<1> HIDE DEF last
<1>8. ClearPacketAfterTimePosition(q, pos) =
        LET gone == CountedIn(SubSeq(q.mQueue, last + 1, Len(q.mQueue)))
        IN  [q EXCEPT !.mQueue = SubSeq(@, 1, last),
                      !.mDuration = @ - gone,
                      !.mTotalDuration = @ - gone]
  BY Zenon DEF ClearPacketAfterTimePosition, last
<1>. QED  BY <1>7, <1>8, Zenon DEF Cut

-----------------------------------------------------------------------------
(* The component                                                           *)

(* Every packet queue has its counters right, continues its stream without *)
(* a gap up to where the demuxer reads on, and keeps its extra data in     *)
(* line: what every operation preserves together.                          *)
IInv == TypeOK /\ DurationsMatch /\ CacheIsContiguous /\ ExtrasInLine /\ StreamsInOrder

AllKept == \A t \in Types : Kept(queue[t], stream[t], next[t], extraAdded[t], extraOut[t])

LEMMA MediaTypes ==
  ASSUME NEW m \in Media, NEW t \in Types
  PROVE  m[t] \in Seq(Packet) /\ InOrder(m[t]) /\ Len(m[t]) \in Nat /\ DOMAIN m[t] = 1 .. Len(m[t])
<1>1. m[t] \in Seq(Packet) /\ InOrder(m[t])
  BY MediaAssumption
<1>. QED  BY <1>1

LEMMA AllAreKept == ASSUME IInv  PROVE AllKept
<1> SUFFICES ASSUME NEW t \in Types
             PROVE  Kept(queue[t], stream[t], next[t], extraAdded[t], extraOut[t])
  BY DEF AllKept
<1>1. Placed(queue[t])
  <2>1. queue[t] \in Queue /\ queue[t].mCurrent \in 1 .. Len(queue[t].mQueue) + 1
    BY DEF IInv, TypeOK
  <2>2. Queue \subseteq QueueOf(Seq(Packet), Int)
    BY DEF Queue, QueueOf
  <2>. QED  BY <2>1, <2>2 DEF Placed
<1>2. Sound(queue[t])
  BY <1>1, SoundIsMatching DEF IInv, DurationsMatch
<1>. QED  BY <1>2 DEF IInv, CacheIsContiguous, ExtrasInLine, Kept

(* What the types of the other variables must be.                          *)
SeekOK ==
    /\ mCurrentPos \in Nat
    /\ mSoughtVideoPos \in Nat \cup {NoPosition}
    /\ mSeekFlag \in BOOLEAN /\ audioChanged \in BOOLEAN
    /\ catch \in Nat \cup {NoPosition}

ExtraOK == extraAdded \in [Types -> Nat] /\ extraOut \in [Types -> Nat]

(* The streams are in order, and nothing of the video is missing.          *)
StreamOK ==
    /\ media \in Media
    /\ stream \in [Types -> Seq(Packet)]
    /\ StreamsInOrder
    /\ stream["video"] = media["video"]
    /\ next \in [Types -> Nat]
    /\ \A t \in Types : next[t] \in 1 .. Len(stream[t]) + 1

OthersOK == StreamOK /\ ExtraOK /\ SeekOK

IsFcnOn(f, S) == f = [x \in S |-> f[x]]

LEMMA KeptIsRight ==
  ASSUME NEW q, NEW packets, NEW n, NEW read, NEW out, Kept(q, packets, n, read, out)
  PROVE  /\ q \in Queue /\ q.mCurrent \in 1 .. Len(q.mQueue) + 1
         /\ CountersMatch(q) /\ Continues(q, packets, n) /\ ExtraInLine(q, read, out)
BY SoundIsQueue, SoundIsMatching DEF Kept, Sound, Tallied, Placed

LEMMA ThenInvariant ==
  ASSUME OthersOK', IsFcnOn(queue', Types), AllKept'
  PROVE  IInv'
<1>1. ASSUME NEW t \in Types
      PROVE  /\ queue'[t] \in Queue /\ queue'[t].mCurrent \in 1 .. Len(queue'[t].mQueue) + 1
             /\ CountersMatch(queue'[t]) /\ Continues(queue'[t], stream'[t], next'[t])
             /\ ExtraInLine(queue'[t], extraAdded'[t], extraOut'[t])
  <2>1. Kept(queue'[t], stream'[t], next'[t], extraAdded'[t], extraOut'[t])
    BY DEF AllKept
  <2>. QED  BY <2>1, KeptIsRight
<1>2. queue' \in [Types -> Queue]
  BY <1>1, Zenon DEF IsFcnOn
<1>3. TypeOK'
  BY <1>1, <1>2, Zenon DEF TypeOK, OthersOK, StreamOK, ExtraOK, SeekOK
<1>4. StreamsInOrder' /\ stream'["video"] = media'["video"]
  BY DEF OthersOK, StreamOK
<1>. QED  BY <1>1, <1>3, <1>4, Zenon DEF IInv, DurationsMatch, CacheIsContiguous, ExtrasInLine

(* A player begins with empty queues, counters at 0 and nothing read.      *)
THEOREM InvariantInit == Init => IInv
<1> SUFFICES ASSUME Init
             PROVE  IInv
  OBVIOUS
<1>1. media \in Media /\ stream = media
  BY DEF Init
<1>2. \A t \in Types : stream[t] \in Seq(Packet) /\ InOrder(stream[t]) /\ Len(stream[t]) \in Nat
  BY <1>1, MediaTypes
<1>3. stream \in [Types -> Seq(Packet)] /\ StreamsInOrder
  BY <1>1, <1>2, MediaAssumption DEF StreamsInOrder
<1>4. /\ next \in [Types -> Nat] /\ extraAdded \in [Types -> Nat] /\ extraOut \in [Types -> Nat]
      /\ \A t \in Types : next[t] \in 1 .. Len(stream[t]) + 1 /\ extraAdded[t] = NoExtra
  BY <1>2 DEF Init, NoExtra
<1>5. ASSUME NEW t \in Types
      PROVE  Kept(queue[t], stream[t], next[t], NoExtra, extraOut[t])
  <2>1. queue[t] = EmptyQueue
    BY DEF Init
  <2>2. Kept(EmptyQueue, stream[t], next[t], NoExtra, extraOut[t])
    BY EmptyIsEmpty, KeptEmpty
  <2>. QED  BY <2>1, <2>2
<1>6. ASSUME NEW t \in Types
      PROVE  /\ queue[t] \in Queue /\ queue[t].mCurrent \in 1 .. Len(queue[t].mQueue) + 1
             /\ CountersMatch(queue[t]) /\ Continues(queue[t], stream[t], next[t])
             /\ ExtraInLine(queue[t], extraAdded[t], extraOut[t])
  <2>1. Kept(queue[t], stream[t], next[t], extraAdded[t], extraOut[t])
    BY <1>4, <1>5
  <2>. QED  BY <2>1, KeptIsRight
<1>7. queue \in [Types -> Queue]
  BY <1>6 DEF Init
<1>8. /\ mCurrentPos \in Nat /\ mSoughtVideoPos \in Nat \cup {NoPosition}
      /\ mSeekFlag \in BOOLEAN /\ audioChanged \in BOOLEAN /\ catch \in Nat \cup {NoPosition}
  BY DEF Init
<1>9. TypeOK
  BY <1>1, <1>3, <1>4, <1>6, <1>7, <1>8, Zenon DEF TypeOK
<1>. QED  BY <1>1, <1>3, <1>6, <1>9, Zenon DEF IInv, DurationsMatch, CacheIsContiguous, ExtrasInLine

-----------------------------------------------------------------------------
(* Every action keeps the invariant                                        *)

LEMMA InvariantFacts ==
  ASSUME IInv
  PROVE  /\ OthersOK /\ AllKept /\ queue \in [Types -> Queue]
         /\ stream["video"] = media["video"]
         /\ \A t \in Types :
               /\ Kept(queue[t], stream[t], next[t], extraAdded[t], extraOut[t])
               /\ Sound(queue[t]) /\ Placed(queue[t])
               /\ stream[t] \in Seq(Packet) /\ InOrder(stream[t]) /\ Len(stream[t]) \in Nat
               /\ DOMAIN stream[t] = 1 .. Len(stream[t])
               /\ media[t] \in Seq(Packet) /\ InOrder(media[t]) /\ Len(media[t]) \in Nat
               /\ next[t] \in Nat
<1>1. OthersOK /\ queue \in [Types -> Queue] /\ AllKept
  BY AllAreKept DEF IInv, TypeOK, CacheIsContiguous, OthersOK, StreamOK, ExtraOK, SeekOK
<1>2. ASSUME NEW t \in Types
      PROVE  /\ Kept(queue[t], stream[t], next[t], extraAdded[t], extraOut[t])
             /\ Sound(queue[t]) /\ Placed(queue[t])
             /\ stream[t] \in Seq(Packet) /\ InOrder(stream[t]) /\ Len(stream[t]) \in Nat
             /\ DOMAIN stream[t] = 1 .. Len(stream[t])
             /\ media[t] \in Seq(Packet) /\ InOrder(media[t]) /\ Len(media[t]) \in Nat
             /\ next[t] \in Nat
  <2>1. Kept(queue[t], stream[t], next[t], extraAdded[t], extraOut[t])
    BY <1>1 DEF AllKept
  <2>2. media \in Media /\ next[t] \in Nat /\ stream[t] \in Seq(Packet) /\ InOrder(stream[t])
    BY <1>1 DEF OthersOK, StreamOK, StreamsInOrder
  <2>3. Len(stream[t]) \in Nat /\ DOMAIN stream[t] = 1 .. Len(stream[t])
    BY <2>2
  <2>. QED  BY <2>1, <2>2, <2>3, MediaTypes DEF Kept, Sound, Tallied
<1>. QED  BY <1>1, <1>2 DEF OthersOK, StreamOK

(* Only queues change, and each is what was left of itself.                *)
LEMMA AllLeft ==
  ASSUME IInv, IsFcnOn(queue', Types), \A t \in Types : LeftOf(queue'[t], queue[t]),
         UNCHANGED <<media, stream, next, extraVars>>, SeekOK'
  PROVE  IInv'
<1>1. ASSUME NEW t \in Types
      PROVE  Kept(queue'[t], stream'[t], next'[t], extraAdded'[t], extraOut'[t])
  <2>1. Kept(queue[t], stream[t], next[t], extraAdded[t], extraOut[t]) /\ next[t] \in Nat
    BY InvariantFacts
  <2>2. Kept(queue'[t], stream[t], next[t], extraAdded[t], extraOut[t])
    BY <2>1, KeptLeft
  <2>. QED  BY <2>2, Zenon DEF extraVars
<1>2. OthersOK'
  BY InvariantFacts, Zenon DEF OthersOK, StreamOK, StreamsInOrder, ExtraOK, extraVars
<1>. QED  BY <1>1, <1>2, ThenInvariant DEF AllKept

(* No queue changes, nor the streams.                                      *)
LEMMA NothingLeft ==
  ASSUME IInv, UNCHANGED <<media, stream, queue, next, extraVars>>, SeekOK'
  PROVE  IInv'
<1>1. \A t \in Types : LeftOf(queue'[t], queue[t])
  BY InvariantFacts, LeftOfSelf
<1>2. IsFcnOn(queue', Types)
  BY InvariantFacts DEF IsFcnOn
<1>. QED  BY <1>1, <1>2, AllLeft

LEMMA CatchType == ASSUME SeekOK, NEW p  PROVE CatchAfter(p) \in Nat \cup {NoPosition}
BY DEF SeekOK, CatchAfter

(* What ReadPacket() adds is the packet it read but for the extra data.    *)
LEMMA AddedIsPacket ==
  ASSUME NEW type, NEW p \in Packet, NEW extra \in ExtrasGiven(type, p), media \in Media
  PROVE  WithExtra(p, extra) \in Packet /\ Alike(WithExtra(p, extra), p)
<1>1. extra \in Nat
  <2>1. ASSUME NEW i \in DOMAIN media["video"]
        PROVE  media["video"][i].extra \in Nat
    <3>1. media["video"] \in Seq(Packet)
      BY MediaTypes DEF Types
    <3>2. media["video"][i] \in Packet
      BY <3>1
    <3>. QED  BY <3>2 DEF Packet
  <2>2. extra \in MetaExtras \cup {NoExtra}
    BY DEF ExtrasGiven
  <2>. QED  BY <2>1, <2>2, OpenAssumption DEF MetaExtras, NoExtra
<1>. QED  BY <1>1 DEF WithExtra, Packet, Alike

LEMMA StepAddPacket ==
  ASSUME IInv, NEW type \in Types, AddPacketOf(type)
  PROVE  IInv'
<1> DEFINE p == PacketRead(type)
<1>1. /\ OthersOK
      /\ Kept(queue[type], stream[type], next[type], extraAdded[type], extraOut[type])
      /\ stream[type] \in Seq(Packet) /\ DOMAIN stream[type] = 1 .. Len(stream[type])
      /\ next[type] \in 1 .. Len(stream[type])
      /\ p \in Packet /\ p = stream[type][next[type]]
  <2>1. next[type] \in 1 .. Len(stream[type]) + 1 /\ next[type] <= Len(stream[type])
    BY InvariantFacts DEF OthersOK, StreamOK, AddPacketOf
  <2>2. stream[type] \in Seq(Packet) /\ Len(stream[type]) \in Nat
    BY InvariantFacts
  <2>3. next[type] \in 1 .. Len(stream[type])
    BY <2>1, <2>2
  <2>. QED  BY <2>2, <2>3, InvariantFacts DEF PacketRead
<1>2. /\ queue \in [Types -> Queue] /\ next \in [Types -> Nat]
      /\ extraAdded \in [Types -> Nat] /\ extraOut \in [Types -> Nat] /\ media \in Media
  BY InvariantFacts DEF OthersOK, StreamOK, ExtraOK
<1>3. PICK extra \in ExtrasGiven(type, p) :
        /\ queue' = [queue EXCEPT ![type] = AddPacket(@, WithExtra(p, extra))]
        /\ extraAdded' = [extraAdded EXCEPT ![type] =
                            IF WithExtra(p, extra).extra = NoExtra THEN @ ELSE WithExtra(p, extra).extra]
  BY Zenon DEF AddPacketOf
<1>4. /\ next' = [next EXCEPT ![type] = @ + 1]
      /\ catch' = CatchAfter(p) /\ audioChanged' = (audioChanged /\ type # "audio")
      /\ mSoughtVideoPos' = IF type # "video" \/ mSoughtVideoPos # NoPosition THEN mSoughtVideoPos
                            ELSE IF catch' # NoPosition THEN catch' ELSE p.timePosition
      /\ UNCHANGED <<media, stream, mCurrentPos, mSeekFlag, extraOut>>
  BY Zenon DEF AddPacketOf
<1> DEFINE added == WithExtra(p, extra)
<1>5. added \in Packet /\ Alike(added, stream[type][next[type]]) /\ added.extra \in Nat
  <2>1. added \in Packet /\ Alike(added, p)
    <3> HIDE DEF p
    <3>. QED  BY <1>1, <1>2, <1>3, AddedIsPacket
  <2> HIDE DEF added, p
  <2>. QED  BY <1>1, <2>1 DEF Packet
<1> DEFINE readNow == IF added.extra = NoExtra THEN extraAdded[type] ELSE added.extra
<1>6. /\ queue' = [queue EXCEPT ![type] = AddPacket(@, added)]
      /\ extraAdded' = [extraAdded EXCEPT ![type] = readNow]
  BY <1>2, <1>3
<1>7. Kept(AddPacket(queue[type], added), stream[type], next[type] + 1, readNow, extraOut[type])
  <2> HIDE DEF added, p
  <2>. QED  BY <1>1, <1>5, KeptAdded
<1>8. readNow \in Nat
  <2> HIDE DEF added
  <2>. QED  BY <1>2, <1>5
<1>9. p.timePosition \in Nat
  BY <1>1 DEF Packet
<1> HIDE DEF readNow, added, p
<1>10. IsFcnOn(queue', Types)
  BY <1>2, <1>6 DEF IsFcnOn
<1>11. ASSUME NEW t \in Types
       PROVE  Kept(queue'[t], stream'[t], next'[t], extraAdded'[t], extraOut'[t])
  <2>1. CASE t = type
    <3>1. queue'[t] = AddPacket(queue[type], added) /\ next'[t] = next[type] + 1 /\ extraAdded'[t] = readNow
      BY <1>2, <1>4, <1>6, <2>1
    <3>. QED  BY <1>4, <1>7, <2>1, <3>1
  <2>2. CASE t # type
    <3>1. queue'[t] = queue[t] /\ next'[t] = next[t] /\ extraAdded'[t] = extraAdded[t]
      BY <1>2, <1>4, <1>6, <2>2
    <3>. QED  BY <1>4, <3>1, InvariantFacts, Zenon
  <2>. QED  BY <2>1, <2>2
<1>12. StreamOK'
  <2>1. next' \in [Types -> Nat]
    BY <1>2, <1>4
  <2>2. ASSUME NEW t \in Types
        PROVE  next'[t] \in 1 .. Len(stream'[t]) + 1
    <3>1. next[t] \in 1 .. Len(stream[t]) + 1 /\ Len(stream[t]) \in Nat
      BY InvariantFacts DEF OthersOK, StreamOK
    <3>2. next'[t] = IF t = type THEN next[t] + 1 ELSE next[t]
      BY <1>2, <1>4
    <3>. QED  BY <1>1, <1>4, <3>1, <3>2
  <2>. QED  BY <1>1, <1>4, <2>1, <2>2, Zenon DEF OthersOK, StreamOK, StreamsInOrder
<1>13. ExtraOK'
  BY <1>2, <1>4, <1>6, <1>8 DEF ExtraOK
<1>14. SeekOK'
  <2>1. catch' \in Nat \cup {NoPosition}
    BY <1>1, <1>4, CatchType DEF OthersOK
  <2>2. mSoughtVideoPos' \in Nat \cup {NoPosition}
    BY <1>1, <1>4, <1>9, <2>1 DEF OthersOK, SeekOK
  <2>3. audioChanged' \in BOOLEAN /\ mSeekFlag' \in BOOLEAN /\ mCurrentPos' \in Nat
    BY <1>1, <1>4 DEF OthersOK, SeekOK
  <2>. QED  BY <2>1, <2>2, <2>3 DEF SeekOK
<1>. QED  BY <1>10, <1>11, <1>12, <1>13, <1>14, ThenInvariant DEF AllKept, OthersOK

(* A stream without its n-th packet, for a queue that is filled up to it.  *)
LEMMA WithoutPacket ==
  ASSUME NEW packets \in Seq(Packet), NEW n \in 1 .. Len(packets)
  PROVE  /\ RemoveAt(packets, n) \in Seq(Packet)
         /\ Len(RemoveAt(packets, n)) = Len(packets) - 1
         /\ \A i \in 1 .. Len(packets) - 1 :
               RemoveAt(packets, n)[i] = IF i < n THEN packets[i] ELSE packets[i + 1]
<1> DEFINE l == Len(packets)
           a == SubSeq(packets, 1, n - 1)
           b == SubSeq(packets, n + 1, l)
<1>1. l \in Nat /\ n \in Nat /\ 1 <= n /\ n <= l
  OBVIOUS
<1>2. RemoveAt(packets, n) = a \o b
  BY DEF RemoveAt
<1>3. a \in Seq(Packet) /\ Len(a) = n - 1 /\ \A i \in 1 .. n - 1 : a[i] = packets[i]
  BY <1>1
<1>4. b \in Seq(Packet) /\ Len(b) = l - n /\ \A i \in 1 .. l - n : b[i] = packets[i + n]
  BY <1>1
<1> HIDE DEF l, a, b
<1>5. a \o b \in Seq(Packet) /\ Len(a \o b) = l - 1
  <2>1. a \in Seq(Packet) /\ b \in Seq(Packet)
    BY <1>3, <1>4
  <2>2. a \o b \in Seq(Packet) /\ Len(a \o b) = Len(a) + Len(b)
    BY <2>1
  <2>3. Len(a) + Len(b) = l - 1
    BY <1>1, <1>3, <1>4
  <2>. QED  BY <2>2, <2>3
<1>6. ASSUME NEW i \in 1 .. l - 1
      PROVE  (a \o b)[i] = IF i < n THEN packets[i] ELSE packets[i + 1]
  <2>1. CASE i < n
    BY <1>1, <1>3, <1>4, <2>1
  <2>2. CASE ~ (i < n)
    <3>1. i - (n - 1) \in 1 .. l - n /\ (i - (n - 1)) + n = i + 1 /\ i > Len(a) /\ i <= Len(a) + Len(b)
      BY <1>1, <1>3, <1>4, <2>2
    <3>2. (a \o b)[i] = b[i - (n - 1)]
      BY <1>1, <1>3, <1>4, <3>1
    <3>. QED  BY <1>4, <2>2, <3>1, <3>2
  <2>. QED  BY <2>1, <2>2
<1>. QED  BY <1>2, <1>5, <1>6 DEF l

LEMMA OrderedWithout ==
  ASSUME NEW packets \in Seq(Packet), NEW n \in 1 .. Len(packets), InOrder(packets)
  PROVE  InOrder(RemoveAt(packets, n))
<1> DEFINE l == Len(packets)
           r == RemoveAt(packets, n)
           At(i) == IF i < n THEN i ELSE i + 1
<1>1. l \in Nat /\ n \in Nat /\ DOMAIN packets = 1 .. l
  OBVIOUS
<1>2. r \in Seq(Packet) /\ Len(r) = l - 1 /\ \A i \in 1 .. l - 1 : r[i] = packets[At(i)]
  BY WithoutPacket
<1>3. DOMAIN r = 1 .. l - 1
  BY <1>2
<1> HIDE DEF l, r
<1> SUFFICES ASSUME NEW i \in 1 .. l - 1, NEW j \in 1 .. l - 1, i < j,
                    Divides(r[i]) \/ Divides(r[j])
             PROVE  r[i].timePosition < r[j].timePosition
  BY <1>3 DEF InOrder, r
<1>4. At(i) \in 1 .. l /\ At(j) \in 1 .. l /\ At(i) < At(j)
  BY <1>1
<1>5. r[i] = packets[At(i)] /\ r[j] = packets[At(j)]
  BY <1>2
<1> HIDE DEF At
<1>. QED  BY <1>1, <1>4, <1>5 DEF InOrder

LEMMA KeptWithout ==
  ASSUME NEW q, NEW packets \in Seq(Packet), NEW n \in 1 .. Len(packets), NEW read, NEW out,
         Kept(q, packets, n, read, out)
  PROVE  Kept(q, RemoveAt(packets, n), n, read, out)
<1> DEFINE l == Len(q.mQueue)
           m == Len(packets)
           r == RemoveAt(packets, n)
<1>1. l \in Nat /\ DOMAIN q.mQueue = 1 .. l
  BY PlacedTypes DEF Kept, Sound, Tallied
<1>2. /\ m \in Nat /\ n \in 1 .. m /\ DOMAIN packets = 1 .. m
      /\ r \in Seq(Packet) /\ Len(r) = m - 1
      /\ \A i \in 1 .. m - 1 : i < n => r[i] = packets[i]
  BY WithoutPacket
<1>3. DOMAIN r = 1 .. m - 1
  BY <1>2
<1>4. \A i \in 1 .. l : /\ n - 1 - (l - i) \in DOMAIN packets
                        /\ Alike(q.mQueue[i], packets[n - 1 - (l - i)])
  BY <1>1, Zenon DEF Kept, Continues
<1> HIDE DEF l, m, r
<1>5. ASSUME NEW i \in 1 .. l
      PROVE  n - 1 - (l - i) \in DOMAIN r /\ Alike(q.mQueue[i], r[n - 1 - (l - i)])
  <2> DEFINE j == n - 1 - (l - i)
  <2>1. j \in 1 .. m /\ Alike(q.mQueue[i], packets[j])
    BY <1>2, <1>4
  <2>2. j < n /\ j \in 1 .. m - 1
    BY <1>1, <1>2, <2>1
  <2> HIDE DEF j
  <2>3. j \in DOMAIN r /\ Alike(q.mQueue[i], r[j])
    BY <1>2, <1>3, <2>1, <2>2
  <2>. QED  BY <2>3 DEF j
<1>6. Continues(q, r, n)
  BY <1>1, <1>5, Zenon DEF Continues, l
<1>. QED  BY <1>6 DEF Kept, r

LEMMA StepDiscardAudio ==
  ASSUME IInv, DiscardAudio
  PROVE  IInv'
<1> DEFINE n == next["audio"]
           packets == stream["audio"]
           left == RemoveAt(packets, n)
<1>1. /\ n <= Len(packets)
      /\ stream' = [stream EXCEPT !["audio"] = left]
      /\ catch' = CatchAfter(PacketRead("audio"))
      /\ UNCHANGED <<media, queue, next, mCurrentPos, mSoughtVideoPos,
                     mSeekFlag, audioChanged, extraVars>>
  BY DEF DiscardAudio
<1>2. /\ OthersOK /\ "audio" \in Types /\ "video" \in Types /\ "audio" # "video"
      /\ stream \in [Types -> Seq(Packet)] /\ queue \in [Types -> Queue]
  BY InvariantFacts DEF Types, OthersOK, StreamOK
<1>3. /\ packets \in Seq(Packet) /\ InOrder(packets) /\ Len(packets) \in Nat
      /\ Kept(queue["audio"], packets, n, extraAdded["audio"], extraOut["audio"])
      /\ n \in 1 .. Len(packets) + 1
  BY <1>2, InvariantFacts DEF OthersOK, StreamOK
<1>4. n \in 1 .. Len(packets)
  BY <1>1, <1>3
<1> HIDE DEF n, packets
<1>5. /\ left \in Seq(Packet) /\ Len(left) = Len(packets) - 1 /\ InOrder(left)
      /\ Kept(queue["audio"], left, n, extraAdded["audio"], extraOut["audio"])
  BY <1>3, <1>4, WithoutPacket, OrderedWithout, KeptWithout
<1> HIDE DEF left
<1>6. \A t \in Types : stream'[t] = IF t = "audio" THEN left ELSE stream[t]
  BY <1>1, <1>2
<1>7. ASSUME NEW t \in Types
      PROVE  Kept(queue'[t], stream'[t], next'[t], extraAdded'[t], extraOut'[t])
  <2>1. Kept(queue[t], stream'[t], next[t], extraAdded[t], extraOut[t])
    <3>1. CASE t = "audio"
      BY <1>5, <1>6, <3>1 DEF n
    <3>2. CASE t # "audio"
      BY <1>6, <3>2, InvariantFacts
    <3>. QED  BY <3>1, <3>2
  <2>. QED  BY <1>1, <2>1, Zenon DEF extraVars
<1>8. StreamOK'
  <2>1. stream' \in [Types -> Seq(Packet)]
    BY <1>1, <1>2, <1>5
  <2>2. \A t \in Types : InOrder(stream'[t])
    BY <1>5, <1>6, InvariantFacts
  <2>3. stream'["video"] = media'["video"]
    BY <1>1, <1>2, <1>6, InvariantFacts
  <2>4. ASSUME NEW t \in Types
        PROVE  next'[t] \in 1 .. Len(stream'[t]) + 1
    <3>1. CASE t = "audio"
      <4>1. Len(stream'[t]) = Len(packets) - 1 /\ next'[t] = n
        BY <1>1, <1>5, <1>6, <3>1 DEF n
      <4>. QED  BY <1>3, <1>4, <4>1
    <3>2. CASE t # "audio"
      BY <1>1, <1>2, <1>6, <3>2 DEF OthersOK, StreamOK
    <3>. QED  BY <3>1, <3>2
  <2>. QED  BY <1>1, <1>2, <2>1, <2>2, <2>3, <2>4, Zenon DEF OthersOK, StreamOK, StreamsInOrder
<1>9. ExtraOK'
  BY <1>1, <1>2, Zenon DEF OthersOK, ExtraOK, extraVars
<1>10. SeekOK'
  <2>1. catch' \in Nat \cup {NoPosition}
    BY <1>1, <1>2, CatchType DEF OthersOK
  <2>. QED  BY <1>1, <1>2, <2>1, Zenon DEF OthersOK, SeekOK
<1>11. IsFcnOn(queue', Types)
  BY <1>1, <1>2 DEF IsFcnOn
<1>. QED  BY <1>7, <1>8, <1>9, <1>10, <1>11, ThenInvariant DEF AllKept, OthersOK

LEMMA TakenIsPacket ==
  ASSUME NEW q, Sound(q), ~ AtEnd(q)
  PROVE  PacketTaken(q) \in Packet
<1>1. q.mQueue \in Seq(Packet) /\ q.mCurrent \in 1 .. Len(q.mQueue) /\ Len(q.mQueue) >= 1
  BY PlacedTypes DEF Sound, Tallied, AtEnd
<1>2. Head(q.mQueue) \in Packet /\ q.mQueue[q.mCurrent] \in Packet
  BY <1>1
<1>. QED  BY <1>2 DEF PacketTaken, Current

LEMMA StepGetPacket ==
  ASSUME IInv, NEW type \in Types, GetPacket(type)
  PROVE  IInv'
<1> DEFINE p == PacketTaken(queue[type])
           handed == IF p.extra = NoExtra THEN extraOut[type] ELSE p.extra
<1>1. /\ ~ AtEnd(queue[type])
      /\ queue' = [queue EXCEPT ![type] = Taken(@)]
      /\ extraOut' = [extraOut EXCEPT ![type] = handed]
      /\ mCurrentPos' \in {mCurrentPos} \cup (IF Leads(type) THEN {p.timePosition} ELSE {})
      /\ UNCHANGED <<media, stream, next, mSoughtVideoPos, seekVars, extraAdded>>
  BY DEF GetPacket
<1>2. /\ queue \in [Types -> Queue] /\ extraOut \in [Types -> Nat] /\ OthersOK
      /\ Kept(queue[type], stream[type], next[type], extraAdded[type], extraOut[type])
      /\ next[type] \in Nat
  BY InvariantFacts DEF OthersOK, ExtraOK
<1>3. p.extra \in Nat /\ p.timePosition \in Nat
  <2>1. p \in Packet
    BY <1>1, <1>2, TakenIsPacket DEF Kept
  <2>. QED  BY <2>1 DEF Packet
<1>4. Kept(Taken(queue[type]), stream[type], next[type], extraAdded[type], handed)
  BY <1>1, <1>2, KeptTaken
<1> HIDE DEF p
<1>5. handed \in Nat
  BY <1>2, <1>3
<1> HIDE DEF handed
<1>6. ASSUME NEW t \in Types
      PROVE  Kept(queue'[t], stream'[t], next'[t], extraAdded'[t], extraOut'[t])
  <2>1. CASE t = type
    <3>1. queue'[t] = Taken(queue[type]) /\ extraOut'[t] = handed
      BY <1>1, <1>2, <2>1
    <3>. QED  BY <1>1, <1>4, <2>1, <3>1
  <2>2. CASE t # type
    <3>1. queue'[t] = queue[t] /\ extraOut'[t] = extraOut[t]
      BY <1>1, <1>2, <2>2
    <3>. QED  BY <1>1, <3>1, InvariantFacts, Zenon
  <2>. QED  BY <2>1, <2>2
<1>7. OthersOK'
  <2>1. extraOut' \in [Types -> Nat]
    BY <1>1, <1>2, <1>5
  <2>2. mCurrentPos' \in Nat
    BY <1>1, <1>2, <1>3 DEF OthersOK, SeekOK
  <2>3. StreamOK'
    BY <1>1, <1>2, Zenon DEF OthersOK, StreamOK, StreamsInOrder
  <2>4. ExtraOK'
    BY <1>1, <1>2, <2>1, Zenon DEF OthersOK, ExtraOK
  <2>5. SeekOK'
    BY <1>1, <1>2, <2>2, Zenon DEF OthersOK, SeekOK, seekVars
  <2>. QED  BY <2>3, <2>4, <2>5 DEF OthersOK
<1>8. IsFcnOn(queue', Types)
  BY <1>1, <1>2 DEF IsFcnOn
<1>. QED  BY <1>6, <1>7, <1>8, ThenInvariant DEF AllKept

LEMMA StepLearn ==
  ASSUME IInv, LearnPacketDuration
  PROVE  IInv'
<1>1. /\ queue' = [queue EXCEPT !["audio"] = SetOnePacketDuration(@, FrameDuration)]
      /\ UNCHANGED <<media, stream, next, mCurrentPos, mSoughtVideoPos, seekVars, extraVars>>
  BY DEF LearnPacketDuration
<1>2. queue \in [Types -> Queue] /\ OthersOK /\ "audio" \in Types
  BY InvariantFacts DEF Types
<1>3. ASSUME NEW t \in Types
      PROVE  LeftOf(queue'[t], queue[t])
  <2>1. Sound(queue[t])
    BY InvariantFacts
  <2>2. CASE t = "audio"
    <3>1. queue'[t] = SetOnePacketDuration(queue[t], FrameDuration)
      BY <1>1, <1>2, <2>2
    <3>2. FrameDuration \in Nat
      BY FrameAssumption
    <3>. QED  BY <2>1, <3>1, <3>2, LeftTimed
  <2>3. CASE t # "audio"
    <3>1. queue'[t] = queue[t]
      BY <1>1, <1>2, <2>3
    <3>. QED  BY <2>1, <3>1, LeftOfSelf
  <2>. QED  BY <2>2, <2>3
<1>4. IsFcnOn(queue', Types)
  BY <1>1, <1>2 DEF IsFcnOn
<1>5. UNCHANGED <<media, stream, next, extraVars>> /\ SeekOK'
  BY <1>1, <1>2, Zenon DEF OthersOK, SeekOK, seekVars
<1>. QED  BY <1>3, <1>4, <1>5, AllLeft

LEMMA StepSetMaxBackward ==
  ASSUME IInv, NEW type \in Types, NEW d \in Nat, d # 0, SetMaxBackward(type, d)
  PROVE  IInv'
<1>1. /\ queue' = [queue EXCEPT ![type] = SetMaxBackwardDuration(@, d)]
      /\ UNCHANGED <<media, stream, next, mCurrentPos, mSoughtVideoPos, seekVars, extraVars>>
  BY DEF SetMaxBackward
<1>2. queue \in [Types -> Queue] /\ OthersOK
  BY InvariantFacts
<1>3. ASSUME NEW t \in Types
      PROVE  Kept(queue'[t], stream'[t], next'[t], extraAdded'[t], extraOut'[t])
  <2>1. Kept(queue[t], stream[t], next[t], extraAdded[t], extraOut[t]) /\ next[t] \in Nat
    BY InvariantFacts
  <2>2. Kept(queue'[t], stream[t], next[t], extraAdded[t], extraOut[t])
    <3>1. CASE t = type
      <4>1. queue'[t] = SetMaxBackwardDuration(queue[t], d)
        BY <1>1, <1>2, <3>1
      <4>. QED  BY <2>1, <4>1, KeptLimited
    <3>2. CASE t # type
      <4>1. queue'[t] = queue[t]
        BY <1>1, <1>2, <3>2
      <4>. QED  BY <2>1, <4>1
    <3>. QED  BY <3>1, <3>2
  <2>. QED  BY <1>1, <2>2, Zenon DEF extraVars
<1>4. OthersOK'
  <2>1. StreamOK'
    BY <1>1, <1>2, Zenon DEF OthersOK, StreamOK, StreamsInOrder
  <2>. QED  BY <1>1, <1>2, <2>1, Zenon DEF OthersOK, ExtraOK, SeekOK, seekVars, extraVars
<1>5. IsFcnOn(queue', Types)
  BY <1>1, <1>2 DEF IsFcnOn
<1>. QED  BY <1>3, <1>4, <1>5, ThenInvariant DEF AllKept

LEMMA StepSeekTo ==
  ASSUME IInv, NEW pos \in Positions, SeekTo(pos)
  PROVE  IInv'
<1>1. /\ catch' \in {pos, NoPosition}
      /\ UNCHANGED <<media, stream, queue, next, mCurrentPos, mSoughtVideoPos,
                     mSeekFlag, audioChanged, extraVars>>
  BY DEF SeekTo
<1>2. SeekOK'
  BY <1>1, InvariantFacts, PositionsAssumption DEF OthersOK, SeekOK
<1>. QED  BY <1>1, <1>2, NothingLeft

LEMMA StepCaughtUp ==
  ASSUME IInv, CaughtUp
  PROVE  IInv'
<1>1. /\ catch' = NoPosition
      /\ UNCHANGED <<media, stream, queue, next, mCurrentPos, mSoughtVideoPos,
                     mSeekFlag, audioChanged, extraVars>>
  BY DEF CaughtUp
<1>2. SeekOK'
  BY <1>1, InvariantFacts DEF OthersOK, SeekOK
<1>. QED  BY <1>1, <1>2, NothingLeft

LEMMA StepEndSeek ==
  ASSUME IInv, EndSeek
  PROVE  IInv'
<1>1. /\ mSeekFlag' = FALSE /\ catch' \in {catch, NoPosition}
      /\ mCurrentPos' \in {mCurrentPos} \cup ({mSoughtVideoPos} \ {NoPosition})
      /\ UNCHANGED <<media, stream, queue, next, mSoughtVideoPos, audioChanged, extraVars>>
  BY DEF EndSeek
<1>2. SeekOK'
  BY <1>1, InvariantFacts DEF OthersOK, SeekOK
<1>. QED  BY <1>1, <1>2, NothingLeft

(* Some queues cleared up to a position, after what was left of them.      *)
LEMMA ClearBeforeLeft ==
  ASSUME NEW queues, NEW types, NEW pos, NEW t \in Types, Sound(queues[t])
  PROVE  LeftOf(ClearBefore(queues, types, pos)[t], queues[t])
<1>1. ClearBefore(queues, types, pos)[t] =
         IF t \in types THEN ClearPacketBeforeTimePos(queues[t], pos) ELSE queues[t]
  BY DEF ClearBefore
<1>. QED  BY <1>1, LeftCleared, LeftOfSelf

LEMMA StepClear ==
  ASSUME IInv, NEW types, NEW pos, queue' = ClearBefore(queue, types, pos),
         UNCHANGED <<media, stream, next, mCurrentPos, mSoughtVideoPos, seekVars, extraVars>>
  PROVE  IInv'
<1>1. IsFcnOn(queue', Types)
  BY DEF IsFcnOn, ClearBefore
<1>2. \A t \in Types : LeftOf(queue'[t], queue[t])
  BY InvariantFacts, ClearBeforeLeft
<1>3. SeekOK'
  BY InvariantFacts, Zenon DEF OthersOK, SeekOK, seekVars
<1>. QED  BY <1>1, <1>2, <1>3, AllLeft

LEMMA KeyFound ==
  ASSUME NEW q, Placed(q), NEW pos, GetKeyTimePositionBefore(q, pos) # NoPosition
  PROVE  \E k \in 1 .. Len(q.mQueue) :
            /\ q.mQueue[k].key /\ q.mQueue[k].timePosition <= pos
            /\ GetKeyTimePositionBefore(q, pos) = q.mQueue[k].timePosition
            /\ ~ AtEnd(q) => q.mCurrent <= k
            /\ \A i \in 1 .. Len(q.mQueue) :
                  i >= q.mCurrent /\ q.mQueue[i].key /\ q.mQueue[i].timePosition <= pos => i <= k
<1> DEFINE l == Len(q.mQueue)
           from == IF AtEnd(q) THEN 1 ELSE q.mCurrent
           keys == {i \in from .. Len(q.mQueue) :
                       q.mQueue[i].key /\ q.mQueue[i].timePosition <= pos}
<1>1. l \in Nat /\ from \in Nat /\ 1 <= from /\ (~ AtEnd(q) => from = q.mCurrent)
      /\ q.mCurrent \in Nat /\ from <= q.mCurrent
  BY PlacedTypes
<1>2. GetKeyTimePositionBefore(q, pos) =
         IF keys = {} THEN NoPosition ELSE q.mQueue[Max(keys)].timePosition
  BY Zenon DEF GetKeyTimePositionBefore
<1> HIDE DEF from
<1>3. keys # {} /\ keys \in SUBSET (0 .. l)
  BY <1>1, <1>2
<1>4. Max(keys) \in keys /\ \A m \in keys : m <= Max(keys)
  <2> HIDE DEF keys, l
  <2>. QED  BY <1>1, <1>3, MaxOf
<1> DEFINE k == Max(keys)
<1>5. k \in from .. l /\ q.mQueue[k].key /\ q.mQueue[k].timePosition <= pos
  BY <1>4
<1>6. GetKeyTimePositionBefore(q, pos) = q.mQueue[k].timePosition
  BY <1>2, <1>3
<1>7. \A i \in 1 .. l : i >= q.mCurrent /\ q.mQueue[i].key /\ q.mQueue[i].timePosition <= pos => i <= k
  <2> SUFFICES ASSUME NEW i \in 1 .. l, i >= q.mCurrent,
                      q.mQueue[i].key, q.mQueue[i].timePosition <= pos
               PROVE  i <= k
    OBVIOUS
  <2>1. i \in from .. l
    BY <1>1
  <2>2. i \in keys
    BY <2>1
  <2> HIDE DEF keys
  <2>. QED  BY <1>4, <2>2
<1> HIDE DEF k, keys
<1>8. k \in 1 .. l /\ (~ AtEnd(q) => q.mCurrent <= k)
  BY <1>1, <1>5
<1>. QED  BY <1>5, <1>6, <1>7, <1>8

LEMMA RewoundLeft ==
  ASSUME IInv, NEW pos, NEW t \in Types
  PROVE  /\ LeftOf(RewoundFor(pos)[t], queue[t]) /\ Placed(RewoundFor(pos)[t])
         /\ Sound(RewoundFor(pos)[t])
         /\ RewoundFor(pos)[t].mQueue = queue[t].mQueue
         /\ SoughtBack(pos) => RewoundFor(pos)[t].mCurrent = 1
<1>1. Sound(queue[t])
  BY InvariantFacts
<1>2. RewoundFor(pos)[t] = IF SoughtBack(pos) THEN Rewind(queue[t]) ELSE queue[t]
  BY DEF RewoundFor
<1>. QED  BY <1>1, <1>2, LeftRewound, LeftOfSelf DEF LeftOf, Sound, Tallied

LEMMA MainIsType == Main \in Types
BY DEF Main, Types

LEMMA StepSeekCached ==
  ASSUME IInv, NEW pos \in Nat, SeekCached(pos)
  PROVE  IInv'
<1> DEFINE key == KeyBefore(pos)
           sought == ClearBefore(RewoundFor(pos), Types, key)
<1>1. /\ key # NoPosition
      /\ \/ queue' = sought
         \/ queue' = ClearBefore(sought, {"audio"}, pos)
      /\ mSoughtVideoPos' = key /\ mSeekFlag' = TRUE /\ catch' \in {pos, NoPosition}
      /\ UNCHANGED <<media, stream, next, mCurrentPos, audioChanged, extraVars>>
  BY Zenon DEF SeekCached, SeekInCache
<1>2. \A t \in Types : Sound(queue[t])
  BY InvariantFacts
<1>3. ASSUME NEW t \in Types
      PROVE  LeftOf(queue'[t], queue[t])
  <2>1. LeftOf(RewoundFor(pos)[t], queue[t]) /\ Sound(RewoundFor(pos)[t])
    BY RewoundLeft
  <2>2. LeftOf(sought[t], RewoundFor(pos)[t])
    <3> HIDE DEF key
    <3>. QED  BY <2>1, ClearBeforeLeft
  <2> HIDE DEF sought
  <2>3. LeftOf(sought[t], queue[t]) /\ Sound(sought[t])
    BY <1>2, <2>1, <2>2, LeftOfLeft DEF LeftOf
  <2>4. LeftOf(ClearBefore(sought, {"audio"}, pos)[t], queue[t])
    <3>1. LeftOf(ClearBefore(sought, {"audio"}, pos)[t], sought[t])
      BY <2>3, ClearBeforeLeft
    <3> DEFINE r == ClearBefore(sought, {"audio"}, pos)[t]
    <3> HIDE DEF r
    <3>. QED  BY <1>2, <2>3, <3>1, LeftOfLeft DEF r
  <2>. QED  BY <1>1, <2>3, <2>4
<1>4. IsFcnOn(queue', Types)
  BY <1>1 DEF IsFcnOn, ClearBefore
<1>5. key \in Nat
  <2> DEFINE q == RewoundFor(pos)[Main]
  <2>1. Placed(q) /\ GetKeyTimePositionBefore(q, pos) = key
    BY RewoundLeft, MainIsType DEF KeyBefore
  <2> HIDE DEF q, key
  <2>2. PICK k \in 1 .. Len(q.mQueue) : key = q.mQueue[k].timePosition
    BY <1>1, <2>1, KeyFound
  <2>3. q.mQueue[k] \in Packet
    BY <2>1, PlacedTypes
  <2>. QED  BY <2>2, <2>3 DEF Packet
<1>6. SeekOK'
  <2> HIDE DEF key, sought
  <2>. QED  BY <1>1, <1>5, InvariantFacts DEF OthersOK, SeekOK
<1>. QED  BY <1>1, <1>3, <1>4, <1>6, AllLeft

(* Some queues cleared, and the demuxer goes on from anywhere.             *)
LEMMA ThenCleared ==
  ASSUME IInv, NEW types \in SUBSET Types, Cleared(types),
         media' \in Media, next' \in [Types -> Nat],
         \A t \in types : next'[t] \in 1 .. Len(media'[t]) + 1,
         \A t \in Types \ types : media'[t] = media[t] /\ next'[t] = next[t],
         SeekOK'
  PROVE  IInv'
<1>1. /\ queue' = [t \in Types |-> IF t \in types THEN ClearQueue(queue[t]) ELSE queue[t]]
      /\ stream' = [t \in Types |-> IF t \in types THEN media'[t] ELSE stream[t]]
      /\ extraAdded' = [t \in Types |-> IF t \in types THEN NoExtra ELSE extraAdded[t]]
      /\ UNCHANGED extraOut
  BY DEF Cleared
<1>2. OthersOK
  BY InvariantFacts
<1>3. ASSUME NEW t \in Types
      PROVE  Kept(queue'[t], stream'[t], next'[t], extraAdded'[t], extraOut'[t])
  <2>1. CASE t \in types
    <3>1. queue'[t] = ClearQueue(queue[t]) /\ extraAdded'[t] = NoExtra
      BY <1>1, <2>1
    <3>2. Sound(queue[t])
      BY InvariantFacts
    <3>3. Kept(ClearQueue(queue[t]), stream'[t], next'[t], NoExtra, extraOut'[t])
      BY <3>2, KeptCleared
    <3>. QED  BY <3>1, <3>3
  <2>2. CASE t \notin types
    <3>1. /\ queue'[t] = queue[t] /\ extraAdded'[t] = extraAdded[t] /\ extraOut'[t] = extraOut[t]
          /\ stream'[t] = stream[t] /\ next'[t] = next[t]
      BY <1>1, <2>2
    <3>. QED  BY <3>1, InvariantFacts
  <2>. QED  BY <2>1, <2>2
<1>4. StreamOK'
  <2>1. ASSUME NEW t \in Types
        PROVE  /\ stream'[t] \in Seq(Packet) /\ InOrder(stream'[t])
               /\ next'[t] \in 1 .. Len(stream'[t]) + 1
    <3>1. CASE t \in types
      <4>1. stream'[t] = media'[t]
        BY <1>1, <3>1
      <4>. QED  BY <3>1, <4>1, MediaTypes
    <3>2. CASE t \notin types
      <4>1. stream'[t] = stream[t] /\ next'[t] = next[t]
        BY <1>1, <3>2
      <4>. QED  BY <1>2, <4>1, InvariantFacts DEF OthersOK, StreamOK
    <3>. QED  BY <3>1, <3>2
  <2>2. stream' \in [Types -> Seq(Packet)]
    BY <1>1, <2>1
  <2>3. stream'["video"] = media'["video"]
    <3>1. "video" \in Types
      BY DEF Types
    <3>2. CASE "video" \in types
      BY <1>1, <3>1, <3>2
    <3>3. CASE "video" \notin types
      BY <1>1, <3>1, <3>3, InvariantFacts
    <3>. QED  BY <3>2, <3>3
  <2>. QED  BY <2>1, <2>2, <2>3, Zenon DEF StreamOK, StreamsInOrder
<1>5. ExtraOK'
  BY <1>1, <1>2 DEF OthersOK, ExtraOK, NoExtra
<1>6. IsFcnOn(queue', Types)
  BY <1>1 DEF IsFcnOn
<1>. QED  BY <1>3, <1>4, <1>5, <1>6, ThenInvariant DEF AllKept, OthersOK

LEMMA StepSeekInSource ==
  ASSUME IInv, NEW pos \in Nat, SeekInSource(pos)
  PROVE  IInv'
<1>1. /\ Cleared(Types)
      /\ next' = [t \in Types |-> PacketAt(t, SourceKey(pos))]
      /\ mSoughtVideoPos' = NoPosition /\ mSeekFlag' = TRUE /\ catch' \in {pos, NoPosition}
      /\ UNCHANGED <<media, mCurrentPos, audioChanged>>
  BY DEF SeekInSource
<1>2. \A t \in Types : PacketAt(t, SourceKey(pos)) \in 1 .. Len(media[t]) + 1 /\ Len(media[t]) \in Nat
  BY InvariantFacts, PlaceIsInStream
<1>3. next' \in [Types -> Nat] /\ \A t \in Types : next'[t] \in 1 .. Len(media'[t]) + 1
  BY <1>1, <1>2
<1>4. media' \in Media
  BY <1>1, InvariantFacts DEF OthersOK, StreamOK
<1>5. SeekOK'
  BY <1>1, InvariantFacts DEF OthersOK, SeekOK
<1>6. Types \in SUBSET Types /\ \A t \in Types \ Types : media'[t] = media[t] /\ next'[t] = next[t]
  OBVIOUS
<1>. QED  BY <1>1, <1>3, <1>4, <1>5, <1>6, ThenCleared

LEMMA StepSwitchAudio ==
  ASSUME IInv, SwitchAudio
  PROVE  IInv'
<1>1. /\ Cleared({"audio"})
      /\ next' = [next EXCEPT !["audio"] = PacketAt("audio", mCurrentPos)]
      /\ audioChanged' = TRUE
      /\ UNCHANGED <<media, mCurrentPos, mSoughtVideoPos, mSeekFlag, catch>>
  BY DEF SwitchAudio
<1>2. OthersOK /\ "audio" \in Types /\ next \in [Types -> Nat]
  BY InvariantFacts DEF Types, OthersOK, StreamOK
<1>3. PacketAt("audio", mCurrentPos) \in 1 .. Len(media["audio"]) + 1 /\ Len(media["audio"]) \in Nat
  BY <1>2, InvariantFacts, PlaceIsInStream
<1>4. /\ next' \in [Types -> Nat]
      /\ \A t \in Types : next'[t] = IF t = "audio" THEN PacketAt("audio", mCurrentPos) ELSE next[t]
  BY <1>1, <1>2, <1>3
<1>5. \A t \in {"audio"} : next'[t] \in 1 .. Len(media'[t]) + 1
  BY <1>1, <1>2, <1>3, <1>4
<1>6. media' \in Media
  BY <1>1, <1>2 DEF OthersOK, StreamOK
<1>7. SeekOK'
  BY <1>1, <1>2 DEF OthersOK, SeekOK
<1>8. {"audio"} \in SUBSET Types /\ \A t \in Types \ {"audio"} : media'[t] = media[t] /\ next'[t] = next[t]
  BY <1>1, <1>2, <1>4
<1>. QED  BY <1>1, <1>4, <1>5, <1>6, <1>7, <1>8, ThenCleared

LEMMA StepStop ==
  ASSUME IInv, Stop
  PROVE  IInv'
<1>1. /\ Cleared(Types) /\ media' \in Media /\ next' = [t \in Types |-> 1]
      /\ mCurrentPos' = 0 /\ mSoughtVideoPos' = NoPosition
      /\ mSeekFlag' = FALSE /\ catch' = NoPosition /\ audioChanged' = FALSE
  BY DEF Stop
<1>2. \A t \in Types : Len(media'[t]) \in Nat
  BY <1>1, MediaTypes
<1>3. next' \in [Types -> Nat] /\ \A t \in Types : next'[t] \in 1 .. Len(media'[t]) + 1
  BY <1>1, <1>2
<1>4. Types \in SUBSET Types /\ \A t \in Types \ Types : media'[t] = media[t] /\ next'[t] = next[t]
  OBVIOUS
<1>5. SeekOK'
  BY <1>1 DEF SeekOK
<1>. QED  BY <1>1, <1>3, <1>4, <1>5, ThenCleared

LEMMA StepSwitchVideo ==
  ASSUME IInv, SwitchVideo
  PROVE  IInv'
<1> DEFINE q == queue["video"]
           packets == stream["video"]
           n == next["video"]
           points == SeamlessPoints(q)
           first == Min(points)
           startTime == q.mQueue[first].timePosition
           l == Len(q.mQueue)
           none == \A i \in first .. l : q.mQueue[i].extra = NoExtra
           readNow == IF none THEN extraAdded["video"] ELSE NoExtra
<1>1. /\ points # {} /\ first - q.mCurrent >= SwitchAhead
      /\ queue' = [queue EXCEPT !["video"] = ClearPacketAfterTimePosition(@, startTime)]
      /\ next' = [next EXCEPT !["video"] = PacketAt("video", startTime)]
      /\ extraAdded' = [extraAdded EXCEPT !["video"] = IF none THEN @ ELSE NoExtra]
      /\ UNCHANGED <<media, stream, mCurrentPos, mSoughtVideoPos, seekVars, extraOut>>
  BY DEF SwitchVideo
<1>2. /\ "video" \in Types /\ OthersOK /\ queue \in [Types -> Queue]
      /\ next \in [Types -> Nat] /\ extraAdded \in [Types -> Nat] /\ extraOut \in [Types -> Nat]
      /\ packets = media["video"]
  BY InvariantFacts DEF Types, OthersOK, StreamOK, ExtraOK
<1>3. /\ Kept(q, packets, n, extraAdded["video"], extraOut["video"])
      /\ Placed(q) /\ packets \in Seq(Packet) /\ InOrder(packets) /\ n \in Nat
      /\ Continues(q, packets, n)
  BY <1>2, InvariantFacts DEF Kept
<1>4. l \in Nat /\ q.mCurrent \in Nat /\ 1 <= q.mCurrent
  BY <1>3, PlacedTypes
<1>5. first \in Ahead(q) /\ first \in q.mCurrent .. l /\ Divides(q.mQueue[first])
  <2>1. points \in SUBSET Nat
    BY <1>4 DEF SeamlessPoints, Ahead
  <2> HIDE DEF points
  <2>2. first \in points
    BY <1>1, <2>1, MinOf
  <2>. QED  BY <2>2 DEF points, SeamlessPoints, Ahead, Divides
<1> HIDE DEF first, points
<1>6. /\ first # q.mCurrent /\ first - 1 \in Nat /\ q.mCurrent - 1 <= first - 1
      /\ first - 1 < l /\ first \in 1 .. l /\ (first - 1) + 1 = first
  BY <1>1, <1>4, <1>5, SwitchAssumption
<1>7. ClearPacketAfterTimePosition(q, startTime) = Cut(q, first - 1)
  <2> HIDE DEF q, packets, n
  <2>. QED  BY <1>3, <1>5, <1>6, ClearIsCut
<1>8. PacketAt("video", startTime) = n - 1 - (l - first)
  <2>1. "video" \in Types /\ first \in 1 .. Len(q.mQueue) /\ Divides(q.mQueue[first])
    BY <1>2, <1>5, <1>6
  <2>2. /\ Placed(q) /\ media["video"] \in Seq(Packet) /\ InOrder(media["video"]) /\ n \in Nat
        /\ Continues(q, media["video"], n)
    BY <1>2, <1>3
  <2> HIDE DEF q, n, packets, none, readNow, l, startTime
  <2>3. PacketAt("video", q.mQueue[first].timePosition) = n - 1 - (Len(q.mQueue) - first)
    BY <2>1, <2>2, PlaceOfPacket, ZenonT(60)
  <2>. QED  BY <2>3 DEF l, startTime
<1>9. n - 1 - (l - first) = n - (l - (first - 1))
  <2>1. n \in Nat /\ l \in Nat /\ first \in Nat
    BY <1>3, <1>4, <1>6
  <2> HIDE DEF n, l
  <2>. QED  BY <2>1
<1>10. Kept(Cut(q, first - 1), packets, n - (l - (first - 1)), readNow, extraOut["video"])
  <2> DEFINE k == first - 1
             read == extraAdded["video"]
             out == extraOut["video"]
  <2>1. readNow = NoExtra \/ (/\ readNow = read
                              /\ \A i \in k + 1 .. Len(q.mQueue) : q.mQueue[i].extra = NoExtra)
    BY <1>6
  <2>2. k \in Nat /\ q.mCurrent - 1 <= k /\ k < Len(q.mQueue)
    BY <1>6
  <2> HIDE DEF q, packets, n, k, read, out, readNow
  <2>3. Kept(Cut(q, k), packets, n - (Len(q.mQueue) - k), readNow, out)
    BY <1>3, <2>1, <2>2, KeptCut DEF read, out
  <2>. QED  BY <2>3 DEF k, out
<1>11. ASSUME NEW t \in Types
       PROVE  Kept(queue'[t], stream'[t], next'[t], extraAdded'[t], extraOut'[t])
  <2>1. CASE t = "video"
    <3>1. queue'[t] = Cut(q, first - 1)
      BY <1>1, <1>2, <1>7, <2>1
    <3>2. next'[t] = n - (l - (first - 1))
      BY <1>1, <1>2, <1>8, <1>9, <2>1
    <3>3. extraAdded'[t] = readNow /\ stream'[t] = packets /\ extraOut'[t] = extraOut["video"]
      <4> HIDE DEF none
      <4>. QED  BY <1>1, <1>2, <2>1
    <3> HIDE DEF q, packets, n, l, readNow
    <3>. QED  BY <1>10, <3>1, <3>2, <3>3
  <2>2. CASE t # "video"
    <3> HIDE DEF none
    <3>1. queue'[t] = queue[t] /\ next'[t] = next[t] /\ extraAdded'[t] = extraAdded[t]
      BY <1>1, <1>2, <2>2
    <3>. QED  BY <1>1, <3>1, InvariantFacts, Zenon
  <2>. QED  BY <2>1, <2>2
<1>12. OthersOK'
  <2>1. PacketAt("video", startTime) \in 1 .. Len(packets) + 1 /\ Len(packets) \in Nat
    BY <1>2, <1>3, InvariantFacts, PlaceIsInStream
  <2> DEFINE place == PacketAt("video", startTime)
  <2> HIDE DEF place, startTime
  <2>2. /\ next' \in [Types -> Nat]
        /\ \A t \in Types : next'[t] = IF t = "video" THEN place ELSE next[t]
    BY <1>1, <1>2, <2>1 DEF place
  <2>3. \A t \in Types : next'[t] \in 1 .. Len(stream'[t]) + 1
    BY <1>1, <1>2, <2>1, <2>2 DEF OthersOK, StreamOK, place
  <2>4. extraAdded' \in [Types -> Nat]
    <3> HIDE DEF none
    <3>. QED  BY <1>1, <1>2 DEF NoExtra
  <2>5. StreamOK'
    BY <1>1, <1>2, <2>2, <2>3, Zenon DEF OthersOK, StreamOK, StreamsInOrder
  <2>6. ExtraOK'
    BY <1>1, <1>2, <2>4, Zenon DEF ExtraOK
  <2>7. SeekOK'
    BY <1>1, <1>2, Zenon DEF OthersOK, SeekOK, seekVars
  <2>. QED  BY <2>5, <2>6, <2>7 DEF OthersOK
<1>13. IsFcnOn(queue', Types)
  BY <1>1, <1>2 DEF IsFcnOn
<1>. QED  BY <1>11, <1>12, <1>13, ThenInvariant DEF AllKept

LEMMA StepUnchanged ==
  ASSUME IInv, UNCHANGED vars
  PROVE  IInv'
<1>1. UNCHANGED <<media, stream, queue, next, mCurrentPos, mSoughtVideoPos, seekVars, extraVars>>
  BY DEF vars
<1>2. SeekOK'
  BY <1>1, InvariantFacts, Zenon DEF OthersOK, SeekOK, seekVars
<1>. QED  BY <1>1, <1>2, NothingLeft

(* Every step keeps the invariant, whichever limits are set, as long as a  *)
(* limit is never taken back.                                              *)
THEOREM InvariantStep ==
  ASSUME 0 \notin BackwardDurations
  PROVE  IInv /\ [Next]_vars => IInv'
<1> SUFFICES ASSUME IInv, [Next]_vars
             PROVE  IInv'
  OBVIOUS
<1>1. ASSUME NEW t \in Types, AddPacketOf(t)
      PROVE  IInv'
  BY <1>1, StepAddPacket
<1>2. ASSUME NEW t \in Types, GetPacket(t)
      PROVE  IInv'
  BY <1>2, StepGetPacket
<1>3. CASE LearnPacketDuration
  BY <1>3, StepLearn
<1>4. ASSUME NEW t \in Types, NEW d \in BackwardDurations, SetMaxBackward(t, d)
      PROVE  IInv'
  <2>1. d \in Nat /\ d # 0
    BY BackwardAssumption
  <2>. QED  BY <1>4, <2>1, StepSetMaxBackward
<1>5. CASE CaughtUp
  BY <1>5, StepCaughtUp
<1>6. CASE CleanLateAudio
  <2>1. /\ queue' = ClearBefore(queue, {"audio"}, mSoughtVideoPos)
        /\ UNCHANGED <<media, stream, next, mCurrentPos, mSoughtVideoPos, seekVars, extraVars>>
    BY <1>6 DEF CleanLateAudio
  <2>. QED  BY <2>1, StepClear
<1>7. ASSUME NEW pos \in Positions, DropLate(pos)
      PROVE  IInv'
  <2> DEFINE key == GetKeyTimePositionBefore(queue["video"], pos)
             from == IF key = NoPosition THEN pos ELSE key
  <2>1. /\ queue' = ClearBefore(queue, Types, from)
        /\ UNCHANGED <<media, stream, next, mCurrentPos, mSoughtVideoPos, seekVars, extraVars>>
    BY <1>7, Zenon DEF DropLate
  <2> HIDE DEF from
  <2>. QED  BY <2>1, StepClear
<1>8. ASSUME NEW pos \in Positions, ProcessSeekTo(pos)
      PROVE  IInv'
  <2>1. pos \in Nat
    BY PositionsAssumption
  <2>. QED  BY <1>8, <2>1, StepSeekCached, StepSeekInSource DEF ProcessSeekTo
<1>9. CASE SwitchVideo
  BY <1>9, StepSwitchVideo
<1>10. CASE SwitchAudio
  BY <1>10, StepSwitchAudio
<1>11. CASE Stop
  BY <1>11, StepStop
<1>12. CASE UNCHANGED vars
  BY <1>12, StepUnchanged
<1>13. CASE DiscardAudio
  BY <1>13, StepDiscardAudio
<1>14. ASSUME NEW pos \in Positions, SeekTo(pos)
       PROVE  IInv'
  BY <1>14, StepSeekTo
<1>15. CASE EndSeek
  BY <1>15, StepEndSeek
<1>. QED  BY <1>1, <1>2, <1>3, <1>4, <1>5, <1>6, <1>7, <1>8, <1>9, <1>10, <1>11, <1>12,
              <1>13, <1>14, <1>15, Zenon DEF Next

(* So the invariant holds always.                                          *)
THEOREM Invariance ==
  ASSUME 0 \notin BackwardDurations
  PROVE  Spec => []IInv
<1>1. Init => IInv
  BY InvariantInit
<1>2. IInv /\ [Next]_vars => IInv'
  BY InvariantStep
<1>. QED  BY <1>1, <1>2, PTL DEF Spec

(* The cursor of a queue is on one of its packets or at the end, whatever  *)
(* was taken, dropped or rewound.                                          *)
THEOREM TypeCorrect ==
  ASSUME 0 \notin BackwardDurations
  PROVE  Spec => []TypeOK
<1>1. IInv => TypeOK
  BY DEF IInv
<1>. QED  BY <1>1, Invariance, PTL

(* The counters that buffering is decided on are the sums of the durations *)
(* they stand for, for streams of any length and durations of any size.    *)
THEOREM CountersAreSums ==
  ASSUME 0 \notin BackwardDurations
  PROVE  Spec => []DurationsMatch
<1>1. IInv => DurationsMatch
  BY DEF IInv
<1>. QED  BY <1>1, Invariance, PTL

(* No seek, switch or trimming leaves a gap between the packets, or reads  *)
(* one twice: none is missing of the video, and of the audio only what     *)
(* ReadPacket() discards, wherever it does so.                             *)
THEOREM NoGap ==
  ASSUME 0 \notin BackwardDurations
  PROVE  Spec => []CacheIsContiguous
<1>1. IInv => CacheIsContiguous
  BY DEF IInv
<1>. QED  BY <1>1, Invariance, PTL

LEMMA NewestIsFound ==
  ASSUME NEW q, Sound(q), NEW read, NEW out, ExtraInLine(q, read, out), q.mMAXBackwardDuration = 0
  PROVE  read \in {NoExtra, out, q.mDropedExtra} \cup {q.mQueue[i].extra : i \in Ahead(q)}
<1> DEFINE l == Len(q.mQueue)
           some == {i \in 1 .. l : q.mQueue[i].extra # NoExtra}
<1>1. l \in Nat /\ q.mCurrent = 1 /\ Ahead(q) = 1 .. l
  BY PlacedTypes DEF Sound, Tallied, Ahead
<1>2. InLine(q.mQueue, q.mDropedExtra, read, out)
  BY ExtraIsInLine DEF Sound, Tallied
<1>3. CASE read = NoExtra
  BY <1>3
<1>4. CASE read # NoExtra /\ some = {}
  <2>1. WithoutExtra(q.mQueue)
    BY <1>4 DEF WithoutExtra
  <2>. QED  BY <1>2, <1>4, <2>1 DEF InLine
<1>5. CASE read # NoExtra /\ some # {}
  <2>1. some \in SUBSET (0 .. l)
    BY <1>1
  <2> DEFINE i == Max(some)
  <2>2. i \in some /\ \A j \in some : j <= i
    <3> HIDE DEF some, l
    <3>. QED  BY <1>1, <1>5, <2>1, MaxOf
  <2> HIDE DEF i
  <2>3. LastExtra(q.mQueue, i)
    <3>1. ASSUME NEW j \in 1 .. l, j > i
          PROVE  q.mQueue[j].extra = NoExtra
      <4>1. ~ (j <= i)
        BY <1>1, <2>2, <3>1
      <4>. QED  BY <2>2, <4>1
    <3>. QED  BY <2>2, <3>1 DEF LastExtra
  <2>4. q.mQueue[i].extra = read /\ i \in Ahead(q)
    BY <1>1, <1>2, <1>5, <2>2, <2>3 DEF InLine
  <2>. QED  BY <2>4
<1>. QED  BY <1>3, <1>4, <1>5

(* The decoder's newest parameters are not lost with the packets that are  *)
(* dropped, while nothing is kept behind the cursor.                       *)
THEOREM ParametersKept ==
  ASSUME 0 \notin BackwardDurations
  PROVE  Spec => []ExtraDataKept
<1>1. IInv => ExtraDataKept
  <2> SUFFICES ASSUME IInv, NEW t \in Types, queue[t].mMAXBackwardDuration = 0
               PROVE  extraAdded[t] \in {NoExtra, extraOut[t], queue[t].mDropedExtra}
                                       \cup {queue[t].mQueue[i].extra : i \in Ahead(queue[t])}
    BY DEF ExtraDataKept
  <2>1. Sound(queue[t]) /\ ExtraInLine(queue[t], extraAdded[t], extraOut[t])
    BY InvariantFacts DEF Kept
  <2>. QED  BY <2>1, NewestIsFound
<1>. QED  BY <1>1, Invariance, PTL

-----------------------------------------------------------------------------
(* Where a seek in the cache leads                                         *)

LEMMA BehindStays ==
  ASSUME NEW q, Sound(q), NEW pos \in Int, NEW bound \in Int, pos <= bound,
         \A i \in 1 .. q.mCurrent - 1 : q.mQueue[i].timePosition < bound,
         NEW r, r = ClearPacketBeforeTimePos(q, pos)
  PROVE  Sound(r) /\ \A i \in 1 .. r.mCurrent - 1 : r.mQueue[i].timePosition < bound
<1>1. LeftOf(r, q) /\ Sound(r) /\ Placed(r) /\ Placed(q)
  BY LeftCleared DEF LeftOf, Sound, Tallied
<1>2. PICK m : LateUpTo(q, pos, m) /\ Rest(r) = Rest(q) - m
  BY LeftCleared
<1> DEFINE l == Len(q.mQueue)
           k == Len(r.mQueue)
           c == q.mCurrent
           d == r.mCurrent
<1>3. /\ l \in Nat /\ k \in Nat /\ c \in Nat /\ d \in Nat /\ 1 <= c /\ 1 <= d
      /\ c - 1 <= l /\ d - 1 <= k
      /\ \A j \in 1 .. l : q.mQueue[j] \in Packet
  BY <1>1, PlacedTypes
<1>4. k <= l /\ \A i \in 1 .. k : Alike(r.mQueue[i], q.mQueue[l - k + i])
  BY <1>1, Zenon DEF LeftOf, EndOf
<1>5. m \in Nat /\ \A i \in c .. c + m - 1 : q.mQueue[i].timePosition < pos
  BY <1>2 DEF LateUpTo
<1>6. k + 1 - d = (l + 1 - c) - m
  BY <1>2 DEF Rest
<1> HIDE DEF l, k, c, d
<1>7. ASSUME NEW i \in 1 .. d - 1
      PROVE  r.mQueue[i].timePosition < bound
  <2> DEFINE j == l - k + i
  <2>1. i \in 1 .. k /\ j \in 1 .. l /\ j < c + m
    BY <1>3, <1>4, <1>5, <1>6
  <2>2. r.mQueue[i].timePosition = q.mQueue[j].timePosition
    BY <1>4, <2>1 DEF Alike
  <2> HIDE DEF j
  <2>3. q.mQueue[j].timePosition \in Nat
    BY <1>3, <2>1 DEF Packet
  <2>4. CASE j < c
    <3>1. j \in 1 .. c - 1
      BY <1>3, <2>1, <2>4
    <3>2. q.mQueue[j].timePosition < bound
      BY <3>1 DEF c
    <3>. QED  BY <2>2, <3>2
  <2>5. CASE ~ (j < c)
    <3>1. j \in c .. c + m - 1
      BY <1>3, <1>5, <2>1, <2>5
    <3>2. q.mQueue[j].timePosition < pos
      BY <1>5, <3>1
    <3>. QED  BY <2>2, <2>3, <3>2
  <2>. QED  BY <2>4, <2>5
<1>. QED  BY <1>1, <1>7 DEF d

LEMMA SeekBackStep ==
  ASSUME IInv, NEW pos \in Positions, SeekCached(pos), SoughtBack(pos), NEW t \in Types
  PROVE  \A i \in 1 .. queue'[t].mCurrent - 1 : queue'[t].mQueue[i].timePosition < pos
<1> DEFINE key == KeyBefore(pos)
           q == RewoundFor(pos)[t]
           sought == ClearBefore(RewoundFor(pos), Types, key)
           r == sought[t]
<1>1. /\ key # NoPosition
      /\ \/ queue' = sought
         \/ queue' = ClearBefore(sought, {"audio"}, pos)
  BY Zenon DEF SeekCached, SeekInCache
<1>2. key \in Int /\ key <= pos /\ pos \in Int
  <2> DEFINE main == RewoundFor(pos)[Main]
  <2>1. Placed(main) /\ GetKeyTimePositionBefore(main, pos) = key
    BY RewoundLeft, MainIsType DEF KeyBefore
  <2> HIDE DEF main, key
  <2>2. PICK k \in 1 .. Len(main.mQueue) :
           key = main.mQueue[k].timePosition /\ main.mQueue[k].timePosition <= pos
    BY <1>1, <2>1, KeyFound
  <2>3. main.mQueue[k] \in Packet
    BY <2>1, PlacedTypes
  <2>. QED  BY <2>2, <2>3, PositionsAssumption DEF Packet
<1>3. Sound(q) /\ q.mCurrent = 1
  BY RewoundLeft
<1>4. r = ClearPacketBeforeTimePos(q, key)
  BY Zenon DEF ClearBefore
<1> HIDE DEF key, q
<1>5. Sound(r) /\ \A i \in 1 .. r.mCurrent - 1 : r.mQueue[i].timePosition < pos
  <2>1. \A i \in 1 .. q.mCurrent - 1 : q.mQueue[i].timePosition < pos
    BY <1>3
  <2> HIDE DEF r
  <2>. QED  BY <1>2, <1>3, <1>4, <2>1, BehindStays
<1>6. CASE queue' = sought
  BY <1>5, <1>6
<1>7. CASE queue' = ClearBefore(sought, {"audio"}, pos)
  <2>1. queue'[t] = IF t \in {"audio"} THEN ClearPacketBeforeTimePos(r, pos) ELSE r
    BY <1>7, Zenon DEF ClearBefore
  <2> HIDE DEF r
  <2>2. CASE t \in {"audio"}
    <3>1. queue'[t] = ClearPacketBeforeTimePos(r, pos)
      BY <2>1, <2>2
    <3>2. pos <= pos
      BY <1>2
    <3>. QED  BY <1>2, <1>5, <3>1, <3>2, BehindStays
  <2>3. CASE t \notin {"audio"}
    BY <1>5, <2>1, <2>3
  <2>. QED  BY <2>2, <2>3
<1>. QED  BY <1>1, <1>6, <1>7

(* After a seek backwards in the cache no stream has a packet at or after  *)
(* the position behind its cursor, where the decoder would miss it.        *)
THEOREM SeekBackMissesNothing ==
  ASSUME 0 \notin BackwardDurations
  PROVE  Spec => SeekBackIsAligned
<1>1. IInv /\ [Next]_vars =>
        [\A pos \in Positions :
           SeekCached(pos) /\ SoughtBack(pos) =>
             \A t \in Types : \A i \in 1 .. queue'[t].mCurrent - 1 :
                 queue'[t].mQueue[i].timePosition < pos]_vars
  BY SeekBackStep
<1>. QED  BY <1>1, Invariance, PTL DEF Spec, SeekBackIsAligned

(* Dropping what is before the last key at or before a position leaves the *)
(* cursor on that key.                                                     *)
LEMMA ClearLands ==
  ASSUME NEW q, Sound(q), ~ AtEnd(q), NEW packets \in Seq(Packet), NEW n \in Nat,
         Continues(q, packets, n), InOrder(packets), NEW pos, NEW key,
         key = GetKeyTimePositionBefore(q, pos), key # NoPosition,
         NEW r, r = ClearPacketBeforeTimePos(q, key)
  PROVE  /\ ~ AtEnd(r)
         /\ Current(r).key /\ Current(r).timePosition <= pos
         /\ \A i \in DOMAIN r.mQueue :
              r.mQueue[i].key /\ r.mQueue[i].timePosition <= pos => i <= r.mCurrent
<1>1. LeftOf(r, q) /\ Sound(r) /\ Placed(r) /\ Placed(q)
  BY LeftCleared DEF LeftOf, Sound, Tallied
<1>2. PICK m : LateUpTo(q, key, m) /\ Rest(r) = Rest(q) - m
  BY LeftCleared
<1>3. PICK k \in 1 .. Len(q.mQueue) :
            /\ q.mQueue[k].key /\ q.mQueue[k].timePosition <= pos
            /\ key = q.mQueue[k].timePosition
            /\ q.mCurrent <= k
            /\ \A i \in 1 .. Len(q.mQueue) :
                  i >= q.mCurrent /\ q.mQueue[i].key /\ q.mQueue[i].timePosition <= pos => i <= k
  BY <1>1, KeyFound
<1> DEFINE l == Len(q.mQueue)
           o == Len(r.mQueue)
           c == q.mCurrent
           d == r.mCurrent
<1>4. /\ l \in Nat /\ o \in Nat /\ c \in Nat /\ d \in Nat /\ 1 <= c /\ 1 <= d
      /\ DOMAIN r.mQueue = 1 .. o
      /\ \A j \in 1 .. l : q.mQueue[j] \in Packet
  BY <1>1, PlacedTypes
<1>5. o <= l /\ \A i \in 1 .. o : Alike(r.mQueue[i], q.mQueue[l - o + i])
  BY <1>1, Zenon DEF LeftOf, EndOf
<1>6. /\ m \in Nat /\ \A i \in c .. c + m - 1 : q.mQueue[i].timePosition < key
      /\ c + m <= l => ~ (q.mQueue[c + m].timePosition < key)
  BY <1>2, <1>4 DEF LateUpTo, Rest
<1>7. o + 1 - d = (l + 1 - c) - m
  BY <1>2 DEF Rest
<1>8. \A j \in 1 .. l : j < k => q.mQueue[j].timePosition < key
  <2>1. Divides(q.mQueue[k])
    BY <1>3 DEF Divides
  <2>. QED  BY <1>1, <1>3, <2>1, QueueInOrder
<1>9. key \in Nat
  BY <1>3, <1>4 DEF Packet
<1>10. k \in 1 .. l /\ c <= k /\ key = q.mQueue[k].timePosition
  BY <1>3
<1> HIDE DEF l, o, c, d
<1>11. c + m = k
  <2>1. ~ (c + m > k)
    <3> SUFFICES ASSUME c + m > k
                 PROVE  FALSE
      OBVIOUS
    <3>1. k \in c .. c + m - 1
      BY <1>4, <1>6, <1>10
    <3>. QED  BY <1>6, <1>9, <1>10, <3>1
  <2>2. ~ (c + m < k)
    <3> SUFFICES ASSUME c + m < k
                 PROVE  FALSE
      OBVIOUS
    <3> DEFINE j == c + m
    <3>1. j \in 1 .. l /\ j < k /\ c + m <= l
      BY <1>4, <1>6, <1>10
    <3>. QED  BY <1>6, <1>8, <3>1
  <2>. QED  BY <1>4, <1>6, <1>10, <2>1, <2>2
<1>12. d \in 1 .. o /\ l - o + d = k
  <2>1. m \in Nat
    BY <1>6
  <2>. QED  BY <1>4, <1>5, <1>7, <1>10, <1>11, <2>1
<1>13. ~ AtEnd(r)
  BY <1>4, <1>12 DEF AtEnd, o, d
<1>14. Current(r).key /\ Current(r).timePosition <= pos
  <2>1. Alike(r.mQueue[d], q.mQueue[k])
    BY <1>5, <1>12
  <2>. QED  BY <1>3, <2>1 DEF Alike, Current, d
<1>15. ASSUME NEW i \in DOMAIN r.mQueue, r.mQueue[i].key, r.mQueue[i].timePosition <= pos
       PROVE  i <= r.mCurrent
  <2> DEFINE j == l - o + i
  <2>1. i \in 1 .. o /\ j \in 1 .. l
    BY <1>4, <1>5
  <2>2. Alike(r.mQueue[i], q.mQueue[j])
    BY <1>5, <2>1
  <2>3. j >= c => j <= k
    <3>1. j \in 1 .. Len(q.mQueue) /\ q.mQueue[j].key /\ q.mQueue[j].timePosition <= pos
      BY <1>15, <2>1, <2>2 DEF Alike, l
    <3> HIDE DEF j
    <3>. QED  BY <1>3, <3>1 DEF c
  <2>4. j <= k
    BY <1>4, <1>10, <2>1, <2>3
  <2>5. i <= d
    BY <1>4, <1>5, <1>12, <2>1, <2>4
  <2>. QED  BY <2>5 DEF d
<1>. QED  BY <1>13, <1>14, <1>15

(* A key that is near is one of the video, so there is some.               *)
LEMMA NearHasVideo ==
  ASSUME IInv, NEW pos, NEW key, KeyIsNear(ClearBefore(RewoundFor(pos), Types, key), pos)
  PROVE  Has("video")
<1> DEFINE q == queue["video"]
           w == RewoundFor(pos)["video"]
           r == ClearBefore(RewoundFor(pos), Types, key)["video"]
<1>1. "video" \in Types
  BY DEF Types
<1>2. /\ Sound(q) /\ next["video"] \in Nat /\ stream["video"] = media["video"]
      /\ Kept(q, stream["video"], next["video"], extraAdded["video"], extraOut["video"])
  BY <1>1, InvariantFacts
<1>3. LeftOf(w, q) /\ Sound(w)
  BY <1>1, RewoundLeft
<1>4. LeftOf(r, w)
  BY <1>1, <1>3, ClearBeforeLeft
<1>5. GetKeyTimePositionBefore(r, pos) # NoPosition
  BY Zenon DEF KeyIsNear
<1> HIDE DEF q, w, r
<1>6. LeftOf(r, q)
  BY <1>2, <1>3, <1>4, LeftOfLeft
<1>7. Continues(r, stream["video"], next["video"]) /\ Placed(r)
  BY <1>2, <1>6, KeptLeft DEF Kept, Sound, Tallied
<1>8. PICK k \in 1 .. Len(r.mQueue) : TRUE
  BY <1>5, <1>7, KeyFound
<1>9. DOMAIN r.mQueue = 1 .. Len(r.mQueue)
  BY <1>7, PlacedTypes
<1>10. DOMAIN stream["video"] # {}
  BY <1>7, <1>8, <1>9 DEF Continues
<1>. QED  BY <1>2, <1>10 DEF Has

LEMMA SeekLandsStep ==
  ASSUME IInv, NEW pos \in Positions, SeekCached(pos), ~ AtEnd(queue[Main])
  PROVE  LET q == queue'[Main] IN
         /\ ~ AtEnd(q)
         /\ Current(q).key /\ Current(q).timePosition <= pos
         /\ \A i \in DOMAIN q.mQueue :
              q.mQueue[i].key /\ q.mQueue[i].timePosition <= pos => i <= q.mCurrent
<1> DEFINE key == KeyBefore(pos)
           q == RewoundFor(pos)[Main]
           packets == stream[Main]
           n == next[Main]
           sought == ClearBefore(RewoundFor(pos), Types, key)
           r == queue'[Main]
<1>1. /\ key # NoPosition /\ key = GetKeyTimePositionBefore(q, pos)
      /\ \/ queue' = sought
         \/ queue' = ClearBefore(sought, {"audio"}, pos) /\ KeyIsNear(sought, pos)
  BY Zenon DEF SeekCached, SeekInCache, KeyBefore
<1>2. Main \in Types
  BY MainIsType
<1>3. /\ Continues(queue[Main], packets, n) /\ Placed(queue[Main])
      /\ packets \in Seq(Packet) /\ InOrder(packets) /\ n \in Nat
  BY <1>2, InvariantFacts DEF Kept
<1>4. /\ Sound(q) /\ q.mQueue = queue[Main].mQueue
      /\ SoughtBack(pos) => q.mCurrent = 1
      /\ ~ SoughtBack(pos) => q = queue[Main]
  BY <1>2, RewoundLeft DEF RewoundFor
<1>5. r = ClearPacketBeforeTimePos(q, key)
  <2>1. sought[Main] = ClearPacketBeforeTimePos(q, key)
    BY <1>2, Zenon DEF ClearBefore
  <2>2. CASE queue' = sought
    BY <2>1, <2>2
  <2>3. CASE queue' = ClearBefore(sought, {"audio"}, pos) /\ KeyIsNear(sought, pos)
    <3>1. Main \notin {"audio"}
      <4> HIDE DEF key
      <4>. QED  BY <2>3, NearHasVideo DEF Main
    <3> HIDE DEF sought, q, key
    <3>2. queue'[Main] = sought[Main]
      BY <1>2, <2>3, <3>1, Zenon DEF ClearBefore
    <3>. QED  BY <2>1, <3>2
  <2> HIDE DEF sought, q, key
  <2>. QED  BY <1>1, <2>2, <2>3
<1> HIDE DEF q, key, r
<1>6. ~ AtEnd(q)
  <2>1. queue[Main].mCurrent <= Len(queue[Main].mQueue)
    BY <1>3, PlacedTypes DEF AtEnd
  <2>2. 1 <= queue[Main].mCurrent /\ queue[Main].mCurrent \in Nat /\ Len(queue[Main].mQueue) \in Nat
    BY <1>3, PlacedTypes
  <2>. QED  BY <1>4, <2>1, <2>2 DEF AtEnd
<1>7. Continues(q, packets, n)
  BY <1>3, <1>4, Zenon DEF Continues
<1> HIDE DEF packets, n
<1>8. /\ ~ AtEnd(r)
      /\ Current(r).key /\ Current(r).timePosition <= pos
      /\ \A i \in DOMAIN r.mQueue :
           r.mQueue[i].key /\ r.mQueue[i].timePosition <= pos => i <= r.mCurrent
  BY <1>1, <1>3, <1>4, <1>5, <1>6, <1>7, ClearLands
<1>. QED  BY <1>8 DEF r

(* A seek in the cache goes on from the last key at or before the position *)
(* among all packets that are kept, however the pictures between the keys  *)
(* are ordered, and although it is found by its time position alone.       *)
THEOREM SeekFindsKey ==
  ASSUME 0 \notin BackwardDurations
  PROVE  Spec => SeekLandsOnKey
<1>1. IInv /\ [Next]_vars =>
        [\A pos \in Positions :
           SeekCached(pos) /\ ~ AtEnd(queue[Main]) =>
             LET q == queue'[Main] IN
             /\ ~ AtEnd(q)
             /\ Current(q).key /\ Current(q).timePosition <= pos
             /\ \A i \in DOMAIN q.mQueue :
                  q.mQueue[i].key /\ q.mQueue[i].timePosition <= pos => i <= q.mCurrent]_vars
  BY SeekLandsStep
<1>. QED  BY <1>1, Invariance, PTL DEF Spec, SeekLandsOnKey
=============================================================================
