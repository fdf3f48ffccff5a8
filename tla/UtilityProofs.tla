---------------------------- MODULE UtilityProofs ----------------------------
(***************************************************************************)
(* upper_bound and sort of utility.h, for sequences of any elements and    *)
(* any length their counts can have.  The functions they are defined by    *)
(* recur over positions; that such functions exist and what their values   *)
(* are follows from the least position at which it would not be so.        *)
(***************************************************************************)
EXTENDS Utility, WellFoundedInduction, TLAPS

LEMMA LeastNat ==
  ASSUME NEW S \in SUBSET Nat, S # {}
  PROVE  \E x \in S : \A y \in S : x <= y
  <1>1. PICK x \in S : \A y \in S : ~(<<y, x>> \in OpToRel(<, Nat))
    BY NatLessThanWellFounded, WFMin
  <1>2. \A y \in S : ~(y < x)
    BY <1>1 DEF OpToRel
  <1> QED
    BY <1>2

(* A set of numbers with 0 that has with each number the next one.         *)
LEMMA FromZeroOn ==
  ASSUME NEW S, 0 \in S, \A n \in Nat : n \in S => n + 1 \in S
  PROVE  Nat \subseteq S
  <1> SUFFICES ASSUME ~(Nat \subseteq S) PROVE FALSE
    OBVIOUS
  <1>1. PICK x \in Nat \ S : \A y \in Nat \ S : x <= y
    BY LeastNat
  <1>2. x # 0 /\ x - 1 \in Nat /\ x - 1 \in S
    BY <1>1
  <1>3. (x - 1) + 1 \in S
    BY <1>2
  <1> QED
    BY <1>1, <1>3

-----------------------------------------------------------------------------
(* upper_bound.  The bits of Powers count up to here.                      *)
CountLimit == 2147483648

LEMMA PowersDouble ==
  /\ Powers \subseteq Nat /\ 1 \in Powers
  /\ \A b \in Powers : b >= 1 /\ (b = 1 \/ \E a \in Powers : b = 2 * a)
  /\ \A b, c \in Powers : b < c => 2 * b \in Powers /\ 2 * b <= c
  /\ \A n \in Nat : n < CountLimit => \E p \in Powers : n < 2 * p
  <1>1. Powers \subseteq Nat /\ 1 \in Powers
    BY SMT DEF Powers
  <1>2. \A b \in Powers : b >= 1 /\ (b = 1 \/ \E a \in Powers : b = 2 * a)
    BY SMT DEF Powers
  <1>3. \A b, c \in Powers : b < c => 2 * b \in Powers /\ 2 * b <= c
    BY SMT DEF Powers
  <1>4. 1073741824 \in Powers /\ CountLimit = 2 * 1073741824
    BY SMT DEF Powers, CountLimit
  <1>5. \A n \in Nat : n < CountLimit => \E p \in Powers : n < 2 * p
    BY SMT, <1>4
  <1> QED
    BY SMT, <1>1, <1>2, <1>3, <1>5

(* The highest bit that can be set in a position is not above the count.   *)
LEMMA HighestBit ==
  ASSUME NEW n \in Nat, n >= 1, n < CountLimit
  PROVE  BitFloor(n) \in Powers /\ BitFloor(n) <= n /\ n < 2 * BitFloor(n)
  <1> DEFINE S == {p \in Powers : n < 2 * p}
  <1>1. PICK p \in S : \A q \in S : p <= q
    BY PowersDouble, LeastNat
  <1>2. p <= n
    <2> SUFFICES ASSUME p > n PROVE FALSE
      BY PowersDouble
    <2>1. PICK q \in Powers : p = 2 * q
      BY <1>1, PowersDouble
    <2>2. q \in S /\ q < p
      BY <2>1, PowersDouble
    <2> QED
      BY <1>1, <2>2, PowersDouble
  <1> QED
    BY <1>1, <1>2 DEF BitFloor

(* The bits of c from b on are those from 2b on and perhaps b.             *)
LEMMA BitsFrom ==
  ASSUME NEW c \in Nat, NEW b \in Nat, b >= 1
  PROVE  /\ c \div b \in Nat /\ (c \div b) * b \in Nat
         /\ (c \div b) * b <= c /\ c < (c \div b) * b + b
  BY Z3

LEMMA MultiplesApart ==
  ASSUME NEW b \in Nat, NEW k \in Nat, NEW m \in Nat, k < m
  PROVE  k * b + b <= m * b
  <1>1. PICK d \in Nat : m = k + 1 + d
    <2>1. m - k - 1 \in Nat /\ m = k + 1 + (m - k - 1)
      OBVIOUS
    <2> QED
      BY <2>1
  <1>2. m * b = k * b + b + d * b /\ d * b \in Nat /\ k * b \in Nat
    BY <1>1, Z3
  <1> QED
    BY <1>2

LEMMA OneMultiple ==
  ASSUME NEW c \in Nat, NEW b \in Nat, NEW k \in Nat, NEW m \in Nat,
         k * b <= c, c < k * b + b, m * b <= c, c < m * b + b
  PROVE  k * b = m * b
  <1>1. k * b \in Nat /\ m * b \in Nat
    BY Z3
  <1>2. CASE k < m
    BY <1>1, <1>2, MultiplesApart
  <1>3. CASE m < k
    BY <1>1, <1>3, MultiplesApart
  <1> QED
    BY <1>2, <1>3

LEMMA NextBit ==
  ASSUME NEW c \in Nat, NEW b \in Nat, b >= 1
  PROVE  (c \div b) * b = IF (c \div (2 * b)) * (2 * b) + b <= c
                          THEN (c \div (2 * b)) * (2 * b) + b
                          ELSE (c \div (2 * b)) * (2 * b)
  <1> DEFINE k == c \div (2 * b)
             q == c \div b
  <1>1. /\ k \in Nat /\ k * (2 * b) \in Nat
        /\ k * (2 * b) <= c /\ c < k * (2 * b) + 2 * b
    <2>1. 2 * b \in Nat /\ 2 * b >= 1
      OBVIOUS
    <2> QED
      BY <2>1, BitsFrom
  <1>2. q \in Nat /\ q * b \in Nat /\ q * b <= c /\ c < q * b + b
    BY BitsFrom
  <1> HIDE DEF k, q
  <1>3. (2 * k) * b = k * (2 * b) /\ (2 * k + 1) * b = k * (2 * b) + b
    BY <1>1, Z3
  <1>4. CASE k * (2 * b) + b <= c
    <2>1. q * b = (2 * k + 1) * b
      BY <1>1, <1>2, <1>3, <1>4, OneMultiple
    <2> QED
      BY <1>3, <1>4, <2>1 DEF k, q
  <1>5. CASE ~(k * (2 * b) + b <= c)
    <2>1. q * b = (2 * k) * b
      BY <1>1, <1>2, <1>3, <1>5, OneMultiple
    <2> QED
      BY <1>3, <1>5, <2>1 DEF k, q
  <1> QED
    BY <1>4, <1>5

(* How many elements of an ascending sequence are not greater.             *)
LEMMA NotGreater ==
  ASSUME NEW s \in Seq(Int), \A i, j \in 1 .. Len(s) : i <= j => s[i] <= s[j], NEW value \in Int
  PROVE  \E c \in 0 .. Len(s) : \A i \in 1 .. Len(s) : s[i] <= value <=> i <= c
  <1> DEFINE S == {n \in Nat : n >= Len(s) \/ value < s[n + 1]}
  <1>1. Len(s) \in S
    OBVIOUS
  <1>2. PICK c \in S : \A n \in S : c <= n
    BY <1>1, LeastNat
  <1>3. c \in 0 .. Len(s)
    BY <1>1, <1>2
  <1>4. ASSUME NEW i \in 1 .. Len(s), i <= c PROVE s[i] <= value
    <2>1. i - 1 \in Nat /\ i - 1 < c /\ (i - 1) + 1 = i /\ s[i] \in Int
      BY <1>4
    <2>2. i - 1 \notin S
      <3> HIDE DEF S
      <3>1. c \in Nat
        BY DEF S
      <3> QED
        BY <2>1, <1>2, <3>1
    <2> QED
      BY <2>1, <2>2
  <1>5. ASSUME NEW i \in 1 .. Len(s), c < i PROVE value < s[i]
    <2>1. c + 1 \in 1 .. Len(s) /\ c + 1 <= i /\ s[c + 1] \in Int /\ s[i] \in Int
      BY <1>3, <1>5
    <2>2. value < s[c + 1]
      BY <1>2, <2>1
    <2> QED
      BY <2>1, <2>2
  <1>6. \A i \in 1 .. Len(s) : s[i] \in Int
    OBVIOUS
  <1>7. \A i \in 1 .. Len(s) : s[i] <= value <=> i <= c
    BY <1>3, <1>4, <1>5, <1>6
  <1> QED
    BY <1>3, <1>7

(* upper_bound finds the first element that is greater, of any ascending   *)
(* sequence whose length has fewer than 32 bits: the search by bits looks  *)
(* at no position outside, and equal elements are gone past.               *)
THEOREM UpperBoundIsExact ==
  ASSUME NEW s \in Seq(Int), \A i, j \in 1 .. Len(s) : i <= j => s[i] <= s[j], NEW value \in Int,
         Len(s) + 1 < CountLimit
  PROVE  /\ UpperBound(s, value) \in 1 .. Len(s) + 1
         /\ \A i \in 1 .. Len(s) : s[i] <= value <=> i < UpperBound(s, value)
  <1>1. PICK c \in 0 .. Len(s) : \A i \in 1 .. Len(s) : s[i] <= value <=> i <= c
    BY NotGreater
  <1>2. \A i \in 1 .. Len(s) : s[i] \in Int
    OBVIOUS
  <1> DEFINE H == BitFloor(Len(s) + 1)
             D == {p \in Powers : p <= H}
             Step(f, b) == Probe(s, value, IF b = H THEN 0 ELSE f[2 * b], b)
             Bits == [b \in D |-> (c \div b) * b]
             Mid == CHOOSE f : f = [b \in D |-> Step(f, b)]
  <1>3. H \in Powers /\ H <= Len(s) + 1 /\ Len(s) + 1 < 2 * H
    BY HighestBit
  <1>4. ASSUME NEW m \in Nat, NEW b \in Powers
        PROVE  Probe(s, value, m, b) = IF m + b <= c THEN m + b ELSE m
    <2>1. b \in Nat /\ b >= 1
      BY PowersDouble
    <2>2. CASE m + b <= Len(s)
      BY <2>1, <2>2, <1>1, <1>2 DEF Probe
    <2>3. CASE m + b > Len(s)
      BY <2>1, <2>3, <1>1 DEF Probe
    <2> QED
      BY <2>1, <2>2, <2>3
  <1>5. ASSUME NEW b \in D, NEW m, m = IF b = H THEN 0 ELSE (c \div (2 * b)) * (2 * b)
        PROVE  Probe(s, value, m, b) = (c \div b) * b
    <2> HIDE DEF H
    <2>1. b \in Powers /\ c \in Nat /\ 2 * b \in Nat /\ b \in Nat /\ b >= 1 /\ 2 * b >= 1
      BY PowersDouble
    <2>2. m = (c \div (2 * b)) * (2 * b)
      <3>1. ASSUME b = H PROVE (c \div (2 * b)) * (2 * b) = 0
        <4>1. c < 2 * b
          BY <1>3, <2>1, <3>1
        <4>2. 0 * (2 * b) = 0
          BY <2>1
        <4>3. /\ c \div (2 * b) \in Nat /\ (c \div (2 * b)) * (2 * b) <= c
              /\ c < (c \div (2 * b)) * (2 * b) + 2 * b
          BY <2>1, BitsFrom
        <4> QED
          <5> DEFINE d == 2 * b
                     k == c \div d
          <5>1. d \in Nat /\ 0 * d <= c /\ c < 0 * d + d
            BY <2>1, <4>1, <4>2
          <5>2. k \in Nat /\ k * d <= c /\ c < k * d + d
            BY <4>3
          <5> HIDE DEF d, k
          <5>3. k * d = 0 * d
            BY <5>1, <5>2, <2>1, OneMultiple
          <5> QED
            BY <5>3, <4>2 DEF d, k
      <3> QED
        BY <3>1, <1>5
    <2>3. m \in Nat
      BY <2>1, <2>2, BitsFrom
    <2>4. Probe(s, value, m, b) = IF m + b <= c THEN m + b ELSE m
      BY <2>1, <2>3, <1>4
    <2>5. (c \div b) * b = IF m + b <= c THEN m + b ELSE m
      BY <2>1, <2>2, NextBit
    <2> QED
      BY <2>4, <2>5
  <1>6. ASSUME NEW b \in D, b # H PROVE 2 * b \in D
    <2> HIDE DEF H
    <2>1. b \in Nat /\ H \in Nat /\ b < H /\ 2 * b \in Powers /\ 2 * b <= H
      BY <1>3, <1>6, PowersDouble
    <2> QED
      BY <2>1
  <1>7. Bits = [b \in D |-> Step(Bits, b)]
    <2>1. ASSUME NEW b \in D PROVE Step(Bits, b) = (c \div b) * b
      <3>1. CASE b = H
        BY <3>1, <1>5
      <3>2. CASE b # H
        <4>1. Bits[2 * b] = (c \div (2 * b)) * (2 * b)
          BY <1>6, <3>2
        <4> HIDE DEF Bits, H, D
        <4> QED
          BY <3>2, <4>1, <1>5
      <3> QED
        BY <3>1, <3>2
    <2> HIDE DEF Step, D
    <2> QED
      BY <2>1
  <1>8. Mid = [b \in D |-> Step(Mid, b)]
    <2> HIDE DEF Step, D, Bits
    <2> QED
      BY <1>7
  <1>9. \A b \in D : Mid[b] = (c \div b) * b
    <2> SUFFICES ASSUME NEW b1 \in D, Mid[b1] # (c \div b1) * b1 PROVE FALSE
      OBVIOUS
    <2> DEFINE Bad == {n \in Nat : \E b \in D : n = H - b /\ Mid[b] # (c \div b) * b}
    <2> HIDE DEF H, Mid
    <2>1. H - b1 \in Bad
      BY <1>3, PowersDouble
    <2>2. PICK n \in Bad : \A k \in Bad : n <= k
      BY <2>1, LeastNat
    <2>3. PICK b \in D : n = H - b /\ Mid[b] # (c \div b) * b
      BY <2>2
    <2>4. Mid[b] = Step(Mid, b)
      <3> HIDE DEF Step, D
      <3> QED
        BY <1>8
    <2>5. CASE b = H
      BY <2>3, <2>4, <2>5, <1>5
    <2>6. CASE b # H
      <3>1. 2 * b \in D
        BY <2>6, <1>6
      <3>2. H - 2 * b \in Nat /\ H - 2 * b < n
        BY <3>1, <2>3, <1>3, PowersDouble
      <3>3. H - 2 * b \notin Bad
        BY <3>2, <2>2
      <3>4. Mid[2 * b] = (c \div (2 * b)) * (2 * b)
        BY <3>1, <3>2, <3>3
      <3> QED
        BY <2>3, <2>4, <2>6, <3>4, <1>5
    <2> QED
      BY <2>5, <2>6
  <1>10. UpperBound(s, value) = Mid[1] + 1
    BY DEF UpperBound
  <1>11. 1 \in D
    BY <1>3, PowersDouble
  <1>12. Mid[1] = (c \div 1) * 1
    <2> HIDE DEF D, Mid
    <2> QED
      BY <1>9, <1>11
  <1>13. UpperBound(s, value) = c + 1
    <2> HIDE DEF D, Mid
    <2> QED
      BY <1>10, <1>12
  <1> QED
    BY <1>13, <1>1

-----------------------------------------------------------------------------
(* merge and sort.  comp orders the elements, equal ones aside.            *)
WeakOrder(comp, E) ==
  /\ \A x, y \in E : <<x, y>> \in comp => <<y, x>> \notin comp
  /\ \A x, y, z \in E : <<y, x>> \notin comp /\ <<z, y>> \notin comp => <<z, x>> \notin comp

(* Position a of s goes before position b: its element is less, or they    *)
(* are equal and a is first.                                               *)
Before(s, comp, a, b) ==
  <<s[b], s[a]>> \notin comp /\ (<<s[a], s[b]>> \in comp \/ a < b)

(* r lists the elements of s at the positions S, in this order: its k-th   *)
(* element is that at position at[k].                                      *)
ListsAt(r, s, comp, S, at) ==
  /\ \A b \in S : \E k \in 1 .. Len(r) : at[k] = b
  /\ \A k \in 1 .. Len(r) : r[k] = s[at[k]]
  /\ \A j, k \in 1 .. Len(r) : j < k => Before(s, comp, at[j], at[k])

Lists(r, s, comp, S) == \E at \in [1 .. Len(r) -> S] : ListsAt(r, s, comp, S, at)

Ascending(p, comp) == \A i, j \in 1 .. Len(p) : i < j => <<p[j], p[i]>> \notin comp

LEMMA ListsAscending ==
  ASSUME NEW r, NEW s, NEW comp, NEW S, Lists(r, s, comp, S)
  PROVE  Ascending(r, comp)
  BY DEF Lists, ListsAt, Before, Ascending

LEMMA ListsBy ==
  ASSUME NEW r, NEW s, NEW comp, NEW S, NEW n, n = Len(r), NEW at \in [1 .. n -> S],
         \A b \in S : \E k \in 1 .. n : at[k] = b,
         \A k \in 1 .. n : r[k] = s[at[k]],
         \A j, k \in 1 .. n : j < k => Before(s, comp, at[j], at[k])
  PROVE  Lists(r, s, comp, S)
  <1>1. at \in [1 .. Len(r) -> S]
    OBVIOUS
  <1> SUFFICES \E to \in [1 .. Len(r) -> S] :
                 /\ \A b \in S : \E k \in 1 .. Len(r) : to[k] = b
                 /\ \A k \in 1 .. Len(r) : r[k] = s[to[k]]
                 /\ \A j, k \in 1 .. Len(r) : j < k => Before(s, comp, to[j], to[k])
    BY DEF Lists, ListsAt
  <1> WITNESS at \in [1 .. Len(r) -> S]
  <1> QED
    OBVIOUS

LEMMA ListsFirst ==
  ASSUME NEW E, NEW r \in Seq(E), NEW s, NEW comp, NEW S, Lists(r, s, comp, S),
         NEW a, s[a] \in E, \A b \in S : Before(s, comp, a, b)
  PROVE  Lists(<<s[a]>> \o r, s, comp, S \cup {a}) /\ <<s[a]>> \o r \in Seq(E)
  <1>1. PICK at \in [1 .. Len(r) -> S] :
          /\ \A b \in S : \E k \in 1 .. Len(r) : at[k] = b
          /\ \A k \in 1 .. Len(r) : r[k] = s[at[k]]
          /\ \A j, k \in 1 .. Len(r) : j < k => Before(s, comp, at[j], at[k])
    BY DEF Lists, ListsAt
  <1> DEFINE t == <<s[a]>> \o r
             N == Len(r)
             to == [k \in 1 .. N + 1 |-> IF k = 1 THEN a ELSE at[k - 1]]
  <1>2. /\ t \in Seq(E) /\ Len(t) = N + 1 /\ N \in Nat /\ t[1] = s[a]
        /\ \A k \in 2 .. N + 1 : t[k] = r[k - 1]
    OBVIOUS
  <1>3. to[1] = a /\ \A k \in 2 .. N + 1 : to[k] = at[k - 1] /\ k - 1 \in 1 .. N
    BY <1>2
  <1>4. to \in [1 .. N + 1 -> S \cup {a}]
    BY <1>2, <1>3
  <1> HIDE DEF t, to
  <1>5. \A b \in S \cup {a} : \E k \in 1 .. N + 1 : to[k] = b
    <2> SUFFICES ASSUME NEW b \in S PROVE \E k \in 1 .. N + 1 : to[k] = b
      BY <1>2, <1>3
    <2>1. PICK k \in 1 .. N : at[k] = b
      BY <1>1
    <2>2. k + 1 \in 2 .. N + 1 /\ (k + 1) - 1 = k
      BY <1>2
    <2>3. to[k + 1] = b /\ k + 1 \in 1 .. N + 1
      BY <1>3, <2>1, <2>2
    <2> QED
      BY <2>3
  <1>6. \A k \in 1 .. N + 1 : t[k] = s[to[k]]
    <2> SUFFICES ASSUME NEW k \in 1 .. N + 1 PROVE t[k] = s[to[k]]
      OBVIOUS
    <2>1. CASE k = 1
      BY <1>2, <1>3, <2>1
    <2>2. CASE k # 1
      <3>1. k \in 2 .. N + 1
        BY <1>2, <2>2
      <3> QED
        BY <1>1, <1>2, <1>3, <3>1
    <2> QED
      BY <2>1, <2>2
  <1>7. ASSUME NEW j \in 1 .. N + 1, NEW k \in 1 .. N + 1, j < k
        PROVE  Before(s, comp, to[j], to[k])
    <2>1. k \in 2 .. N + 1
      BY <1>2, <1>7
    <2>2. to[k] = at[k - 1] /\ k - 1 \in 1 .. N
      BY <1>3, <2>1
    <2>3. CASE j = 1
      <3>1. at[k - 1] \in S
        BY <2>2
      <3> QED
        BY <1>3, <2>2, <2>3, <3>1
    <2>4. CASE j # 1
      <3>1. j \in 2 .. N + 1 /\ j - 1 < k - 1
        BY <1>2, <1>7, <2>4
      <3>2. to[j] = at[j - 1] /\ j - 1 \in 1 .. N
        BY <1>3, <3>1
      <3> QED
        BY <1>1, <2>2, <3>1, <3>2
    <2> QED
      BY <2>3, <2>4
  <1>8. Lists(t, s, comp, S \cup {a})
    <2> DEFINE M == N + 1
               T == S \cup {a}
    <2>1. M = Len(t) /\ to \in [1 .. M -> T]
      BY <1>2, <1>4
    <2>2. \A b \in T : \E k \in 1 .. M : to[k] = b
      BY <1>5
    <2>3. \A k \in 1 .. M : t[k] = s[to[k]]
      BY <1>6
    <2>4. \A j, k \in 1 .. M : j < k => Before(s, comp, to[j], to[k])
      BY <1>7
    <2> HIDE DEF M, T
    <2>5. Lists(t, s, comp, T)
      BY <2>1, <2>2, <2>3, <2>4, ListsBy
    <2> QED
      BY <2>5 DEF T
  <1> QED
    BY <1>2, <1>8 DEF t

-----------------------------------------------------------------------------
(* The loops of merge: Turn is what they write from a place at on, if f is *)
(* what they write from later places.                                      *)
Places(m, n) == (1 .. m + 1) \X (1 .. n + 1)
Left(m, n, at) == (m + 1 - at[1]) + (n + 1 - at[2])
Turn(p, q, comp, f, at) ==
  LET i == at[1]
      j == at[2]
  IN  IF i > Len(p) THEN SubSeq(q, j, Len(q))
      ELSE IF j <= Len(q) /\ <<q[j], p[i]>> \in comp THEN <<q[j]>> \o f[<<i, j + 1>>]
      ELSE <<p[i]>> \o f[<<i + 1, j>>]
Rest(p, q, comp) == CHOOSE f : f = [at \in Places(Len(p), Len(q)) |->
                                     Turn(p, q, comp, f, at)]

LEMMA MergeIsRest ==
  ASSUME NEW p, NEW q, NEW comp
  PROVE  Merge(p, q, comp) = Rest(p, q, comp)[<<1, 1>>]
  BY DEF Merge, Rest, Turn, Places

LEMMA PlaceLeft ==
  ASSUME NEW m \in Nat, NEW n \in Nat, NEW at \in Places(m, n)
  PROVE  /\ at[1] \in 1 .. m + 1 /\ at[2] \in 1 .. n + 1 /\ at = <<at[1], at[2]>>
         /\ Left(m, n, at) \in Nat /\ Left(m, n, at) <= m + n
         /\ at[1] <= m => /\ <<at[1] + 1, at[2]>> \in Places(m, n)
                          /\ Left(m, n, <<at[1] + 1, at[2]>>) = Left(m, n, at) - 1
         /\ at[2] <= n => /\ <<at[1], at[2] + 1>> \in Places(m, n)
                          /\ Left(m, n, <<at[1], at[2] + 1>>) = Left(m, n, at) - 1
  <1>1. PICK i \in 1 .. m + 1, j \in 1 .. n + 1 : at = <<i, j>>
    BY DEF Places
  <1>2. at[1] = i /\ at[2] = j
    BY <1>1
  <1>3. /\ Left(m, n, at) = (m + 1 - i) + (n + 1 - j)
        /\ Left(m, n, <<i + 1, j>>) = (m + 1 - (i + 1)) + (n + 1 - j)
        /\ Left(m, n, <<i, j + 1>>) = (m + 1 - i) + (n + 1 - (j + 1))
    BY <1>2 DEF Left
  <1>4. i <= m => <<i + 1, j>> \in Places(m, n)
    BY DEF Places
  <1>5. j <= n => <<i, j + 1>> \in Places(m, n)
    BY DEF Places
  <1> QED
    BY <1>1, <1>2, <1>3, <1>4, <1>5

LEMMA TurnNeedsLater ==
  ASSUME NEW p, NEW q, NEW comp, NEW m \in Nat, NEW n \in Nat, m = Len(p), n = Len(q),
         NEW f, NEW g, NEW at \in Places(m, n),
         \A e \in Places(m, n) : Left(m, n, e) < Left(m, n, at) => f[e] = g[e]
  PROVE  Turn(p, q, comp, f, at) = Turn(p, q, comp, g, at)
  <1> DEFINE one == <<at[1] + 1, at[2]>>
             two == <<at[1], at[2] + 1>>
  <1>1. /\ at[1] \in 1 .. m + 1 /\ at[2] \in 1 .. n + 1 /\ Left(m, n, at) \in Nat
        /\ at[1] <= m => one \in Places(m, n) /\ Left(m, n, one) = Left(m, n, at) - 1
        /\ at[2] <= n => two \in Places(m, n) /\ Left(m, n, two) = Left(m, n, at) - 1
    BY PlaceLeft
  <1> HIDE DEF one, two
  <1>2. at[1] <= m => f[one] = g[one]
    BY <1>1
  <1>3. at[2] <= n => f[two] = g[two]
    BY <1>1
  <1>4. at[1] > m \/ at[1] <= m
    BY <1>1
  <1> QED
    BY <1>2, <1>3, <1>4 DEF Turn, one, two

LEMMA RestExists ==
  ASSUME NEW p, NEW q, NEW comp, NEW m \in Nat, NEW n \in Nat, m = Len(p), n = Len(q)
  PROVE  Rest(p, q, comp) = [at \in Places(m, n) |-> Turn(p, q, comp, Rest(p, q, comp), at)]
  <1> DEFINE Near(k) == {at \in Places(m, n) : Left(m, n, at) <= k}
             S == {k \in Nat : \E f : f = [at \in Near(k) |-> Turn(p, q, comp, f, at)]}
  <1>1. ASSUME NEW k \in Nat, NEW f,
               \A e \in Near(k + 1) : Left(m, n, e) <= k => f[e] = Turn(p, q, comp, f, e)
        PROVE  k + 1 \in S
    <2> DEFINE g == [at \in Near(k + 1) |-> Turn(p, q, comp, f, at)]
    <2>1. ASSUME NEW at \in Near(k + 1) PROVE g[at] = Turn(p, q, comp, g, at)
      <3>1. ASSUME NEW e \in Places(m, n), Left(m, n, e) < Left(m, n, at) PROVE f[e] = g[e]
        <4>1. Left(m, n, e) <= k /\ e \in Near(k + 1)
          <5>1. Left(m, n, e) \in Nat /\ Left(m, n, at) \in Nat /\ Left(m, n, at) <= k + 1
            BY PlaceLeft
          <5> QED
            BY <3>1, <5>1
        <4> HIDE DEF Near
        <4> QED
          BY <4>1, <1>1
      <3>2. Turn(p, q, comp, f, at) = Turn(p, q, comp, g, at)
        <4> HIDE DEF g
        <4> QED
          BY <3>1, TurnNeedsLater
      <3> QED
        BY <3>2
    <2>2. g = [at \in Near(k + 1) |-> Turn(p, q, comp, g, at)]
      <3> HIDE DEF Near
      <3> QED
        BY <2>1
    <2> HIDE DEF g, Near
    <2> QED
      BY <2>2
  <1>2. 0 \in S
    <2> DEFINE g == [at \in Near(0) |-> Turn(p, q, comp, <<>>, at)]
    <2>1. ASSUME NEW at \in Near(0) PROVE g[at] = Turn(p, q, comp, g, at)
      <3>1. \A e \in Places(m, n) : ~(Left(m, n, e) < Left(m, n, at))
        <4>1. \A e \in Places(m, n) : Left(m, n, e) \in Nat
          BY PlaceLeft
        <4> QED
          BY <4>1
      <3>2. Turn(p, q, comp, <<>>, at) = Turn(p, q, comp, g, at)
        <4> HIDE DEF g
        <4> QED
          BY <3>1, TurnNeedsLater
      <3> QED
        BY <3>2
    <2>2. g = [at \in Near(0) |-> Turn(p, q, comp, g, at)]
      <3> HIDE DEF Near
      <3> QED
        BY <2>1
    <2> HIDE DEF g, Near
    <2> QED
      BY <2>2
  <1>3. ASSUME NEW k \in Nat, k \in S PROVE k + 1 \in S
    <2>1. PICK f : f = [at \in Near(k) |-> Turn(p, q, comp, f, at)]
      BY <1>3
    <2>2. \A e \in Near(k + 1) : Left(m, n, e) <= k => e \in Near(k)
      OBVIOUS
    <2>3. \A e \in Near(k + 1) : Left(m, n, e) <= k => f[e] = Turn(p, q, comp, f, e)
      <3> HIDE DEF Near
      <3> QED
        BY <2>1, <2>2
    <2> HIDE DEF Near, S
    <2> QED
      BY <2>3, <1>1
  <1>4. m + n \in S
    <2> HIDE DEF S
    <2>1. Nat \subseteq S
      BY <1>2, <1>3, FromZeroOn
    <2> QED
      BY <2>1
  <1>5. Near(m + n) = Places(m, n)
    BY PlaceLeft
  <1> HIDE DEF Near
  <1>6. PICK f : f = [at \in Places(m, n) |-> Turn(p, q, comp, f, at)]
    BY <1>4, <1>5
  <1> QED
    BY <1>6 DEF Rest

-----------------------------------------------------------------------------
(* The positions of p \o q that are still to be written.                   *)
Open(m, n, at) == (at[1] .. m) \cup (m + at[2] .. m + n)

LEMMA FirstOfInterval ==
  ASSUME NEW a \in Int, NEW c \in Int, a <= c
  PROVE  a .. c = (a + 1 .. c) \cup {a}
  OBVIOUS

(* The second sequence's tail, written when the first one is used up.      *)
LEMMA ListsTail ==
  ASSUME NEW E, NEW p \in Seq(E), NEW q \in Seq(E), NEW comp, Ascending(q, comp),
         NEW m \in Nat, NEW n \in Nat, m = Len(p), n = Len(q), NEW j \in 1 .. n + 1
  PROVE  /\ SubSeq(q, j, n) \in Seq(E)
         /\ Lists(SubSeq(q, j, n), p \o q, comp, m + j .. m + n)
  <1> DEFINE r == SubSeq(q, j, n)
             s == p \o q
             w == n + 1 - j
             T == m + j .. m + n
             at == [k \in 1 .. w |-> m + j - 1 + k]
  <1>1. /\ r \in Seq(E) /\ w \in Nat /\ Len(r) = w
        /\ \A k \in 1 .. w : r[k] = q[j - 1 + k] /\ j - 1 + k \in 1 .. n
    OBVIOUS
  <1>2. \A k \in 1 .. n : s[m + k] = q[k]
    OBVIOUS
  <1>3. at \in [1 .. w -> T] /\ \A k \in 1 .. w : at[k] = m + (j - 1 + k)
    OBVIOUS
  <1>4. \A b \in T : \E k \in 1 .. w : at[k] = b
    <2> SUFFICES ASSUME NEW b \in T PROVE \E k \in 1 .. w : at[k] = b
      OBVIOUS
    <2>1. b - m - j + 1 \in 1 .. w /\ m + (j - 1 + (b - m - j + 1)) = b
      OBVIOUS
    <2>2. at[b - m - j + 1] = b
      <3> HIDE DEF at, w, T
      <3> QED
        BY <2>1, <1>3
    <2> HIDE DEF at
    <2> QED
      BY <2>1, <2>2
  <1> HIDE DEF r, s, at, T
  <1>5. ASSUME NEW k \in 1 .. w PROVE r[k] = s[at[k]]
    <2>1. at[k] = m + (j - 1 + k) /\ r[k] = q[j - 1 + k] /\ j - 1 + k \in 1 .. n
      BY <1>1, <1>3
    <2> HIDE DEF w
    <2> QED
      BY <1>2, <2>1
  <1>6. ASSUME NEW k \in 1 .. w, NEW l \in 1 .. w, k < l
        PROVE  Before(s, comp, at[k], at[l])
    <2>1. at[k] = m + (j - 1 + k) /\ j - 1 + k \in 1 .. n
      BY <1>1, <1>3
    <2>2. at[l] = m + (j - 1 + l) /\ j - 1 + l \in 1 .. n
      BY <1>1, <1>3
    <2>3. s[at[k]] = q[j - 1 + k] /\ s[at[l]] = q[j - 1 + l]
      BY <1>2, <2>1, <2>2
    <2>4. at[k] < at[l] /\ j - 1 + k < j - 1 + l
      BY <1>6, <2>1, <2>2
    <2>5. <<q[j - 1 + l], q[j - 1 + k]>> \notin comp
      BY <2>1, <2>2, <2>4 DEF Ascending
    <2> QED
      BY <2>3, <2>4, <2>5 DEF Before
  <1>7. \A k, l \in 1 .. w : k < l => Before(s, comp, at[k], at[l])
    BY <1>6
  <1> HIDE DEF w
  <1>8. w = Len(r) /\ at \in [1 .. w -> T]
    BY <1>1, <1>3
  <1>10. \A k \in 1 .. w : r[k] = s[at[k]]
    BY <1>5
  <1>9. Lists(r, s, comp, T)
    BY <1>4, <1>7, <1>8, <1>10, ListsBy
  <1> QED
    BY <1>1, <1>9 DEF r, s, T

(* One more element is written, and goes before all that are still to be.  *)
LEMMA TurnLists ==
  ASSUME NEW E, NEW p \in Seq(E), NEW q \in Seq(E), NEW comp, WeakOrder(comp, E),
         Ascending(p, comp), Ascending(q, comp),
         NEW m \in Nat, NEW n \in Nat, m = Len(p), n = Len(q),
         NEW at \in Places(m, n), NEW f,
         \A e \in Places(m, n) : Left(m, n, e) < Left(m, n, at) =>
           f[e] \in Seq(E) /\ Lists(f[e], p \o q, comp, Open(m, n, e))
  PROVE  /\ Turn(p, q, comp, f, at) \in Seq(E)
         /\ Lists(Turn(p, q, comp, f, at), p \o q, comp, Open(m, n, at))
  <1> DEFINE i == at[1]
             j == at[2]
             s == p \o q
             one == <<i + 1, j>>
             two == <<i, j + 1>>
  <1>1. /\ i \in 1 .. m + 1 /\ j \in 1 .. n + 1 /\ Left(m, n, at) \in Nat
        /\ i <= m => one \in Places(m, n) /\ Left(m, n, one) = Left(m, n, at) - 1
        /\ j <= n => two \in Places(m, n) /\ Left(m, n, two) = Left(m, n, at) - 1
    BY PlaceLeft
  <1>2. /\ \A k \in 1 .. m : s[k] = p[k] /\ p[k] \in E
        /\ \A k \in 1 .. n : s[m + k] = q[k] /\ q[k] \in E
    OBVIOUS
  <1>10. Turn(p, q, comp, f, at) =
           IF i > m THEN SubSeq(q, j, n)
           ELSE IF j <= n /\ <<q[j], p[i]>> \in comp THEN <<q[j]>> \o f[two]
           ELSE <<p[i]>> \o f[one]
    BY DEF Turn
  <1>11. /\ Open(m, n, at) = (i .. m) \cup (m + j .. m + n)
         /\ Open(m, n, one) = (i + 1 .. m) \cup (m + j .. m + n)
         /\ Open(m, n, two) = (i .. m) \cup (m + (j + 1) .. m + n)
    BY DEF Open
  <1> HIDE DEF i, j, s, one, two
  <1>3. \A b \in Open(m, n, at) :
          \/ b \in i .. m /\ b \in 1 .. m
          \/ b - m \in j .. n /\ b - m \in 1 .. n /\ m + (b - m) = b
    BY <1>1, <1>11
  <1>4. \A k \in 1 .. m : k >= i /\ i \in 1 .. m => k = i \/ <<p[k], p[i]>> \notin comp
    BY <1>1 DEF Ascending
  <1>5. \A k \in 1 .. n : k >= j /\ j \in 1 .. n => k = j \/ <<q[k], q[j]>> \notin comp
    BY <1>1 DEF Ascending
  <1>6. \A x \in E : <<x, x>> \notin comp
    BY DEF WeakOrder
  <1>7. CASE i > m
    <2>1. Turn(p, q, comp, f, at) = SubSeq(q, j, n)
      BY <1>7, <1>10
    <2>2. Open(m, n, at) = m + j .. m + n
      BY <1>1, <1>7, <1>11
    <2>3. j \in 1 .. n + 1 /\ m = Len(p) /\ n = Len(q)
      BY <1>1
    <2>4. /\ SubSeq(q, j, n) \in Seq(E)
          /\ Lists(SubSeq(q, j, n), p \o q, comp, m + j .. m + n)
      BY <2>3, ListsTail
    <2> QED
      BY <2>1, <2>2, <2>4
  <1>8. CASE i <= m /\ j <= n /\ <<q[j], p[i]>> \in comp
    <2> DEFINE a == m + j
               R == Open(m, n, two)
    <2>1. Turn(p, q, comp, f, at) = <<q[j]>> \o f[two]
      BY <1>1, <1>8, <1>10
    <2>2. s[a] = q[j] /\ s[a] \in E /\ j \in 1 .. n /\ i \in 1 .. m /\ p[i] \in E /\ q[j] \in E
      BY <1>1, <1>2, <1>8
    <2>3. f[two] \in Seq(E) /\ Lists(f[two], s, comp, R)
      BY <1>1, <1>8 DEF s
    <2>4. Open(m, n, at) = R \cup {a}
      <3>1. m + j .. m + n = (m + (j + 1) .. m + n) \cup {m + j}
        <4>1. /\ m + j \in Int /\ m + n \in Int /\ m + j <= m + n
              /\ (m + j) + 1 = m + (j + 1)
          BY <1>1, <1>8
        <4> HIDE DEF a
        <4> QED
          BY <4>1, FirstOfInterval
      <3> QED
        BY <3>1, <1>11
    <2>5. R \subseteq Open(m, n, at) /\ a \notin R
      BY <1>1, <1>8, <1>11
    <2>6. ASSUME NEW b \in R PROVE Before(s, comp, a, b)
      <3>1. CASE b \in i .. m /\ b \in 1 .. m
        <4>1. s[b] = p[b] /\ p[b] \in E
          BY <1>2, <3>1
        <4>2. <<p[b], p[i]>> \notin comp
          BY <1>1, <1>4, <1>6, <1>8, <2>2, <3>1
        <4>3. <<q[j], p[b]>> \in comp
          BY <1>8, <2>2, <4>1, <4>2 DEF WeakOrder
        <4>4. <<p[b], q[j]>> \notin comp
          BY <2>2, <4>1, <4>3 DEF WeakOrder
        <4> HIDE DEF a
        <4> QED
          BY <2>2, <4>1, <4>3, <4>4 DEF Before
      <3>2. CASE b - m \in j .. n /\ b - m \in 1 .. n /\ m + (b - m) = b
        <4>1. s[b] = q[b - m] /\ q[b - m] \in E
          BY <1>2, <3>2
        <4>2. b - m # j /\ a < b
          BY <1>1, <1>11, <2>5, <3>2
        <4>3. <<q[b - m], q[j]>> \notin comp
          BY <1>1, <1>5, <2>2, <3>2, <4>2
        <4> HIDE DEF a
        <4> QED
          BY <2>2, <4>1, <4>2, <4>3 DEF Before
      <3> QED
        BY <1>3, <2>5, <3>1, <3>2
    <2> HIDE DEF a, R
    <2>7. Lists(<<s[a]>> \o f[two], s, comp, R \cup {a}) /\ <<s[a]>> \o f[two] \in Seq(E)
      BY <2>2, <2>3, <2>6, ListsFirst
    <2> QED
      BY <2>1, <2>2, <2>4, <2>7 DEF s
  <1>9. CASE i <= m /\ ~(j <= n /\ <<q[j], p[i]>> \in comp)
    <2> DEFINE R == Open(m, n, one)
    <2>9. ~(i > m)
      BY <1>1, <1>9
    <2>1. Turn(p, q, comp, f, at) = <<p[i]>> \o f[one]
      BY <2>9, <1>9, <1>10
    <2>2. s[i] = p[i] /\ s[i] \in E /\ i \in 1 .. m /\ p[i] \in E
      BY <1>1, <1>2, <1>9
    <2>3. f[one] \in Seq(E) /\ Lists(f[one], s, comp, R)
      BY <1>1, <1>9 DEF s
    <2>4. Open(m, n, at) = R \cup {i}
      BY <1>1, <1>9, <1>11
    <2>5. R \subseteq Open(m, n, at) /\ i \notin R
      BY <1>1, <1>9, <1>11
    <2>6. ASSUME NEW b \in R PROVE Before(s, comp, i, b)
      <3>1. CASE b \in i .. m /\ b \in 1 .. m
        <4>1. s[b] = p[b] /\ b # i /\ i < b
          BY <1>1, <1>2, <1>11, <2>5, <3>1
        <4>2. <<p[b], p[i]>> \notin comp
          BY <1>1, <1>4, <2>2, <3>1, <4>1
        <4> QED
          BY <2>2, <4>1, <4>2 DEF Before
      <3>2. CASE b - m \in j .. n /\ b - m \in 1 .. n /\ m + (b - m) = b
        <4>1. s[b] = q[b - m] /\ q[b - m] \in E
          BY <1>2, <3>2
        <4>2. j \in 1 .. n /\ j <= n /\ q[j] \in E /\ b - m >= j /\ i < b
          BY <1>1, <1>2, <2>2, <3>2
        <4>3. <<q[b - m], q[j]>> \notin comp
          BY <1>5, <1>6, <3>2, <4>2
        <4>4. <<q[j], p[i]>> \notin comp
          BY <1>9, <4>2
        <4>5. <<q[b - m], p[i]>> \notin comp
          BY <2>2, <4>1, <4>2, <4>3, <4>4 DEF WeakOrder
        <4> QED
          BY <2>2, <4>1, <4>2, <4>5 DEF Before
      <3> QED
        BY <1>3, <2>5, <3>1, <3>2
    <2> HIDE DEF R
    <2>7. Lists(<<s[i]>> \o f[one], s, comp, R \cup {i}) /\ <<s[i]>> \o f[one] \in Seq(E)
      BY <2>2, <2>3, <2>6, ListsFirst
    <2> QED
      BY <2>1, <2>2, <2>4, <2>7 DEF s
  <1> QED
    BY <1>1, <1>7, <1>8, <1>9

(* merge writes every element of both once, in the order of comp, and of   *)
(* equal ones those of the first sequence first.                           *)
LEMMA MergeLists ==
  ASSUME NEW E, NEW p \in Seq(E), NEW q \in Seq(E), NEW comp, WeakOrder(comp, E),
         Ascending(p, comp), Ascending(q, comp)
  PROVE  /\ Merge(p, q, comp) \in Seq(E)
         /\ Lists(Merge(p, q, comp), p \o q, comp, 1 .. Len(p) + Len(q))
  <1> DEFINE m == Len(p)
             n == Len(q)
             f == Rest(p, q, comp)
             Good(at) == f[at] \in Seq(E) /\ Lists(f[at], p \o q, comp, Open(m, n, at))
             Bad == {k \in Nat : \E at \in Places(m, n) : k = Left(m, n, at) /\ ~Good(at)}
  <1>1. m \in Nat /\ n \in Nat /\ m = Len(p) /\ n = Len(q)
    OBVIOUS
  <1> HIDE DEF m, n
  <1>2. f = [at \in Places(m, n) |-> Turn(p, q, comp, f, at)]
    BY <1>1, RestExists
  <1> HIDE DEF f
  <1>3. \A at \in Places(m, n) : Good(at)
    <2> SUFFICES ASSUME NEW b \in Places(m, n), ~Good(b) PROVE FALSE
      OBVIOUS
    <2> HIDE DEF Good
    <2>1. Left(m, n, b) \in Bad
      BY <1>1, PlaceLeft
    <2>2. PICK k \in Bad : \A l \in Bad : k <= l
      BY <2>1, LeastNat
    <2>3. PICK at \in Places(m, n) : k = Left(m, n, at) /\ ~Good(at)
      BY <2>2
    <2>4. ASSUME NEW e \in Places(m, n), Left(m, n, e) < Left(m, n, at)
          PROVE  Good(e)
      <3>1. Left(m, n, e) \in Nat
        BY <1>1, PlaceLeft
      <3> QED
        BY <2>2, <2>3, <2>4, <3>1
    <2>5. f[at] = Turn(p, q, comp, f, at)
      BY <1>2
    <2>6. \A e \in Places(m, n) : Left(m, n, e) < Left(m, n, at) =>
            f[e] \in Seq(E) /\ Lists(f[e], p \o q, comp, Open(m, n, e))
      BY <2>4 DEF Good
    <2>7. /\ Turn(p, q, comp, f, at) \in Seq(E)
          /\ Lists(Turn(p, q, comp, f, at), p \o q, comp, Open(m, n, at))
      BY <1>1, <2>6, TurnLists
    <2> QED
      BY <2>3, <2>5, <2>7 DEF Good
  <1>4. <<1, 1>> \in Places(m, n)
    BY <1>1 DEF Places
  <1>5. Open(m, n, <<1, 1>>) = 1 .. m + n
    BY <1>1 DEF Open
  <1>6. Merge(p, q, comp) = f[<<1, 1>>]
    BY MergeIsRest DEF f
  <1> QED
    BY <1>1, <1>3, <1>4, <1>5, <1>6

-----------------------------------------------------------------------------
(* Two neighbouring parts, each listed in order, listed as one.            *)
LEMMA ListsBoth ==
  ASSUME NEW E, NEW p \in Seq(E), NEW q \in Seq(E), NEW r \in Seq(E), NEW s, NEW comp,
         NEW S \in SUBSET Int, NEW T \in SUBSET Int, \A a \in S, b \in T : a < b,
         Lists(p, s, comp, S), Lists(q, s, comp, T),
         Lists(r, p \o q, comp, 1 .. Len(p) + Len(q))
  PROVE  Lists(r, s, comp, S \cup T)
  <1> DEFINE m == Len(p)
             n == Len(q)
             w == Len(r)
             u == p \o q
             B == S \cup T
  <1>1. PICK one \in [1 .. m -> S] :
          /\ \A b \in S : \E k \in 1 .. m : one[k] = b
          /\ \A k \in 1 .. m : p[k] = s[one[k]]
          /\ \A j, k \in 1 .. m : j < k => Before(s, comp, one[j], one[k])
    BY DEF Lists, ListsAt
  <1>2. PICK two \in [1 .. n -> T] :
          /\ \A b \in T : \E k \in 1 .. n : two[k] = b
          /\ \A k \in 1 .. n : q[k] = s[two[k]]
          /\ \A j, k \in 1 .. n : j < k => Before(s, comp, two[j], two[k])
    BY DEF Lists, ListsAt
  <1>3. PICK at \in [1 .. w -> 1 .. m + n] :
          /\ \A b \in 1 .. m + n : \E k \in 1 .. w : at[k] = b
          /\ \A k \in 1 .. w : r[k] = u[at[k]]
          /\ \A j, k \in 1 .. w : j < k => Before(u, comp, at[j], at[k])
    BY DEF Lists, ListsAt
  <1> DEFINE to == [k \in 1 .. m + n |-> IF k <= m THEN one[k] ELSE two[k - m]]
             fin == [k \in 1 .. w |-> to[at[k]]]
  <1>4. /\ m \in Nat /\ n \in Nat /\ w \in Nat
        /\ \A k \in 1 .. m : u[k] = p[k]
        /\ \A k \in 1 .. n : u[m + k] = q[k]
    OBVIOUS
  <1>5. \A k \in 1 .. m : k \in 1 .. m + n /\ to[k] = one[k]
    BY <1>4
  <1>6. \A k \in 1 .. n : m + k \in 1 .. m + n /\ to[m + k] = two[k]
    BY <1>4
  <1>7. \A k \in 1 .. w : fin[k] = to[at[k]] /\ at[k] \in 1 .. m + n
    OBVIOUS
  <1>8. \A k \in 1 .. m + n : k \in 1 .. m \/ (k - m \in 1 .. n /\ k = m + (k - m))
    BY <1>4
  <1>9. fin = [k \in 1 .. w |-> to[at[k]]]
    OBVIOUS
  <1> HIDE DEF m, n, w, u, to, fin
  <1>10. \A k \in 1 .. m + n : to[k] \in B /\ u[k] = s[to[k]]
    <2> SUFFICES ASSUME NEW k \in 1 .. m + n PROVE to[k] \in B /\ u[k] = s[to[k]]
      OBVIOUS
    <2>1. CASE k \in 1 .. m
      <3>1. to[k] = one[k] /\ one[k] \in S /\ u[k] = p[k] /\ p[k] = s[one[k]]
        BY <1>1, <1>4, <1>5, <2>1
      <3> QED
        BY <3>1
    <2>2. CASE k - m \in 1 .. n /\ k = m + (k - m)
      <3> DEFINE l == k - m
      <3>1. l \in 1 .. n /\ k = m + l
        BY <2>2
      <3> HIDE DEF l
      <3>2. to[k] = two[l] /\ two[l] \in T /\ u[k] = q[l] /\ q[l] = s[two[l]]
        BY <1>2, <1>4, <1>6, <3>1
      <3> QED
        BY <3>2
    <2> QED
      BY <1>8, <2>1, <2>2
  <1>11. fin \in [1 .. w -> B]
    BY <1>7, <1>9, <1>10
  <1>18. w = Len(r)
    BY DEF w
  <1>12. ASSUME NEW b \in B PROVE \E k \in 1 .. w : fin[k] = b
    <2>1. \E k \in 1 .. m + n : to[k] = b
      <3>1. CASE b \in S
        BY <1>1, <1>5, <3>1
      <3>2. CASE b \in T
        <4>1. PICK k \in 1 .. n : two[k] = b
          BY <1>2, <3>2
        <4>2. m + k \in 1 .. m + n /\ to[m + k] = b
          BY <1>6, <4>1
        <4> QED
          BY <4>2
      <3> QED
        BY <3>1, <3>2
    <2>2. PICK k \in 1 .. m + n : to[k] = b
      BY <2>1
    <2>3. PICK l \in 1 .. w : at[l] = k
      BY <1>3
    <2> QED
      BY <1>7, <2>2, <2>3
  <1>13. \A k \in 1 .. w : r[k] = s[fin[k]]
    BY <1>3, <1>7, <1>10
  <1>14. ASSUME NEW a \in 1 .. m + n, NEW b \in 1 .. m + n, Before(u, comp, a, b)
         PROVE  Before(s, comp, to[a], to[b])
    <2>1. u[a] = s[to[a]] /\ u[b] = s[to[b]]
      BY <1>10
    <2>2. CASE <<u[a], u[b]>> \in comp
      BY <1>14, <2>1, <2>2 DEF Before
    <2>3. CASE a < b
      <3>1. CASE a \in 1 .. m /\ b \in 1 .. m
        BY <1>1, <1>5, <2>3, <3>1
      <3>2. CASE a \in 1 .. m /\ b - m \in 1 .. n /\ b = m + (b - m)
        <4>1. to[a] \in S /\ to[b] \in T
          BY <1>1, <1>2, <1>5, <1>6, <3>2
        <4>2. to[a] < to[b]
          BY <4>1
        <4> QED
          BY <1>14, <2>1, <4>2 DEF Before
      <3>3. CASE /\ a - m \in 1 .. n /\ a = m + (a - m)
                 /\ b - m \in 1 .. n /\ b = m + (b - m)
        <4>1. a - m < b - m
          BY <1>4, <2>3
        <4>2. to[a] = two[a - m] /\ to[b] = two[b - m]
          BY <1>6, <3>3
        <4> QED
          BY <1>2, <3>3, <4>1, <4>2
      <3>4. ~(a - m \in 1 .. n /\ b \in 1 .. m)
        BY <1>4, <2>3
      <3> QED
        BY <1>8, <3>1, <3>2, <3>3, <3>4
    <2> QED
      BY <1>14, <2>2, <2>3 DEF Before
  <1>15. \A j, k \in 1 .. w : j < k => Before(s, comp, fin[j], fin[k])
    BY <1>3, <1>7, <1>14
  <1>16. \A b \in B : \E k \in 1 .. w : fin[k] = b
    BY <1>12
  <1> HIDE DEF B
  <1>17. Lists(r, s, comp, B)
    <2>1. ListsAt(r, s, comp, B, fin)
      BY <1>13, <1>15, <1>16, <1>18 DEF ListsAt
    <2> QED
      BY <1>11, <1>18, <2>1 DEF Lists
  <1> QED
    BY <1>17 DEF B

-----------------------------------------------------------------------------
(* The recursion of sort: Halves is what it leaves in a part, if f is what *)
(* it leaves in smaller ones.                                              *)
Spans(n) == (0 .. n) \X (0 .. n)
Width(span) == IF span[1] < span[2] THEN span[2] - span[1] ELSE 0
Halves(s, comp, f, span) ==
  LET l == span[1]
      r == span[2]
      mid == l + (r - l) \div 2
  IN  IF r - l <= 1 THEN SubSeq(s, l + 1, r)
      ELSE Merge(f[<<l, mid>>], f[<<mid, r>>], comp)
Parts(s, comp) == CHOOSE f : f = [span \in Spans(Len(s)) |-> Halves(s, comp, f, span)]

LEMMA SortIsParts ==
  ASSUME NEW s, NEW comp
  PROVE  Sort(s, comp) = Parts(s, comp)[<<0, Len(s)>>]
  BY DEF Sort, Parts, Halves, Spans

LEMMA HalvesNarrower ==
  ASSUME NEW n \in Nat, NEW l \in 0 .. n, NEW r \in 0 .. n, NEW mid, mid = l + (r - l) \div 2
  PROVE  /\ Width(<<l, r>>) \in 0 .. n
         /\ r - l > 1 =>
              /\ mid \in 0 .. n /\ l < mid /\ mid < r
              /\ <<l, mid>> \in Spans(n) /\ <<mid, r>> \in Spans(n)
              /\ Width(<<l, mid>>) < Width(<<l, r>>) /\ Width(<<mid, r>>) < Width(<<l, r>>)
  <1>1. /\ Width(<<l, r>>) = IF l < r THEN r - l ELSE 0
        /\ Width(<<l, mid>>) = IF l < mid THEN mid - l ELSE 0
        /\ Width(<<mid, r>>) = IF mid < r THEN r - mid ELSE 0
    BY DEF Width
  <1>2. r - l > 1 => mid \in Int /\ l < mid /\ mid < r
    BY Z3
  <1> QED
    BY <1>1, <1>2 DEF Spans

LEMMA HalvesNeedNarrower ==
  ASSUME NEW s, NEW comp, NEW n \in Nat, n = Len(s), NEW span \in Spans(n), NEW f, NEW g,
         \A e \in Spans(n) : Width(e) < Width(span) => f[e] = g[e]
  PROVE  Halves(s, comp, f, span) = Halves(s, comp, g, span)
  <1>1. PICK l \in 0 .. n, r \in 0 .. n : span = <<l, r>>
    BY DEF Spans
  <1> DEFINE mid == l + (r - l) \div 2
             one == <<l, mid>>
             two == <<mid, r>>
  <1>2. r - l > 1 => f[one] = g[one] /\ f[two] = g[two]
    BY <1>1, HalvesNarrower
  <1>3. \A h : Halves(s, comp, h, span) =
          IF r - l <= 1 THEN SubSeq(s, l + 1, r) ELSE Merge(h[one], h[two], comp)
    BY <1>1 DEF Halves
  <1>4. r - l > 1 \/ r - l <= 1
    OBVIOUS
  <1> HIDE DEF one, two
  <1> QED
    BY <1>2, <1>3, <1>4

LEMMA PartsExist ==
  ASSUME NEW s, NEW comp, NEW n \in Nat, n = Len(s)
  PROVE  Parts(s, comp) = [span \in Spans(n) |-> Halves(s, comp, Parts(s, comp), span)]
  <1> DEFINE Near(k) == {span \in Spans(n) : Width(span) <= k}
             S == {k \in Nat : \E f : f = [span \in Near(k) |-> Halves(s, comp, f, span)]}
  <1>0. \A span \in Spans(n) : Width(span) \in 0 .. n
    BY DEF Spans, Width
  <1>1. ASSUME NEW k \in Nat, NEW f,
               \A e \in Near(k + 1) : Width(e) <= k => f[e] = Halves(s, comp, f, e)
        PROVE  k + 1 \in S
    <2> DEFINE g == [span \in Near(k + 1) |-> Halves(s, comp, f, span)]
    <2>1. ASSUME NEW span \in Near(k + 1) PROVE g[span] = Halves(s, comp, g, span)
      <3>1. ASSUME NEW e \in Spans(n), Width(e) < Width(span) PROVE f[e] = g[e]
        <4>1. Width(e) <= k /\ e \in Near(k + 1)
          <5>1. Width(e) \in Nat /\ Width(span) \in Nat /\ Width(span) <= k + 1
            BY <1>0
          <5> QED
            BY <3>1, <5>1
        <4> HIDE DEF Near
        <4> QED
          BY <4>1, <1>1
      <3>2. Halves(s, comp, f, span) = Halves(s, comp, g, span)
        <4> HIDE DEF g
        <4> QED
          BY <3>1, HalvesNeedNarrower
      <3> QED
        BY <3>2
    <2>2. g = [span \in Near(k + 1) |-> Halves(s, comp, g, span)]
      <3> HIDE DEF Near
      <3> QED
        BY <2>1
    <2> HIDE DEF g, Near
    <2> QED
      BY <2>2
  <1>2. 0 \in S
    <2> DEFINE g == [span \in Near(0) |-> Halves(s, comp, <<>>, span)]
    <2>1. ASSUME NEW span \in Near(0) PROVE g[span] = Halves(s, comp, g, span)
      <3>1. \A e \in Spans(n) : ~(Width(e) < Width(span))
        BY <1>0
      <3>2. Halves(s, comp, <<>>, span) = Halves(s, comp, g, span)
        <4> HIDE DEF g
        <4> QED
          BY <3>1, HalvesNeedNarrower
      <3> QED
        BY <3>2
    <2>2. g = [span \in Near(0) |-> Halves(s, comp, g, span)]
      <3> HIDE DEF Near
      <3> QED
        BY <2>1
    <2> HIDE DEF g, Near
    <2> QED
      BY <2>2
  <1>3. ASSUME NEW k \in Nat, k \in S PROVE k + 1 \in S
    <2>1. PICK f : f = [span \in Near(k) |-> Halves(s, comp, f, span)]
      BY <1>3
    <2>2. \A e \in Near(k + 1) : Width(e) <= k => e \in Near(k)
      OBVIOUS
    <2>3. \A e \in Near(k + 1) : Width(e) <= k => f[e] = Halves(s, comp, f, e)
      <3> HIDE DEF Near
      <3> QED
        BY <2>1, <2>2
    <2> HIDE DEF Near, S
    <2> QED
      BY <2>3, <1>1
  <1>4. n \in S
    <2> HIDE DEF S
    <2>1. Nat \subseteq S
      BY <1>2, <1>3, FromZeroOn
    <2> QED
      BY <2>1
  <1>5. Near(n) = Spans(n)
    BY <1>0
  <1> HIDE DEF Near
  <1>6. PICK f : f = [span \in Spans(n) |-> Halves(s, comp, f, span)]
    BY <1>4, <1>5
  <1> QED
    BY <1>6 DEF Parts

(* A part of no more than one element is in order as it is.                *)
LEMMA ListsShort ==
  ASSUME NEW E, NEW s \in Seq(E), NEW comp,
         NEW l \in 0 .. Len(s), NEW r \in l .. Len(s), r - l <= 1
  PROVE  SubSeq(s, l + 1, r) \in Seq(E) /\ Lists(SubSeq(s, l + 1, r), s, comp, l + 1 .. r)
  <1> DEFINE t == SubSeq(s, l + 1, r)
             w == r - l
             at == [k \in 1 .. w |-> l + k]
  <1>1. t \in Seq(E) /\ w \in Nat /\ Len(t) = w /\ \A k \in 1 .. w : t[k] = s[l + k]
    OBVIOUS
  <1>2. at \in [1 .. w -> l + 1 .. r] /\ \A k \in 1 .. w : at[k] = l + k
    OBVIOUS
  <1>3. \A b \in l + 1 .. r : b - l \in 1 .. w /\ at[b - l] = b
    OBVIOUS
  <1>4. \A j, k \in 1 .. w : ~(j < k)
    OBVIOUS
  <1> HIDE DEF at, w, t
  <1>5. ListsAt(t, s, comp, l + 1 .. r, at)
    BY <1>1, <1>2, <1>3, <1>4 DEF ListsAt
  <1>6. Lists(t, s, comp, l + 1 .. r)
    BY <1>1, <1>2, <1>5 DEF Lists
  <1> QED
    BY <1>1, <1>6 DEF t

(* sort lists all elements of a sequence of any length in the order of     *)
(* comp, and equal ones in the order they had: query_ticket and            *)
(* query_transfer rely on both.                                            *)
THEOREM SortIsExact ==
  ASSUME NEW E, NEW s \in Seq(E), NEW comp, WeakOrder(comp, E)
  PROVE  /\ Sort(s, comp) \in Seq(E)
         /\ Lists(Sort(s, comp), s, comp, 1 .. Len(s))
         /\ Ascending(Sort(s, comp), comp)
  <1> DEFINE n == Len(s)
             f == Parts(s, comp)
             Good(l, r) == f[<<l, r>>] \in Seq(E) /\ Lists(f[<<l, r>>], s, comp, l + 1 .. r)
             Bad == {k \in Nat : \E l \in 0 .. n : \E r \in l .. n : k = r - l /\ ~Good(l, r)}
  <1>1. n \in Nat /\ n = Len(s)
    OBVIOUS
  <1> HIDE DEF n
  <1>2. f = [span \in Spans(n) |-> Halves(s, comp, f, span)]
    BY <1>1, PartsExist
  <1> HIDE DEF f
  <1>3. ASSUME NEW l \in 0 .. n, NEW r \in l .. n PROVE Good(l, r)
    <2> SUFFICES ASSUME ~Good(l, r) PROVE FALSE
      OBVIOUS
    <2> HIDE DEF Good
    <2>1. r - l \in Bad
      BY <1>1
    <2>2. PICK k \in Bad : \A j \in Bad : k <= j
      BY <2>1, LeastNat
    <2>3. PICK a \in 0 .. n : \E b \in a .. n : k = b - a /\ ~Good(a, b)
      BY <2>2
    <2>4. PICK b \in a .. n : k = b - a /\ ~Good(a, b)
      BY <2>3
    <2> DEFINE mid == a + (b - a) \div 2
               one == f[<<a, mid>>]
               two == f[<<mid, b>>]
    <2>5. <<a, b>> \in Spans(n) /\ a \in Int /\ b \in Int /\ b \in 0 .. n
      BY <1>1 DEF Spans
    <2>6. f[<<a, b>>] = IF b - a <= 1 THEN SubSeq(s, a + 1, b) ELSE Merge(one, two, comp)
      BY <1>2, <2>5 DEF Halves
    <2>7. CASE b - a <= 1
      <3>1. a \in 0 .. Len(s) /\ b \in a .. Len(s)
        BY <1>1
      <3>2. f[<<a, b>>] = SubSeq(s, a + 1, b)
        BY <2>6, <2>7
      <3>3. SubSeq(s, a + 1, b) \in Seq(E) /\ Lists(SubSeq(s, a + 1, b), s, comp, a + 1 .. b)
        BY <3>1, <2>7, ListsShort
      <3> QED
        BY <2>4, <3>2, <3>3 DEF Good
    <2>8. CASE b - a > 1
      <3>1. mid \in 0 .. n /\ a < mid /\ mid < b
        BY <1>1, <2>5, <2>8, HalvesNarrower
      <3> HIDE DEF mid
      <3>2. ASSUME NEW x \in 0 .. n, NEW y \in x .. n, y - x < k
            PROVE  Good(x, y)
        <4>1. y - x \in Nat
          BY <1>1
        <4>2. ~Good(x, y) => y - x \in Bad
          BY <4>1
        <4>3. y - x \notin Bad
          <5> HIDE DEF Bad
          <5>1. k \in Nat
            BY <1>1, <2>4
          <5> QED
            BY <2>2, <3>2, <4>1, <5>1
        <4> QED
          BY <4>2, <4>3
      <3>3. Good(a, mid)
        <4>1. mid \in a .. n /\ mid - a < k
          BY <1>1, <2>4, <2>5, <3>1
        <4> QED
          BY <3>2, <4>1
      <3>4. Good(mid, b)
        <4>1. b \in mid .. n /\ b - mid < k
          BY <1>1, <2>4, <2>5, <3>1
        <4> QED
          BY <3>1, <3>2, <4>1
      <3>5. one \in Seq(E) /\ Lists(one, s, comp, a + 1 .. mid)
        BY <3>3 DEF Good
      <3>6. two \in Seq(E) /\ Lists(two, s, comp, mid + 1 .. b)
        BY <3>4 DEF Good
      <3> HIDE DEF one, two
      <3>7. Ascending(one, comp) /\ Ascending(two, comp)
        BY <3>5, <3>6, ListsAscending
      <3> DEFINE m == Merge(one, two, comp)
      <3>8. m \in Seq(E) /\ Lists(m, one \o two, comp, 1 .. Len(one) + Len(two))
        BY <3>5, <3>6, <3>7, MergeLists
      <3> DEFINE S == a + 1 .. mid
                 T == mid + 1 .. b
      <3>9. /\ S \in SUBSET Int /\ T \in SUBSET Int /\ \A x \in S, y \in T : x < y
            /\ S \cup T = a + 1 .. b
        BY <1>1, <2>5, <3>1
      <3>10. Lists(one, s, comp, S) /\ Lists(two, s, comp, T)
        BY <3>5, <3>6
      <3> HIDE DEF m, S, T
      <3>11. Lists(m, s, comp, S \cup T)
        BY <3>5, <3>6, <3>8, <3>9, <3>10, ListsBoth
      <3>12. f[<<a, b>>] = m
        BY <2>5, <2>6, <2>8 DEF m
      <3> QED
        BY <2>4, <3>8, <3>9, <3>11, <3>12 DEF Good
    <2> QED
      BY <2>5, <2>7, <2>8
  <1>4. Good(0, n)
    BY <1>1, <1>3
  <1>5. Sort(s, comp) = f[<<0, n>>]
    BY <1>1, SortIsParts DEF f
  <1>6. Sort(s, comp) \in Seq(E) /\ Lists(Sort(s, comp), s, comp, 1 .. Len(s))
    BY <1>1, <1>4, <1>5
  <1> QED
    BY <1>6, ListsAscending
=============================================================================
