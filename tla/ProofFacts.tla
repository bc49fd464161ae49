----------------------------- MODULE ProofFacts -----------------------------
(***************************************************************************)
(* Facts about induction, remainders and sequences without repetitions     *)
(* that the proofs of several components use.  They are about the          *)
(* operators of the library and mention no component.                      *)
(***************************************************************************)
EXTENDS Integers, SequencesExt, SequenceTheorems, NaturalsInduction,
        WellFoundedInduction, TLAPS

-----------------------------------------------------------------------------
(* Induction, over sets instead of over formulas *)

\* Induction: a set of numbers that holds 0 and with a number its successor
\* holds them all.
LEMMA Induction ==
  ASSUME NEW S, 0 \in S, \A n \in Nat : n \in S => n + 1 \in S
  PROVE  \A n \in Nat : n \in S
<1>. DEFINE R == {ss \in Nat \X Nat : ss[1] < ss[2]}
            T == Nat \ S
<1>. SUFFICES ASSUME T # {} PROVE FALSE
  OBVIOUS
<1>1. IsWellFoundedOn(R, Nat)
  BY NatLessThanWellFounded, Zenon DEF OpToRel
<1>2. T \subseteq Nat
  OBVIOUS
<1>. HIDE DEF R
<1>3. PICK t \in T : \A u \in T : ~(<<u, t>> \in R)
  <2>. HIDE DEF T
  <2>. QED
    BY <1>1, <1>2, WFMin
<1>4. t \in Nat /\ t # 0 /\ t - 1 \in Nat /\ t = (t - 1) + 1
  OBVIOUS
<1>5. t - 1 \in T
  BY <1>4
<1>6. <<t - 1, t>> \in R
  BY <1>4 DEF R
<1>. QED
  BY <1>3, <1>5, <1>6

\* A function on 0 .. n may be given by its value at 0 and by how its value at
\* i follows from the one at i - 1: there is one.
Recurs(g, n, V, base, step) ==
    /\ g \in [0..n -> V]
    /\ g[0] = base
    /\ \A i \in 1..n : g[i] = step[i][g[i - 1]]

\* A function on 0..n that is given by its first value and by a step exists.
LEMMA FiniteRecursion ==
  ASSUME NEW n \in Nat, NEW V, NEW base \in V, NEW step \in [Nat -> [V -> V]]
  PROVE  \E g : Recurs(g, n, V, base, step)
<1>. DEFINE Fills(g, k) == Recurs(g, k, V, base, step)
            I == {k \in Nat : \E g : Fills(g, k)}
<1>. USE DEF Recurs
<1>1. 0 \in I
  <2>. DEFINE g == [i \in 0..0 |-> base]
  <2>1. Fills(g, 0)
    OBVIOUS
  <2>. QED
    BY <2>1
<1>2. ASSUME NEW k \in Nat, k \in I PROVE k + 1 \in I
  <2>1. PICK g : Fills(g, k)
    BY <1>2
  <2>. DEFINE v == step[k + 1][g[k]]
              h == [i \in 0..k + 1 |-> IF i = k + 1 THEN v ELSE g[i]]
  <2>2. v \in V
    BY <2>1
  <2>3. h \in [0..k + 1 -> V]
    BY <2>1, <2>2
  <2>4. h[0] = base
    BY <2>1
  <2>5. ASSUME NEW i \in 1..k + 1 PROVE h[i] = step[i][h[i - 1]]
    <3>1. i - 1 \in 0..k /\ h[i - 1] = g[i - 1]
      OBVIOUS
    <3>2. CASE i = k + 1
      <4>1. h[i] = v /\ i - 1 = k
        BY <3>2
      <4>. QED
        BY <3>1, <3>2, <4>1
    <3>3. CASE i # k + 1
      BY <2>1, <3>1, <3>3
    <3>. QED
      BY <3>2, <3>3
  <2>. HIDE DEF h
  <2>6. Fills(h, k + 1)
    BY <2>3, <2>4, <2>5
  <2>. QED
    <3>. HIDE DEF Fills
    <3>. QED
      BY <2>6
<1>. HIDE DEF I
<1>3. n \in I
  BY <1>1, <1>2, Induction
<1>. QED
  BY <1>3 DEF I

-----------------------------------------------------------------------------
(* Remainders *)

\* Division with remainder, and that quotient and remainder are unique.
LEMMA DivMod ==
  ASSUME NEW a \in Nat, NEW m \in Nat \ {0}
  PROVE  /\ a % m \in 0..m - 1 /\ a \div m \in Nat
         /\ a = m * (a \div m) + (a % m)
OBVIOUS

\* Multiples of m are at least m apart.
LEMMA NextMultiple ==
  ASSUME NEW m \in Nat \ {0}, NEW k \in Int, NEW l \in Int, k < l
  PROVE  m * l >= m * k + m
<1>1. m * (l - k - 1) >= 0
  <2>1. l - k - 1 \in Nat
    OBVIOUS
  <2>. QED
    BY <2>1
<1>2. m * (l - k - 1) = m * l - m * k - m
  OBVIOUS
<1>. QED
  BY <1>1, <1>2

\* Quotient and remainder are unique.
LEMMA DivModUnique ==
  ASSUME NEW m \in Nat \ {0}, NEW q \in Int, NEW p \in Int,
         NEW r \in 0..m - 1, NEW t \in 0..m - 1, m * q + r = m * p + t
  PROVE  q = p /\ r = t
<1>0. m * p \in Int /\ m * q \in Int
  OBVIOUS
<1>1. ~(q < p)
  <2>1. q < p => m * p >= m * q + m
    BY NextMultiple
  <2>. QED
    BY <1>0, <2>1
<1>2. ~(p < q)
  <2>1. p < q => m * q >= m * p + m
    BY NextMultiple
  <2>. QED
    BY <1>0, <2>1
<1>. QED
  BY <1>1, <1>2

\* A counter modulo m goes up by one, and from m - 1 back to 0.
LEMMA ModSuccessor ==
  ASSUME NEW a \in Nat, NEW m \in Nat \ {0}
  PROVE  (a + 1) % m = IF a % m = m - 1 THEN 0 ELSE (a % m) + 1
<1>. DEFINE b == a + 1
<1>1. /\ a % m \in 0..m - 1 /\ a \div m \in Nat
      /\ a = m * (a \div m) + (a % m)
  BY DivMod
<1>2. b \in Nat
  OBVIOUS
<1>3. /\ b % m \in 0..m - 1 /\ b \div m \in Nat
      /\ b = m * (b \div m) + (b % m)
  BY <1>2, DivMod
<1>. HIDE DEF b
<1>4. ASSUME NEW q \in Int, NEW r \in 0..m - 1, b = m * q + r
      PROVE  b % m = r
  <2>1. b \div m \in Int /\ m * (b \div m) + (b % m) = m * q + r
    BY <1>3, <1>4
  <2>. QED
    BY <1>3, <2>1, DivModUnique, Zenon
<1>5. CASE a % m = m - 1
  <2>1. m * ((a \div m) + 1) = m * (a \div m) + m
    BY <1>1
  <2>2. a + 1 = m * ((a \div m) + 1) + 0
    BY <2>1, <1>1, <1>5
  <2>3. (a \div m) + 1 \in Int /\ 0 \in 0..m - 1
    BY <1>1
  <2>4. b % m = 0
    BY <2>2, <2>3, <1>4 DEF b
  <2>. QED
    BY <2>4, <1>5 DEF b
<1>6. CASE a % m # m - 1
  <2>1. a + 1 = m * (a \div m) + ((a % m) + 1)
    BY <1>1, <1>6
  <2>2. (a % m) + 1 \in 0..m - 1 /\ a \div m \in Int
    BY <1>1, <1>6
  <2>3. b % m = (a % m) + 1
    BY <2>1, <2>2, <1>4 DEF b
  <2>. QED
    BY <2>3, <1>6 DEF b
<1>. QED
  BY <1>5, <1>6

\* Two numbers with the same remainder are a whole round apart.
LEMMA RoundApart ==
  ASSUME NEW a \in Nat, NEW b \in Nat, NEW m \in Nat \ {0},
         a % m = b % m, a < b
  PROVE  b >= a + m
<1>1. /\ a % m \in 0..m - 1 /\ a \div m \in Nat
      /\ a = m * (a \div m) + (a % m)
  BY DivMod
<1>2. /\ b % m \in 0..m - 1 /\ b \div m \in Nat
      /\ b = m * (b \div m) + (b % m)
  BY DivMod
<1>3. m * (a \div m) \in Int /\ m * (b \div m) \in Int
  BY <1>1, <1>2
<1>4. m * (a \div m) < m * (b \div m)
  BY <1>1, <1>2, <1>3
<1>5. a \div m < b \div m
  <2>1. ~(b \div m < a \div m)
    <3>1. b \div m < a \div m => m * (a \div m) >= m * (b \div m) + m
      BY <1>1, <1>2, NextMultiple
    <3>. QED
      BY <3>1, <1>3, <1>4
  <2>. QED
    BY <2>1, <1>1, <1>2, <1>3, <1>4
<1>6. m * (b \div m) >= m * (a \div m) + m
  BY <1>5, <1>1, <1>2, NextMultiple
<1>. QED
  BY <1>1, <1>2, <1>3, <1>6

-----------------------------------------------------------------------------
(* Sequences without repetitions *)

\* Taking out the k-th element
LEMMA RemoveAtFacts ==
  ASSUME NEW T, NEW s \in Seq(T), NEW k \in 1..Len(s)
  PROVE  LET r == RemoveAt(s, k)
         IN  /\ r \in Seq(T) /\ Len(r) = Len(s) - 1
             /\ DOMAIN r = 1..Len(s) - 1
             /\ \A i \in 1..Len(s) - 1 :
                   r[i] = IF i < k THEN s[i] ELSE s[i + 1]
<1>. DEFINE a == SubSeq(s, 1, k - 1)
            b == SubSeq(s, k + 1, Len(s))
            r == a \o b
<1>1. /\ a \in Seq(T) /\ Len(a) = k - 1
      /\ \A i \in 1..k-1 : a[i] = s[i]
  OBVIOUS
<1>2. /\ b \in Seq(T) /\ Len(b) = Len(s) - k
      /\ \A i \in 1..Len(b) : b[i] = s[k + i]
  OBVIOUS
<1>. HIDE DEF a, b
<1>3. /\ r \in Seq(T) /\ Len(r) = Len(s) - 1
      /\ DOMAIN r = 1..Len(s) - 1
      /\ \A i \in 1..Len(s) - 1 : r[i] = IF i < k THEN s[i] ELSE s[i + 1]
  <2>1. r \in Seq(T) /\ Len(r) = Len(a) + Len(b)
    BY <1>1, <1>2, ConcatProperties
  <2>2. \A i \in 1..Len(a) + Len(b) :
           r[i] = IF i <= Len(a) THEN a[i] ELSE b[i - Len(a)]
    BY <1>1, <1>2, ConcatProperties
  <2>. HIDE DEF r
  <2>3. Len(r) = Len(s) - 1 /\ DOMAIN r = 1..Len(s) - 1
    BY <2>1, <1>1, <1>2
  <2>4. ASSUME NEW i \in 1..Len(s) - 1
        PROVE  r[i] = IF i < k THEN s[i] ELSE s[i + 1]
    <3>1. CASE i < k
      BY <3>1, <2>2, <1>1, <1>2
    <3>2. CASE ~(i < k)
      <4>1. i - Len(a) \in 1..Len(b) /\ k + (i - Len(a)) = i + 1
        BY <3>2, <1>1, <1>2
      <4>0. i \in 1..Len(a) + Len(b) /\ ~(i <= Len(a))
        BY <3>2, <1>1, <1>2
      <4>2. r[i] = b[i - Len(a)]
        BY <4>0, <2>2
      <4>3. b[i - Len(a)] = s[k + (i - Len(a))]
        BY <4>1, <1>2
      <4>. QED
        BY <4>1, <4>2, <4>3, <3>2
    <3>. QED
      BY <3>1, <3>2
  <2>. QED
    BY <2>1, <2>3, <2>4
<1>. QED
  BY <1>3 DEF RemoveAt, r, a, b

\* Taking an element out of a sequence without repetitions: a del of a dict.
LEMMA RemoveFirstFacts ==
  ASSUME NEW T, NEW s \in Seq(T), IsInjective(s), NEW c \in Range(s)
  PROVE  /\ RemoveFirst(s, c) \in Seq(T)
         /\ IsInjective(RemoveFirst(s, c))
         /\ Range(RemoveFirst(s, c)) = Range(s) \ {c}
<1>0. PICK k \in 1..Len(s) : s[k] = c
  BY DEF Range
<1>1. {i \in 1..Len(s) : s[i] = c} = {k}
  BY <1>0 DEF IsInjective
<1>2. Min({k}) = k
  BY DEF Min
<1>3. RemoveFirst(s, c) = RemoveAt(s, k)
  BY <1>0, <1>1, <1>2 DEF RemoveFirst, SelectInSeq
<1>. DEFINE r == RemoveAt(s, k)
<1>4. /\ r \in Seq(T) /\ Len(r) = Len(s) - 1
      /\ DOMAIN r = 1..Len(s) - 1
      /\ \A i \in 1..Len(s) - 1 : r[i] = IF i < k THEN s[i] ELSE s[i + 1]
  BY RemoveAtFacts
<1>. HIDE DEF r
<1>5. Range(r) = Range(s) \ {c}
  <2>1. ASSUME NEW i \in DOMAIN s, s[i] # c
        PROVE  s[i] \in Range(r)
    <3>1. CASE i < k
      BY <3>1, <1>4 DEF Range
    <3>2. CASE i > k
      <4>1. i - 1 \in DOMAIN r /\ r[i - 1] = s[i]
        BY <3>2, <1>4
      <4>. QED
        BY <4>1 DEF Range
    <3>. QED
      BY <2>1, <3>1, <3>2, <1>0
  <2>2. ASSUME NEW i \in DOMAIN r
        PROVE  r[i] \in Range(s) \ {c}
    <3>1. CASE i < k
      BY <3>1, <1>4, <1>0 DEF Range, IsInjective
    <3>2. CASE ~(i < k)
      <4>1. i + 1 \in DOMAIN s /\ r[i] = s[i + 1] /\ i + 1 # k
        BY <3>2, <1>4
      <4>. QED
        BY <4>1, <1>0 DEF Range, IsInjective
    <3>. QED
      BY <3>1, <3>2
  <2>. QED
    BY <2>1, <2>2 DEF Range
<1>6. IsInjective(r)
  <2>. SUFFICES ASSUME NEW i \in DOMAIN r, NEW j \in DOMAIN r, r[i] = r[j]
                PROVE  i = j
    BY DEF IsInjective
  <2>. DEFINE at(x) == IF x < k THEN x ELSE x + 1
  <2>1. /\ at(i) \in DOMAIN s /\ r[i] = s[at(i)]
        /\ at(j) \in DOMAIN s /\ r[j] = s[at(j)]
    BY <1>4
  <2>2. at(i) = at(j)
    BY <2>1 DEF IsInjective
  <2>. QED
    BY <2>2, <1>4
<1>. QED
  BY <1>3, <1>4, <1>5, <1>6 DEF r

\* reversed()
LEMMA ReverseFacts ==
  ASSUME NEW T, NEW s \in Seq(T), IsInjective(s)
  PROVE  /\ Reverse(s) \in Seq(T)
         /\ IsInjective(Reverse(s))
         /\ Range(Reverse(s)) = Range(s)
<1>. DEFINE r == Reverse(s)
<1>1. /\ r \in Seq(T) /\ Len(r) = Len(s) /\ DOMAIN r = 1..Len(s)
      /\ \A i \in 1..Len(s) : r[i] = s[Len(s) - i + 1]
  BY DEF Reverse
<1>. HIDE DEF r
<1>2. \A i \in 1..Len(s) : Len(s) - i + 1 \in 1..Len(s)
  OBVIOUS
<1>3. \A i \in 1..Len(s) : s[i] = r[Len(s) - i + 1]
  BY <1>1, <1>2
<1>4. Range(r) \subseteq Range(s)
  BY <1>1, <1>2 DEF Range
<1>5. Range(s) \subseteq Range(r)
  BY <1>1, <1>2, <1>3 DEF Range
<1>6. IsInjective(r)
  <2>. SUFFICES ASSUME NEW i \in 1..Len(s), NEW j \in 1..Len(s), r[i] = r[j]
                PROVE  i = j
    BY <1>1 DEF IsInjective
  <2>0. s[Len(s) - i + 1] = s[Len(s) - j + 1]
    BY <1>1
  <2>1. Len(s) - i + 1 = Len(s) - j + 1
    BY <2>0, <1>2 DEF IsInjective
  <2>2. i \in Nat /\ j \in Nat /\ Len(s) \in Nat
    OBVIOUS
  <2>. QED
    BY <2>1, <2>2
<1>. QED
  BY <1>1, <1>4, <1>5, <1>6 DEF r

\* Adding a new element at the end
LEMMA AppendFacts ==
  ASSUME NEW T, NEW s \in Seq(T), IsInjective(s),
         NEW c \in T, c \notin Range(s)
  PROVE  /\ Append(s, c) \in Seq(T)
         /\ IsInjective(Append(s, c))
         /\ Range(Append(s, c)) = Range(s) \cup {c}
<1>1. /\ Append(s, c) \in Seq(T)
      /\ DOMAIN Append(s, c) = 1..Len(s) + 1
      /\ \A i \in 1..Len(s) : Append(s, c)[i] = s[i] /\ s[i] \in Range(s)
      /\ Append(s, c)[Len(s) + 1] = c
  BY DEF Range
<1>2. IsInjective(Append(s, c))
  BY <1>1 DEF IsInjective
<1>3. Range(Append(s, c)) \subseteq Range(s) \cup {c}
  BY <1>1 DEF Range
<1>4. Range(s) \cup {c} \subseteq Range(Append(s, c))
  BY <1>1 DEF Range
<1>. QED
  BY <1>1, <1>2, <1>3, <1>4

\* Taking the first element off
LEMMA TailFacts ==
  ASSUME NEW T, NEW s \in Seq(T), IsInjective(s), s # <<>>
  PROVE  /\ Tail(s) \in Seq(T)
         /\ IsInjective(Tail(s))
         /\ Head(s) \in Range(s)
         /\ Range(Tail(s)) = Range(s) \ {Head(s)}
<1>1. /\ Tail(s) \in Seq(T) /\ Head(s) = s[1] /\ 1 \in DOMAIN s
      /\ DOMAIN Tail(s) = 1..Len(s) - 1
      /\ \A i \in 1..Len(s) - 1 : Tail(s)[i] = s[i + 1]
  OBVIOUS
<1>2. \A i \in 1..Len(s) - 1 : i + 1 \in DOMAIN s /\ i + 1 # 1
  OBVIOUS
<1>3. IsInjective(Tail(s))
  BY <1>1, <1>2 DEF IsInjective
<1>4. Range(Tail(s)) \subseteq Range(s) \ {Head(s)}
  BY <1>1, <1>2 DEF Range, IsInjective
<1>5. ASSUME NEW i \in DOMAIN s, s[i] # s[1] PROVE s[i] \in Range(Tail(s))
  <2>1. i - 1 \in DOMAIN Tail(s) /\ Tail(s)[i - 1] = s[i]
    BY <1>1, <1>5
  <2>. QED
    BY <2>1 DEF Range
<1>6. Head(s) \in Range(s)
  BY <1>1 DEF Range
<1>7. Range(s) \ {Head(s)} \subseteq Range(Tail(s))
  BY <1>1, <1>5 DEF Range
<1>. QED
  BY <1>1, <1>3, <1>4, <1>6, <1>7

-----------------------------------------------------------------------------
(* Concatenation *)

\* Under a name that the provers leave folded: they expand \o itself.
Join(a, b) == a \o b

\* The type and the length of a concatenation
LEMMA JoinType ==
  ASSUME NEW T, NEW a \in Seq(T), NEW b \in Seq(T)
  PROVE  Join(a, b) \in Seq(T) /\ Len(Join(a, b)) = Len(a) + Len(b)
BY ConcatProperties DEF Join

\* Concatenation is a monoid without inverses.
LEMMA JoinFacts ==
  ASSUME NEW T
  PROVE  /\ \A a, b, c \in Seq(T) : Join(Join(a, b), c) = Join(a, Join(b, c))
         /\ \A a \in Seq(T) : Join(a, <<>>) = a /\ Join(<<>>, a) = a
         /\ \A a, b \in Seq(T) : Join(a, b) = <<>> => a = <<>> /\ b = <<>>
<1>2. ASSUME NEW a \in Seq(T), NEW b \in Seq(T), NEW c \in Seq(T)
      PROVE  Join(Join(a, b), c) = Join(a, Join(b, c))
  BY ConcatAssociative DEF Join
<1>3. ASSUME NEW a \in Seq(T)
      PROVE  Join(a, <<>>) = a /\ Join(<<>>, a) = a
  BY ConcatEmptySeq DEF Join
<1>4. ASSUME NEW a \in Seq(T), NEW b \in Seq(T), Join(a, b) = <<>>
      PROVE  a = <<>> /\ b = <<>>
  BY <1>4, ConcatEqualIffEmpty DEF Join
<1>. QED
  BY <1>2, <1>3, <1>4

\* Four sequences, grouped in another way
LEMMA Regroup ==
  ASSUME NEW T, NEW a \in Seq(T), NEW b \in Seq(T), NEW c \in Seq(T),
         NEW d \in Seq(T)
  PROVE  Join(Join(a, b), Join(c, d)) = Join(a, Join(Join(b, c), d))
<1>1. Join(c, d) \in Seq(T)
  BY JoinType
<1>2. Join(Join(a, b), Join(c, d)) = Join(a, Join(b, Join(c, d)))
  BY <1>1, JoinFacts
<1>3. Join(b, Join(c, d)) = Join(Join(b, c), d)
  BY JoinFacts
<1>. QED
  BY <1>2, <1>3

\* A sequence cut in two
LEMMA Cut ==
  ASSUME NEW T, NEW s \in Seq(T), NEW k \in 0..Len(s)
  PROVE  /\ SubSeq(s, 1, k) \in Seq(T) /\ SubSeq(s, k + 1, Len(s)) \in Seq(T)
         /\ Len(SubSeq(s, 1, k)) = k
         /\ Join(SubSeq(s, 1, k), SubSeq(s, k + 1, Len(s))) = s
<1>1. /\ 1 \in 1..Len(s) + 1 /\ k \in 1 - 1..Len(s) /\ Len(s) \in k..Len(s)
  OBVIOUS
<1>2. SubSeq(s, 1, k) \o SubSeq(s, k + 1, Len(s)) = SubSeq(s, 1, Len(s))
  BY <1>1, ConcatAdjacentSubSeq
<1>3. SubSeq(s, 1, Len(s)) = s
  BY SubSeqFull
<1>4. SubSeq(s, 1, k) \in Seq(T) /\ Len(SubSeq(s, 1, k)) = k
  OBVIOUS
<1>5. SubSeq(s, k + 1, Len(s)) \in Seq(T)
  OBVIOUS
<1>. QED
  BY <1>2, <1>3, <1>4, <1>5 DEF Join

\* The front of a concatenation
LEMMA CutUnique ==
  ASSUME NEW T, NEW a \in Seq(T), NEW b \in Seq(T), NEW s \in Seq(T),
         Join(a, b) = s
  PROVE  /\ Len(s) = Len(a) + Len(b)
         /\ a = SubSeq(s, 1, Len(a)) /\ b = SubSeq(s, Len(a) + 1, Len(s))
<1>1. /\ Len(s) = Len(a) + Len(b)
      /\ \A i \in 1..Len(a) + Len(b) :
            s[i] = IF i <= Len(a) THEN a[i] ELSE b[i - Len(a)]
  BY ConcatProperties DEF Join
<1>2. a = SubSeq(s, 1, Len(a))
  <2>1. /\ SubSeq(s, 1, Len(a)) \in Seq(T)
        /\ Len(SubSeq(s, 1, Len(a))) = Len(a)
        /\ \A i \in 1..Len(a) : SubSeq(s, 1, Len(a))[i] = s[i]
    BY <1>1
  <2>2. \A i \in 1..Len(a) : s[i] = a[i]
    BY <1>1
  <2>. QED
    BY <2>1, <2>2, SeqEqual
<1>3. b = SubSeq(s, Len(a) + 1, Len(s))
  <2>. DEFINE c == SubSeq(s, Len(a) + 1, Len(s))
  <2>1. /\ c \in Seq(T) /\ Len(c) = Len(b)
        /\ \A i \in 1..Len(b) : c[i] = s[Len(a) + i]
    BY <1>1
  <2>2. ASSUME NEW i \in 1..Len(b) PROVE s[Len(a) + i] = b[i]
    <3>1. /\ Len(a) + i \in 1..Len(a) + Len(b) /\ ~(Len(a) + i <= Len(a))
          /\ (Len(a) + i) - Len(a) = i
      OBVIOUS
    <3>. QED
      BY <1>1, <3>1
  <2>. HIDE DEF c
  <2>3. b = c
    BY <2>1, <2>2, SeqEqual
  <2>. QED
    BY <2>3 DEF c
<1>. QED
  BY <1>1, <1>2, <1>3
=============================================================================
