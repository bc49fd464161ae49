--------------------------- MODULE Ipv4RouterProofs ---------------------------
(***************************************************************************)
(* What the runs check of the router's tables and of the IPv4 header, for  *)
(* addresses and words of any width, tables of any size and any number of  *)
(* routes, neighbours and packets.                                         *)
(***************************************************************************)
EXTENDS Ipv4Router, ProofFacts, FiniteSetTheorems

-----------------------------------------------------------------------------
(* Powers of two *)

\* The table of the powers of two is what its recursion says.
LEMMA Powers ==
  ASSUME NEW w \in Nat
  PROVE  LET p == PowersUpTo(w)
         IN  /\ p \in [0..w -> Nat]
             /\ p[0] = 1
             /\ \A n \in 1..w : p[n] = 2 * p[n - 1]
<1>. DEFINE Fills(g) == g = [n \in 0..w |-> IF n = 0 THEN 1 ELSE 2 * g[n - 1]]
            p == CHOOSE g : Fills(g)
            step == [i \in Nat |-> [x \in Nat |-> 2 * x]]
<1>1. PICK g : Recurs(g, w, Nat, 1, step)
  <2>1. step \in [Nat -> [Nat -> Nat]] /\ 1 \in Nat
    OBVIOUS
  <2>. HIDE DEF step
  <2>. QED
    BY <2>1, FiniteRecursion
<1>2. ASSUME NEW i \in 1..w PROVE g[i] = 2 * g[i - 1]
  <2>1. i \in Nat /\ i - 1 \in 0..w /\ g[i - 1] \in Nat
    BY <1>1 DEF Recurs
  <2>. QED
    BY <1>1, <2>1 DEF Recurs
<1>. HIDE DEF step
<1>3. Fills(g)
  <2>1. \A n \in 0..w : g[n] = IF n = 0 THEN 1 ELSE 2 * g[n - 1]
    BY <1>1, <1>2 DEF Recurs
  <2>. QED
    BY <1>1, <2>1 DEF Recurs
<1>4. Fills(p)
  <2>. HIDE DEF Fills
  <2>. QED
    BY <1>3
<1>5. PowersUpTo(w) = p
  BY DEF PowersUpTo
<1>6. /\ p[0] = 1
      /\ \A n \in 1..w : p[n] = 2 * p[n - 1]
  <2>. HIDE DEF p
  <2>. QED
    BY <1>4
<1>. DEFINE J == {k \in Nat : k \in 0..w => p[k] \in Nat}
<1>7. 0 \in J
  BY <1>6
<1>8. ASSUME NEW k \in Nat, k \in J PROVE k + 1 \in J
  <2>. HIDE DEF p
  <2>1. CASE k + 1 \in 0..w
    <3>1. p[k] \in Nat
      BY <1>8, <2>1
    <3>2. p[k + 1] = 2 * p[(k + 1) - 1]
      BY <1>6, <2>1
    <3>. QED
      BY <3>1, <3>2
  <2>. QED
    BY <2>1
<1>9. \A k \in 0..w : p[k] \in Nat
  <2>. HIDE DEF J
  <2>1. \A k \in Nat : k \in J
    BY <1>7, <1>8, Induction
  <2>. QED
    BY <2>1 DEF J
<1>10. p \in [0..w -> Nat]
  <2>. HIDE DEF p
  <2>. QED
    BY <1>4, <1>9
<1>. HIDE DEF p
<1>. QED
  BY <1>5, <1>6, <1>10

\* Every entry of the table of powers is a positive number.
LEMMA PowersPositive ==
  ASSUME NEW w \in Nat
  PROVE  \A n \in 0..w : PowersUpTo(w)[n] \in Nat \ {0}
<1>. DEFINE p == PowersUpTo(w)
            J == {k \in Nat : k \in 0..w => p[k] # 0}
<1>1. /\ p \in [0..w -> Nat] /\ p[0] = 1
      /\ \A n \in 1..w : p[n] = 2 * p[n - 1]
  BY Powers
<1>. HIDE DEF p
<1>2. 0 \in J
  BY <1>1
<1>3. ASSUME NEW k \in Nat, k \in J PROVE k + 1 \in J
  <2>1. CASE k + 1 \in 0..w
    <3>1. p[k] \in Nat /\ p[k] # 0
      BY <1>1, <1>3, <2>1
    <3>2. p[k + 1] = 2 * p[(k + 1) - 1]
      BY <1>1, <2>1
    <3>. QED
      BY <3>1, <3>2
  <2>. QED
    BY <2>1
<1>4. \A k \in Nat : k \in J
  <2>. HIDE DEF J
  <2>. QED
    BY <1>2, <1>3, Induction
<1>. QED
  BY <1>1, <1>4 DEF p

\* 2^n * 2^(w - n) = 2^w
LEMMA PowersMultiply ==
  ASSUME NEW w \in Nat
  PROVE  \A n \in 0..w :
            PowersUpTo(w)[n] * PowersUpTo(w)[w - n] = PowersUpTo(w)[w]
<1>. DEFINE p == PowersUpTo(w)
            J == {k \in Nat : k \in 0..w => p[k] * p[w - k] = p[w]}
<1>1. /\ p \in [0..w -> Nat] /\ p[0] = 1
      /\ \A n \in 1..w : p[n] = 2 * p[n - 1]
  BY Powers
<1>. HIDE DEF p
<1>2. 0 \in J
  BY <1>1
<1>3. ASSUME NEW k \in Nat, k \in J PROVE k + 1 \in J
  <2>1. CASE k + 1 \in 0..w
    <3>1. p[k] \in Nat /\ p[w - (k + 1)] \in Nat /\ p[k] * p[w - k] = p[w]
      BY <1>1, <1>3, <2>1
    <3>2. p[k + 1] = 2 * p[(k + 1) - 1] /\ (k + 1) - 1 = k
      BY <1>1, <2>1
    <3>3. w - k \in 1..w /\ (w - k) - 1 = w - (k + 1)
      BY <2>1
    <3>4. p[w - k] = 2 * p[w - (k + 1)]
      BY <1>1, <3>3
    <3>5. \A x, y \in Nat : (2 * x) * y = x * (2 * y)
      OBVIOUS
    <3>. QED
      BY <3>1, <3>2, <3>4, <3>5
  <2>. QED
    BY <2>1
<1>4. \A k \in Nat : k \in J
  <2>. HIDE DEF J
  <2>. QED
    BY <1>2, <1>3, Induction
<1>. QED
  BY <1>4 DEF p

-----------------------------------------------------------------------------
(* Prefixes *)

\* The addresses that agree with a in the bits of a multiple of m
LEMMA Block ==
  ASSUME NEW m \in Nat \ {0}, NEW k \in Nat, NEW a \in 0..(k * m) - 1
  PROVE  LET net == a - (a % m)
         IN  /\ net \in 0..(k * m) - 1
             /\ {b \in 0..(k * m) - 1 : b - (b % m) = net} = net..net + m - 1
<1>. DEFINE q == a \div m
            net == a - (a % m)
            B == {b \in 0..(k * m) - 1 : b - (b % m) = net}
<1>0. k * m \in Nat /\ k * m = m * k
  OBVIOUS
<1>1. /\ a % m \in 0..m - 1 /\ q \in Nat /\ a = m * q + (a % m)
  <2>1. a \in Nat
    BY <1>0
  <2>. QED
    BY <2>1, DivMod
<1>2. net = m * q /\ net \in Nat /\ net <= a
  <2>1. m * q \in Nat
    BY <1>1
  <2>. HIDE DEF q
  <2>. QED
    BY <1>1, <2>1
<1>. HIDE DEF q, net
<1>3. net + m <= k * m
  <2>1. q < k
    <3>. SUFFICES ASSUME k < q \/ k = q PROVE FALSE
      BY <1>1
    <3>1. CASE k = q
      BY <1>0, <1>1, <1>2, <3>1
    <3>2. CASE k < q
      <4>1. m * q >= m * k + m
        BY <1>1, <3>2, NextMultiple
      <4>2. a >= k * m
        BY <1>0, <1>2, <4>1
      <4>. QED
        BY <4>2
    <3>. QED
      BY <3>1, <3>2
  <2>2. m * k >= m * q + m
    BY <1>1, <2>1, NextMultiple
  <2>. QED
    BY <1>0, <1>2, <2>2
<1>4. ASSUME NEW b \in B PROVE b \in net..net + m - 1
  <2>1. b \in Nat /\ b - (b % m) = net
    BY <1>0
  <2>2. b % m \in 0..m - 1
    BY <2>1, DivMod
  <2>. QED
    BY <1>2, <2>1, <2>2
<1>5. ASSUME NEW b \in net..net + m - 1 PROVE b \in B
  <2>1. b \in Nat /\ b - net \in 0..m - 1 /\ b = m * q + (b - net)
    BY <1>2
  <2>2. b % m \in 0..m - 1 /\ b \div m \in Nat /\ b = m * (b \div m) + (b % m)
    BY <2>1, DivMod
  <2>3. \A t \in 0..m - 1, s \in 0..m - 1, x \in Int, y \in Int :
           m * x + s = m * y + t => s = t
    BY DivModUnique
  <2>4. b % m = b - net
    <3>1. m * (b \div m) + (b % m) = m * q + (b - net)
      BY <2>1, <2>2
    <3>2. q \in Int /\ b \div m \in Int
      BY <1>1, <2>2
    <3>. QED
      BY <2>1, <2>2, <2>3, <3>1, <3>2, Zenon
  <2>5. b - (b % m) = net
    BY <1>2, <2>1, <2>4
  <2>6. b \in 0..(k * m) - 1
    BY <1>0, <1>2, <1>3, <2>1
  <2>. QED
    BY <2>5, <2>6
<1>6. B = net..net + m - 1
  <2>. HIDE DEF B
  <2>. QED
    BY <1>2, <1>4, <1>5
<1>7. net \in 0..(k * m) - 1
  BY <1>0, <1>2
<1>. QED
  BY <1>6, <1>7 DEF net

\* A prefix stands for the addresses that agree with the given one in its
\* first length bits: its network is one of them and there are
\* 2^(AddressBits - length).
LEMMA PrefixCovers ==
  ASSUME NEW a \in Addresses, NEW length \in 0..AddressBits
  PROVE  LET p == Prefix(a, length)
             covered == {b \in Addresses : PrefixContains(p, b)}
         IN  /\ p.network \in covered
             /\ Cardinality(covered) = AddressPower[AddressBits - length]
<1>. DEFINE m == AddressPower[AddressBits - length]
            k == AddressPower[length]
            p == Prefix(a, length)
            net == a - (a % m)
            covered == {b \in Addresses : PrefixContains(p, b)}
<1>1. AddressBits \in Nat
  BY TablesAssumption
<1>2. m \in Nat \ {0} /\ k \in Nat
  <2>1. AddressBits - length \in 0..AddressBits
    BY <1>1
  <2>. QED
    BY <1>1, <2>1, PowersPositive DEF AddressPower
<1>3. Addresses = 0..(k * m) - 1
  BY <1>1, PowersMultiply DEF Addresses, AddressPower
<1>. HIDE DEF m, k
<1>4. p.network = net /\ p.length = length
  BY DEF Prefix, NetworkPart, m
<1>5. covered = {b \in Addresses : b - (b % m) = net}
  BY <1>4 DEF PrefixContains, NetworkPart, m
<1>6. net \in Addresses /\ covered = net..net + m - 1
  <2>. HIDE DEF covered
  <2>1. a \in 0..(k * m) - 1
    BY <1>3
  <2>. QED
    BY <1>2, <1>3, <1>5, <2>1, Block
<1>7. net \in Nat
  BY <1>2, <1>3, <1>6
<1>8. Cardinality(net..net + m - 1) = m
  <2>. HIDE DEF net
  <2>1. net \in Int /\ net + m - 1 \in Int /\ ~(net > net + m - 1)
    BY <1>2, <1>7
  <2>2. Cardinality(net..net + m - 1) = (net + m - 1) - net + 1
    BY <2>1, FS_Interval
  <2>. QED
    BY <1>2, <1>7, <2>2
<1>9. net \in net..net + m - 1
  BY <1>2, <1>7
<1>. QED
  BY <1>4, <1>6, <1>8, <1>9 DEF m

-----------------------------------------------------------------------------
(* The route table *)

RouteEntry ==
    [prefix: {Prefix(a, length) : a \in Addresses, length \in 0..AddressBits},
     hop: {o[3] : o \in RouteOffers}, port: {o[4] : o \in RouteOffers}]

\* No two routes have the same prefix, and the next hops are those that
\* RouteEntry::create lets through.
RoutesGood(s) ==
    /\ s \in Seq(RouteEntry)
    /\ \A i, j \in 1..Len(s) : s[i].prefix = s[j].prefix => i = j
    /\ \A i \in 1..Len(s) : ValidNextHop(s[i].hop)

\* SelectInSeq finds the only entry with a prefix.
LEMMA SelectRoute ==
  ASSUME NEW s, RoutesGood(s), NEW p
  PROVE  LET at == SelectInSeq(s, LAMBDA e : e.prefix = p)
         IN  \/ at = 0 /\ \A i \in 1..Len(s) : s[i].prefix # p
             \/ at \in 1..Len(s) /\ s[at].prefix = p
<1>. DEFINE I == {i \in 1..Len(s) : s[i].prefix = p}
<1>1. SelectInSeq(s, LAMBDA e : e.prefix = p) = IF I # {} THEN Min(I) ELSE 0
  BY DEF SelectInSeq
<1>2. CASE I = {}
  BY <1>1, <1>2
<1>3. ASSUME NEW k \in I PROVE Min(I) = k
  <2>1. I = {k}
    BY DEF RoutesGood
  <2>2. Min({k}) = k
    BY DEF Min
  <2>. QED
    BY <2>1, <2>2
<1>. QED
  BY <1>1, <1>2, <1>3

\* add_or_replace keeps the vector good: it overwrites the route of the same
\* prefix or appends one whose prefix no route has.
LEMMA AddRouteKeepsGood ==
  ASSUME NEW s, RoutesGood(s), NEW e \in RouteEntry, ValidNextHop(e.hop)
  PROVE  RoutesGood(AddOrReplaceRoute(s, e))
<1>. DEFINE at == SelectInSeq(s, LAMBDA x : x.prefix = e.prefix)
            r == AddOrReplaceRoute(s, e)
<1>0. s \in Seq(RouteEntry)
  BY DEF RoutesGood
<1>1. \/ at = 0 /\ \A i \in 1..Len(s) : s[i].prefix # e.prefix
      \/ at \in 1..Len(s) /\ s[at].prefix = e.prefix
  BY SelectRoute
<1>2. r = IF at = 0 THEN Append(s, e) ELSE [s EXCEPT ![at] = e]
  BY DEF AddOrReplaceRoute, ReplaceAt
<1>. HIDE DEF at, r
<1>3. CASE at = 0
  <2>1. /\ r \in Seq(RouteEntry) /\ Len(r) = Len(s) + 1
        /\ \A i \in 1..Len(s) : r[i] = s[i]
        /\ r[Len(s) + 1] = e
    BY <1>0, <1>2, <1>3
  <2>2. \A i \in 1..Len(s) : s[i].prefix # e.prefix
    BY <1>1, <1>3
  <2>3. \A i \in 1..Len(r) : i = Len(s) + 1 \/ i \in 1..Len(s)
    BY <1>0, <2>1
  <2>4. RoutesGood(r)
    BY <2>1, <2>2, <2>3 DEF RoutesGood
  <2>. QED
    BY <2>4 DEF r
<1>4. CASE at \in 1..Len(s) /\ s[at].prefix = e.prefix
  <2>1. /\ r \in Seq(RouteEntry) /\ Len(r) = Len(s)
        /\ \A i \in 1..Len(s) : r[i] = IF i = at THEN e ELSE s[i]
    BY <1>0, <1>2, <1>4
  <2>2. \A i \in 1..Len(s) : r[i].prefix = s[i].prefix
    BY <1>4, <2>1
  <2>3. \A i \in 1..Len(s) : ValidNextHop(r[i].hop)
    BY <2>1 DEF RoutesGood
  <2>4. RoutesGood(r)
    BY <2>1, <2>2, <2>3 DEF RoutesGood
  <2>. QED
    BY <2>4 DEF r
<1>. QED
  BY <1>1, <1>3, <1>4 DEF r

\* remove() keeps the vector good.
LEMMA EraseRouteKeepsGood ==
  ASSUME NEW s, RoutesGood(s), NEW p
  PROVE  RoutesGood(EraseRoute(s, p))
<1>. DEFINE at == SelectInSeq(s, LAMBDA x : x.prefix = p)
            r == RemoveAt(s, at)
<1>0. s \in Seq(RouteEntry)
  BY DEF RoutesGood
<1>1. CASE \E i \in 1..Len(s) : s[i].prefix = p
  <2>1. EraseRoute(s, p) = r
    BY <1>1 DEF EraseRoute, RemoveFirstMatch
  <2>2. at \in 1..Len(s)
    <3>1. \/ at = 0 /\ \A i \in 1..Len(s) : s[i].prefix # p
          \/ at \in 1..Len(s) /\ s[at].prefix = p
      BY SelectRoute
    <3>. QED
      BY <1>1, <3>1
  <2>. HIDE DEF at
  <2>3. /\ r \in Seq(RouteEntry) /\ Len(r) = Len(s) - 1
        /\ \A i \in 1..Len(s) - 1 : r[i] = IF i < at THEN s[i] ELSE s[i + 1]
    BY <1>0, <2>2, RemoveAtFacts
  <2>. DEFINE from(i) == IF i < at THEN i ELSE i + 1
  <2>4. \A i \in 1..Len(r) : from(i) \in 1..Len(s) /\ r[i] = s[from(i)]
    BY <1>0, <2>2, <2>3
  <2>5. \A i, j \in 1..Len(r) : from(i) = from(j) => i = j
    BY <1>0, <2>2, <2>3
  <2>. HIDE DEF r, from
  <2>. QED
    BY <2>1, <2>3, <2>4, <2>5 DEF RoutesGood
<1>2. CASE ~ \E i \in 1..Len(s) : s[i].prefix = p
  BY <1>2 DEF EraseRoute, RemoveFirstMatch
<1>. QED
  BY <1>1, <1>2

\* The loop of longest_prefix_match: after k entries best_match is null if
\* none of them contains the address, and otherwise the longest that does.
BestOf(s, a, k, v) ==
    /\ v \in 0..k
    /\ v = 0 => \A i \in 1..k : ~PrefixContains(s[i].prefix, a)
    /\ v # 0 => /\ PrefixContains(s[v].prefix, a)
                /\ \A i \in 1..k : PrefixContains(s[i].prefix, a)
                      => s[i].prefix.length <= s[v].prefix.length

\* The pass over the whole vector ends with a longest match: by induction on
\* the routes visited, through the function the recursion defines.
LEMMA LoopFindsBest ==
  ASSUME NEW s, RoutesGood(s), NEW a
  PROVE  BestOf(s, a, Len(s), BestMatch(s, a))
<1>. DEFINE n == Len(s)
            Turn(i, last) == IF /\ PrefixContains(s[i].prefix, a)
                                /\ last = 0 \/ Better(s[i], s[last])
                             THEN i ELSE last
            Fills(g) == g = [i \in 0..n |-> IF i = 0 THEN 0 ELSE Turn(i, g[i - 1])]
            best == CHOOSE g : Fills(g)
            step == [i \in Nat |-> [x \in Nat |-> Turn(i, x)]]
<1>0. n \in Nat /\ \A i \in 1..n : s[i].prefix.length \in Nat
  <2>1. s \in Seq(RouteEntry)
    BY DEF RoutesGood
  <2>2. \A e \in RouteEntry : e.prefix.length \in Nat
    BY TablesAssumption DEF RouteEntry, Prefix
  <2>. QED
    BY <2>1, <2>2
<1>1. BestMatch(s, a) = best[n]
  BY DEF BestMatch
<1>. HIDE DEF n
<1>2. \A i \in Nat, x \in Nat : Turn(i, x) \in Nat
  OBVIOUS
<1>3. PICK g : Recurs(g, n, Nat, 0, step)
  <2>1. step \in [Nat -> [Nat -> Nat]] /\ 0 \in Nat
    BY <1>2
  <2>. HIDE DEF step
  <2>. QED
    BY <1>0, <2>1, FiniteRecursion
<1>4. ASSUME NEW i \in 1..n PROVE g[i] = Turn(i, g[i - 1])
  <2>1. i \in Nat /\ i - 1 \in 0..n /\ g[i - 1] \in Nat
    BY <1>0, <1>3 DEF Recurs
  <2>2. g[i] = step[i][g[i - 1]]
    BY <1>3 DEF Recurs
  <2>. HIDE DEF Turn
  <2>. QED
    BY <2>1, <2>2
<1>. HIDE DEF step, Turn
<1>5. Fills(g)
  <2>1. DOMAIN g = 0..n /\ g = [i \in DOMAIN g |-> g[i]] /\ g[0] = 0
    BY <1>3 DEF Recurs
  <2>2. \A i \in 0..n : g[i] = IF i = 0 THEN 0 ELSE Turn(i, g[i - 1])
    BY <1>0, <1>4, <2>1
  <2>. QED
    BY <2>1, <2>2
<1>6. Fills(best)
  <2>. HIDE DEF Fills
  <2>. QED
    BY <1>5
<1>7. best[0] = 0 /\ \A i \in 1..n : best[i] = Turn(i, best[i - 1])
  <2>. HIDE DEF best
  <2>. QED
    BY <1>0, <1>6
<1>. HIDE DEF best, Fills
<1>. DEFINE J == {k \in Nat : k <= n => BestOf(s, a, k, best[k])}
<1>8. 0 \in J
  BY <1>7 DEF BestOf
<1>9. ASSUME NEW k \in Nat, k \in J PROVE k + 1 \in J
  <2>. SUFFICES ASSUME k + 1 <= n PROVE BestOf(s, a, k + 1, best[k + 1])
    OBVIOUS
  <2>1. BestOf(s, a, k, best[k])
    BY <1>0, <1>9
  <2>2. best[k + 1] = Turn(k + 1, best[k])
    <3>1. k + 1 \in 1..n /\ (k + 1) - 1 = k
      BY <1>0
    <3>. QED
      BY <1>7, <3>1
  <2>. DEFINE v == best[k]
              Has(i) == PrefixContains(s[i].prefix, a)
              len(i) == s[i].prefix.length
  <2>3. /\ v \in 0..k
        /\ v = 0 => \A i \in 1..k : ~Has(i)
        /\ v # 0 => Has(v) /\ \A i \in 1..k : Has(i) => len(i) <= len(v)
    BY <2>1 DEF BestOf
  <2>4. best[k + 1] = IF Has(k + 1) /\ (v = 0 \/ len(k + 1) > len(v))
                      THEN k + 1 ELSE v
    BY <2>2 DEF Turn, Better
  <2>5. len(k + 1) \in Nat /\ \A i \in 1..k : len(i) \in Nat
    BY <1>0
  <2>6. \A i \in 1..k + 1 : i = k + 1 \/ i \in 1..k
    OBVIOUS
  <2>. DEFINE u == best[k + 1]
  <2>7. SUFFICES /\ u \in 0..k + 1
                 /\ u = 0 => \A i \in 1..k + 1 : ~Has(i)
                 /\ u # 0 => /\ Has(u)
                             /\ \A i \in 1..k + 1 : Has(i) => len(i) <= len(u)
    BY DEF BestOf
  <2>. HIDE DEF v, u, Has, len
  <2>8. CASE Has(k + 1) /\ (v = 0 \/ len(k + 1) > len(v))
    <3>1. u = k + 1
      BY <2>4, <2>8 DEF u
    <3>2. ASSUME NEW i \in 1..k + 1, Has(i) PROVE len(i) <= len(k + 1)
      <4>1. CASE i = k + 1
        BY <2>5, <4>1
      <4>2. CASE i \in 1..k
        <5>1. v # 0
          BY <2>3, <3>2, <4>2
        <5>2. v \in 1..k
          BY <2>3, <5>1
        <5>3. len(i) <= len(v) /\ len(v) < len(k + 1)
          BY <2>3, <2>5, <2>8, <3>2, <4>2, <5>1, <5>2
        <5>. QED
          BY <2>5, <4>2, <5>2, <5>3
      <4>. QED
        BY <2>6, <4>1, <4>2
    <3>. QED
      BY <2>8, <3>1, <3>2
  <2>9. CASE ~(Has(k + 1) /\ (v = 0 \/ len(k + 1) > len(v)))
    <3>1. u = v
      BY <2>4, <2>9 DEF u
    <3>2. CASE v = 0
      BY <2>3, <2>6, <2>9, <3>1, <3>2
    <3>3. CASE v # 0
      <4>1. v \in 1..k
        BY <2>3, <3>3
      <4>2. ASSUME NEW i \in 1..k + 1, Has(i) PROVE len(i) <= len(v)
        <5>1. CASE i = k + 1
          BY <2>5, <2>9, <3>3, <4>1, <4>2, <5>1
        <5>2. CASE i \in 1..k
          BY <2>3, <3>3, <4>2, <5>2
        <5>. QED
          BY <2>6, <5>1, <5>2
      <4>. QED
        BY <2>3, <3>1, <3>3, <4>1, <4>2
    <3>. QED
      BY <3>2, <3>3
  <2>. QED
    BY <2>8, <2>9
<1>10. n \in J
  <2>. HIDE DEF J
  <2>. QED
    BY <1>0, <1>8, <1>9, Induction
<1>. QED
  BY <1>0, <1>1, <1>10 DEF n

-----------------------------------------------------------------------------
(* The tables under any sequence of calls *)

NeighborsGood ==
    \A a \in DOMAIN neighbors :
        /\ IsHostAddress(a) /\ IsHostMac(neighbors[a].mac)
        /\ neighbors[a].learnedAt \in Nat

StationsGood ==
    /\ IsFiniteSet(DOMAIN stations)
    /\ Cardinality(DOMAIN stations) <= MacCapacity

TableInv == RoutesGood(routes) /\ NeighborsGood /\ StationsGood /\ PinnedStay

\* learn() and add_static() add a station only while there is room.
LEMMA UpdateKeepsCapacity ==
  ASSUME StationsGood, NEW key, NEW port, NEW type, NEW now,
         stations' = Updated(stations, key, port, type, now)
  PROVE  StationsGood'
<1>. DEFINE D == DOMAIN stations
<1>1. CASE stations' = stations
  BY <1>1 DEF StationsGood
<1>2. CASE stations' # stations
  <2>1. /\ DOMAIN stations' = D \cup {key}
        /\ UpdateResult(stations, key, port, type) # "table_full"
    BY <1>2 DEF Updated, Put
  <2>2. key \in D \/ ~(Cardinality(D) >= MacCapacity)
    BY <2>1 DEF UpdateResult
  <2>3. /\ IsFiniteSet(D) /\ Cardinality(D) <= MacCapacity
        /\ Cardinality(D) \in Nat /\ MacCapacity \in Nat
    BY FS_CardinalityType, TablesAssumption DEF StationsGood
  <2>4. /\ IsFiniteSet(D \cup {key})
        /\ Cardinality(D \cup {key})
              = IF key \in D THEN Cardinality(D) ELSE Cardinality(D) + 1
    BY <2>3, FS_AddElement
  <2>. HIDE DEF D
  <2>5. Cardinality(D \cup {key}) <= MacCapacity
    BY <2>2, <2>3, <2>4
  <2>. QED
    BY <2>1, <2>4, <2>5 DEF StationsGood
<1>. QED
  BY <1>1, <1>2

\* remove() and aging only take stations away.
LEMMA KeepKeepsCapacity ==
  ASSUME StationsGood, NEW K, stations' = Keep(stations, K)
  PROVE  StationsGood'
<1>1. DOMAIN stations' \in SUBSET DOMAIN stations
  BY DEF Keep
<1>2. /\ IsFiniteSet(DOMAIN stations')
      /\ Cardinality(DOMAIN stations') <= Cardinality(DOMAIN stations)
  BY <1>1, FS_Subset DEF StationsGood
<1>3. /\ Cardinality(DOMAIN stations') \in Nat
      /\ Cardinality(DOMAIN stations) \in Nat /\ MacCapacity \in Nat
  BY <1>2, FS_CardinalityType, TablesAssumption DEF StationsGood
<1>. QED
  BY <1>2, <1>3 DEF StationsGood

\* Every call and every message keeps the tables good.
LEMMA TableInvStep == TableInv /\ [Next]_vars => TableInv'
<1>. SUFFICES ASSUME TableInv, [Next]_vars PROVE TableInv'
  OBVIOUS
<1>1. ASSUME UNCHANGED routes PROVE RoutesGood(routes)'
  BY <1>1 DEF TableInv
<1>2. ASSUME UNCHANGED neighbors PROVE NeighborsGood'
  BY <1>2 DEF TableInv, NeighborsGood
<1>3. ASSUME UNCHANGED <<stations, pinned>> PROVE StationsGood' /\ PinnedStay'
  BY <1>3 DEF TableInv, StationsGood, PinnedStay
<1>4. ASSUME NEW o \in RouteOffers, AddRoute(o) PROVE TableInv'
  <2>. DEFINE e == [prefix |-> Prefix(o[1], o[2]), hop |-> o[3], port |-> o[4]]
  <2>1. e \in RouteEntry /\ ValidNextHop(e.hop)
    BY <1>4, RouterAssumption DEF AddRoute, RouteEntry
  <2>2. routes' = AddOrReplaceRoute(routes, e)
    BY <1>4 DEF AddRoute
  <2>. HIDE DEF e
  <2>3. RoutesGood(routes')
    BY <2>1, <2>2, AddRouteKeepsGood DEF TableInv
  <2>. QED
    BY <1>2, <1>3, <1>4, <2>3 DEF AddRoute, TableInv
<1>5. ASSUME NEW o \in RouteOffers, DeleteRoute(o) PROVE TableInv'
  <2>1. RoutesGood(routes')
    BY <1>5, EraseRouteKeepsGood DEF DeleteRoute, TableInv
  <2>. QED
    BY <1>2, <1>3, <1>5, <2>1 DEF DeleteRoute, TableInv
<1>6. ASSUME NEW a, NEW mac, NEW now \in Times, AddNeighbor(a, mac, now)
      PROVE  TableInv'
  <2>1. now \in Nat
    BY RouterAssumption
  <2>2. NeighborsGood'
    <3>1. CASE neighbors' = neighbors
      BY <1>2, <3>1
    <3>2. CASE /\ AcceptsNeighbor(a, mac)
               /\ neighbors' = Put(neighbors, a, [mac |-> mac, learnedAt |-> now])
      BY <2>1, <3>2 DEF TableInv, NeighborsGood, Put, AcceptsNeighbor
    <3>. QED
      BY <1>6, <3>1, <3>2 DEF AddNeighbor, AddOrReplaceNeighbor
  <2>. QED
    BY <1>1, <1>3, <1>6, <2>2 DEF AddNeighbor, TableInv
<1>7. ASSUME NEW K, neighbors' = Keep(neighbors, K),
             UNCHANGED <<routes, stations, pinned>>
      PROVE  TableInv'
  <2>1. NeighborsGood'
    BY <1>7 DEF TableInv, NeighborsGood, Keep
  <2>. QED
    BY <1>1, <1>3, <1>7, <2>1 DEF TableInv
<1>8. ASSUME NEW key, NEW port, NEW now, LearnStation(key, port, now)
      PROVE  TableInv'
  <2>1. /\ stations' = Updated(stations, key, port, "dynamic", now)
        /\ UNCHANGED <<routes, neighbors, pinned>>
    BY <1>8 DEF LearnStation
  <2>2. StationsGood'
    BY <2>1, UpdateKeepsCapacity DEF TableInv
  <2>3. ASSUME NEW k \in DOMAIN pinned
        PROVE  k \in DOMAIN stations' /\ stations'[k] = stations[k]
    <3>1. k \in DOMAIN stations /\ stations[k].type = "static"
      BY DEF TableInv, PinnedStay
    <3>2. CASE k = key
      <4>1. UpdateResult(stations, key, port, "dynamic")
               \in {"static_conflict", "kept"}
        BY <3>1, <3>2 DEF UpdateResult
      <4>. QED
        BY <2>1, <3>1, <4>1 DEF Updated
    <3>3. CASE k # key
      BY <2>1, <3>1, <3>3 DEF Updated, Put
    <3>. QED
      BY <3>2, <3>3
  <2>4. PinnedStay'
    BY <2>1, <2>3 DEF TableInv, PinnedStay
  <2>. QED
    BY <1>1, <1>2, <2>1, <2>2, <2>4 DEF TableInv
<1>9. ASSUME NEW key, NEW port, AddStatic(key, port) PROVE TableInv'
  <2>1. /\ stations' = Updated(stations, key, port, "static", 0)
        /\ UNCHANGED <<routes, neighbors>>
    BY <1>9 DEF AddStatic
  <2>2. StationsGood'
    BY <2>1, UpdateKeepsCapacity DEF TableInv
  <2>3. PinnedStay'
    <3>1. CASE UpdateResult(stations, key, port, "static") = "table_full"
      <4>1. UNCHANGED <<stations, pinned>>
        BY <1>9, <3>1 DEF AddStatic, Updated
      <4>. QED
        BY <1>3, <4>1
    <3>2. CASE UpdateResult(stations, key, port, "static") # "table_full"
      <4>1. UpdateResult(stations, key, port, "static")
               \notin {"table_full", "static_conflict", "kept"}
        BY <3>2 DEF UpdateResult
      <4>2. /\ stations' = Put(stations, key, [port |-> port, type |-> "static",
                                               learnedAt |-> 0])
            /\ pinned' = Put(pinned, key, port)
        BY <1>9, <3>2, <4>1 DEF AddStatic, Updated
      <4>. QED
        BY <4>2 DEF TableInv, PinnedStay, Put
    <3>. QED
      BY <3>1, <3>2
  <2>. QED
    BY <1>1, <1>2, <2>1, <2>2, <2>3 DEF TableInv
<1>10. ASSUME NEW key, RemoveStation(key) PROVE TableInv'
  <2>1. StationsGood'
    BY <1>10, KeepKeepsCapacity DEF RemoveStation, TableInv
  <2>2. PinnedStay'
    BY <1>10 DEF RemoveStation, Keep, TableInv, PinnedStay
  <2>. QED
    BY <1>1, <1>2, <1>10, <2>1, <2>2 DEF RemoveStation, TableInv
<1>11. ASSUME NEW now, ExpireStations(now) PROVE TableInv'
  <2>1. /\ stations' = FreshStations(stations, now)
        /\ UNCHANGED <<routes, neighbors, pinned>>
    BY <1>11 DEF ExpireStations
  <2>2. StationsGood'
    BY <2>1, KeepKeepsCapacity DEF FreshStations, TableInv
  <2>3. PinnedStay'
    BY <2>1 DEF FreshStations, Keep, Ages, TableInv, PinnedStay
  <2>. QED
    BY <1>1, <1>2, <2>1, <2>2, <2>3 DEF TableInv
<1>12. ASSUME UNCHANGED tableVars PROVE TableInv'
  BY <1>1, <1>2, <1>3, <1>12 DEF tableVars, TableInv
<1>13. ASSUME ControlStep PROVE TableInv'
  <2>1. ASSUME NEW o \in NeighborOffers, RemoveNeighbor(o[1]) PROVE TableInv'
    BY <1>7, <2>1 DEF RemoveNeighbor
  <2>2. ASSUME NEW now \in Times, ExpireNeighbors(now) PROVE TableInv'
    BY <1>7, <2>2 DEF ExpireNeighbors, FreshNeighbors
  <2>3. ASSUME NEW m \in ArpMessages, NEW now \in Times, ArpArrives(Arp(m), now)
        PROVE  TableInv'
    BY <1>6, <2>3 DEF ArpArrives
  <2>. QED
    BY <1>4, <1>5, <1>6, <1>8, <1>9, <1>10, <1>11, <1>13, <2>1, <2>2, <2>3
    DEF ControlStep
<1>14. ASSUME PacketStep PROVE TableInv'
  BY <1>12, <1>14 DEF PacketStep, SendPacket, Arrive
<1>15. CASE UNCHANGED vars
  BY <1>12, <1>15 DEF vars
<1>. QED
  BY <1>13, <1>14, <1>15 DEF Next

\* Empty tables are good.
LEMMA TableInvInit == Init => TableInv
<1>. SUFFICES ASSUME Init PROVE TableInv
  OBVIOUS
<1>1. RoutesGood(routes)
  BY DEF Init, RoutesGood
<1>2. DOMAIN neighbors = {} /\ DOMAIN stations = {} /\ DOMAIN pinned = {}
  BY DEF Init, Empty
<1>3. StationsGood
  BY <1>2, FS_EmptySet, TablesAssumption DEF StationsGood
<1>. QED
  BY <1>1, <1>2, <1>3 DEF TableInv, NeighborsGood, PinnedStay

\* The tables stay sound in any order of calls, messages and aging passes, and
\* a static entry of the MAC table stays where it was pinned.
THEOREM TablesSafe == Spec => [](TablesSound /\ PinnedStay)
<1>1. TableInv => TablesSound
  <2>. SUFFICES ASSUME TableInv PROVE TablesSound
    OBVIOUS
  <2>1. routes \in Seq(RouteEntry)
    BY DEF TableInv, RoutesGood
  <2>2. ASSUME NEW i \in DOMAIN routes
        PROVE  LET p == routes[i].prefix
                   covered == {a \in Addresses : PrefixContains(p, a)}
               IN  /\ p.network \in covered
                   /\ Cardinality(covered) = AddressPower[AddressBits - p.length]
                   /\ routes[i].hop # NoIp => IsHostAddress(routes[i].hop)
    <3>1. i \in 1..Len(routes) /\ routes[i] \in RouteEntry
      BY <2>1
    <3>2. PICK a \in Addresses, length \in 0..AddressBits :
             routes[i].prefix = Prefix(a, length)
      BY <3>1 DEF RouteEntry
    <3>3. Prefix(a, length).length = length
      BY DEF Prefix
    <3>4. ValidNextHop(routes[i].hop)
      BY <3>1 DEF TableInv, RoutesGood
    <3>. QED
      BY <3>2, <3>3, <3>4, PrefixCovers DEF ValidNextHop
  <2>3. Cardinality(DOMAIN stations) <= MacCapacity
    BY DEF TableInv, StationsGood
  <2>4. \A a \in DOMAIN neighbors :
           IsHostAddress(a) /\ IsHostMac(neighbors[a].mac)
    BY DEF TableInv, NeighborsGood
  <2>. QED
    BY <2>2, <2>3, <2>4 DEF TablesSound
<1>2. TableInv => PinnedStay
  BY DEF TableInv
<1>. QED
  BY <1>1, <1>2, TableInvInit, TableInvStep, PTL DEF Spec

\* A lookup finds the longest prefix that contains the address: the loop finds
\* a longest one, and since no two routes have the same prefix there is no
\* other of its length.
THEOREM LookupCorrect == Spec => []LookupIsBest
<1>1. TableInv => LookupIsBest
  <2>. SUFFICES ASSUME TableInv, NEW a \in Addresses
       PROVE LET matching == {i \in DOMAIN routes :
                                PrefixContains(routes[i].prefix, a)}
             IN  IF matching = {} THEN BestMatch(routes, a) = 0
                 ELSE /\ BestMatch(routes, a) \in matching
                      /\ \A i \in matching \ {BestMatch(routes, a)} :
                            routes[i].prefix.length
                                < routes[BestMatch(routes, a)].prefix.length
    BY DEF LookupIsBest
  <2>. DEFINE v == BestMatch(routes, a)
              Has(i) == PrefixContains(routes[i].prefix, a)
              len(i) == routes[i].prefix.length
  <2>1. RoutesGood(routes) /\ DOMAIN routes = 1..Len(routes)
    BY DEF TableInv, RoutesGood
  <2>2. /\ v \in 0..Len(routes)
        /\ v = 0 => \A i \in 1..Len(routes) : ~Has(i)
        /\ v # 0 => Has(v) /\ \A i \in 1..Len(routes) : Has(i) => len(i) <= len(v)
    BY <2>1, LoopFindsBest DEF BestOf
  <2>3. ASSUME NEW i \in 1..Len(routes), NEW j \in 1..Len(routes),
               Has(i), Has(j), len(i) = len(j)
        PROVE  i = j
    <3>1. routes[i] \in RouteEntry /\ routes[j] \in RouteEntry
      BY <2>1 DEF RoutesGood
    <3>2. routes[i].prefix.network = routes[j].prefix.network
      BY <2>3 DEF PrefixContains
    <3>3. routes[i].prefix = routes[j].prefix
      BY <2>3, <3>1, <3>2 DEF RouteEntry, Prefix
    <3>. QED
      BY <2>1, <3>3 DEF RoutesGood
  <2>4. \A i \in 1..Len(routes) : len(i) \in Nat
    <3>1. \A e \in RouteEntry : e.prefix.length \in Nat
      BY TablesAssumption DEF RouteEntry, Prefix
    <3>. QED
      BY <2>1, <3>1 DEF RoutesGood
  <2>. HIDE DEF v, Has, len
  <2>5. ASSUME v # 0, NEW i \in 1..Len(routes), Has(i), i # v
        PROVE  len(i) < len(v)
    <3>1. v \in 1..Len(routes)
      BY <2>1, <2>2, <2>5
    <3>. QED
      BY <2>2, <2>3, <2>4, <2>5, <3>1
  <2>6. v # 0 => v \in 1..Len(routes)
    BY <2>2
  <2>. QED
    BY <2>1, <2>2, <2>5, <2>6 DEF v, Has, len
<1>. QED
  BY <1>1, TableInvInit, TableInvStep, PTL DEF Spec

\* An aging pass of the ARP cache changes no lookup at its own time or later.
THEOREM ExpiryUnseen == Spec => ExpiryIsInvisible
<1>1. TableInv /\ [Next]_vars
      => [\A now \in Times : ExpireNeighbors(now) =>
            \A later \in Times, a \in DOMAIN neighbors :
                later >= now =>
                   Resolve(neighbors', a, later) = Resolve(neighbors, a, later)]_vars
  <2>. SUFFICES ASSUME TableInv, NEW now \in Times, ExpireNeighbors(now),
                       NEW later \in Times, NEW a \in DOMAIN neighbors,
                       later >= now
                PROVE  Resolve(neighbors', a, later)
                          = Resolve(neighbors, a, later)
    OBVIOUS
  <2>1. /\ now \in Nat /\ later \in Nat /\ ArpLifetime \in Nat
        /\ neighbors[a].learnedAt \in Nat
    BY RouterAssumption, TablesAssumption DEF TableInv, NeighborsGood
  <2>2. neighbors' = FreshNeighbors(neighbors, now)
    BY DEF ExpireNeighbors
  <2>3. CASE IsExpired(neighbors[a], now, ArpLifetime)
    <3>1. IsExpired(neighbors[a], later, ArpLifetime)
      BY <2>1, <2>3 DEF IsExpired
    <3>2. a \notin DOMAIN neighbors'
      BY <2>2, <2>3 DEF FreshNeighbors, Keep
    <3>. QED
      BY <3>1, <3>2 DEF Resolve
  <2>4. CASE ~IsExpired(neighbors[a], now, ArpLifetime)
    <3>1. a \in DOMAIN neighbors' /\ neighbors'[a] = neighbors[a]
      BY <2>2, <2>4 DEF FreshNeighbors, Keep
    <3>. QED
      BY <3>1 DEF Resolve
  <2>. QED
    BY <2>3, <2>4
<1>. QED
  BY <1>1, TableInvInit, TableInvStep, PTL DEF Spec, ExpiryIsInvisible

-----------------------------------------------------------------------------
(* One's-complement addition *)

Word == 0..WordLimit - 1

\* The sizes the word arithmetic needs.
LEMMA WordFacts ==
  /\ WordBits \in Nat /\ WordLimit \in Nat /\ WordLimit >= 16
  /\ DontFragmentFlag \in Word /\ DontFragmentFlag # 0
<1>. DEFINE p == WordPower
<1>1. WordBits \in Nat /\ WordBits >= 4
  BY HeaderAssumption
<1>2. /\ p \in [0..WordBits -> Nat] /\ p[0] = 1
      /\ \A n \in 1..WordBits : p[n] = 2 * p[n - 1]
  BY <1>1, Powers DEF WordPower
<1>3. \A n \in 0..WordBits : /\ p[n] \in Nat \ {0}
                             /\ p[n] * p[WordBits - n] = p[WordBits]
  BY <1>1, PowersPositive, PowersMultiply DEF WordPower
<1>. HIDE DEF p
<1>4. p[1] = 2 /\ p[2] = 4 /\ p[3] = 8 /\ p[4] = 16
  <2>1. p[1] = 2 * p[1 - 1] /\ p[2] = 2 * p[2 - 1]
        /\ p[3] = 2 * p[3 - 1] /\ p[4] = 2 * p[4 - 1]
    BY <1>1, <1>2
  <2>. QED
    BY <1>2, <2>1
<1>5. p[WordBits] = 4 * p[WordBits - 2] /\ p[WordBits] = 16 * p[WordBits - 4]
  BY <1>1, <1>3, <1>4
<1>6. p[WordBits - 2] \in Nat \ {0} /\ p[WordBits - 4] \in Nat \ {0}
  BY <1>1, <1>3
<1>. QED
  BY <1>1, <1>5, <1>6 DEF WordLimit, DontFragmentFlag, Word, p

\* The sum of two words, with the carry added at the other end
LEMMA FoldCarryIs ==
  ASSUME NEW v \in Nat, v < 2 * WordLimit
  PROVE  FoldCarry(v) = IF v < WordLimit THEN v ELSE v - WordLimit + 1
<1>. DEFINE m == WordLimit
<1>1. m \in Nat \ {0}
  BY WordFacts
<1>. HIDE DEF m
<1>2. v % m \in 0..m - 1 /\ v \div m \in Nat /\ v = m * (v \div m) + (v % m)
  BY <1>1, DivMod
<1>3. ASSUME NEW q \in Int, NEW r \in 0..m - 1, v = m * q + r
      PROVE  v % m = r /\ v \div m = q
  <2>1. v \div m \in Int /\ m * (v \div m) + (v % m) = m * q + r
    BY <1>2, <1>3
  <2>. QED
    BY <1>1, <1>2, <2>1, DivModUnique, Zenon
<1>4. CASE v < m
  <2>1. v \in 0..m - 1 /\ 0 \in Int /\ v = m * 0 + v
    BY <1>1, <1>4
  <2>2. v % m = v /\ v \div m = 0
    BY <1>3, <2>1
  <2>. QED
    BY <1>4, <2>2 DEF FoldCarry, m
<1>5. CASE ~(v < m)
  <2>1. v - m \in 0..m - 1 /\ 1 \in Int /\ v = m * 1 + (v - m)
    BY <1>1, <1>5 DEF m
  <2>2. v % m = v - m /\ v \div m = 1
    BY <1>3, <2>1
  <2>. QED
    BY <1>1, <1>5, <2>2 DEF FoldCarry, m
<1>. QED
  BY <1>4, <1>5

Plus(x, y) == FoldCarry(x + y)

\* Adding with end-around carry: the carry is added back once.
LEMMA PlusIs ==
  ASSUME NEW x \in Word, NEW y \in Word
  PROVE  /\ Plus(x, y) = IF x + y < WordLimit THEN x + y ELSE x + y - WordLimit + 1
         /\ Plus(x, y) \in Word
<1>1. x \in Nat /\ y \in Nat /\ x + y \in Nat /\ x + y < 2 * WordLimit
  BY WordFacts DEF Word
<1>2. Plus(x, y) = IF x + y < WordLimit THEN x + y ELSE x + y - WordLimit + 1
  <2>1. \A v \in Nat : v < 2 * WordLimit =>
           FoldCarry(v) = IF v < WordLimit THEN v ELSE v - WordLimit + 1
    BY FoldCarryIs
  <2>. QED
    BY <1>1, <2>1, WordFacts DEF Plus
<1>. QED
  BY <1>2, WordFacts DEF Word

\* The third summand may come second.
LEMMA PlusSwap ==
  ASSUME NEW x \in Word, NEW y \in Word, NEW z \in Word
  PROVE  Plus(Plus(x, y), z) = Plus(Plus(x, z), y)
<1>1. Plus(x, y) \in Word /\ Plus(x, z) \in Word
  BY PlusIs
<1>2. /\ Plus(x, y) = IF x + y < WordLimit THEN x + y ELSE x + y - WordLimit + 1
      /\ Plus(x, z) = IF x + z < WordLimit THEN x + z ELSE x + z - WordLimit + 1
  BY PlusIs
<1>. DEFINE a == Plus(x, y)
            b == Plus(x, z)
<1>3. /\ Plus(a, z) = IF a + z < WordLimit THEN a + z ELSE a + z - WordLimit + 1
      /\ Plus(b, y) = IF b + y < WordLimit THEN b + y ELSE b + y - WordLimit + 1
  BY <1>1, PlusIs
<1>. HIDE DEF a, b
<1>4. /\ a = IF x + y < WordLimit THEN x + y ELSE x + y - WordLimit + 1
      /\ b = IF x + z < WordLimit THEN x + z ELSE x + z - WordLimit + 1
  BY <1>2 DEF a, b
<1>5. Plus(a, z) = Plus(b, y)
  BY <1>3, <1>4, WordFacts DEF Word
<1>. QED
  BY <1>5 DEF a, b

\* Words that one's-complement sums cannot tell apart
Alike(x, y) == x = y \/ {x, y} = {0, WordLimit - 1}

\* End-around addition cancels, but for the two representations of zero.
LEMMA PlusCancels ==
  ASSUME NEW x \in Word, NEW y \in Word, NEW z \in Word,
         Alike(Plus(x, z), Plus(y, z))
  PROVE  Alike(x, y)
<1>. DEFINE a == Plus(x, z)
            b == Plus(y, z)
<1>1. /\ a = IF x + z < WordLimit THEN x + z ELSE x + z - WordLimit + 1
      /\ b = IF y + z < WordLimit THEN y + z ELSE y + z - WordLimit + 1
  BY PlusIs
<1>2. a = b \/ (a = 0 /\ b = WordLimit - 1) \/ (b = 0 /\ a = WordLimit - 1)
  BY DEF Alike
<1>. HIDE DEF a, b
<1>3. x = y \/ (x = 0 /\ y = WordLimit - 1) \/ (y = 0 /\ x = WordLimit - 1)
  BY <1>1, <1>2, WordFacts DEF Word
<1>. QED
  BY <1>3 DEF Alike


-----------------------------------------------------------------------------
(* The checksum *)

Header == {words \in Seq(Word) : Len(words) = HeaderWords}

\* s[i] is the sum of the first i words.
Sums(s, words) ==
    /\ s \in [0..HeaderWords -> Word]
    /\ s[0] = 0
    /\ \A i \in 1..HeaderWords : s[i] = Plus(s[i - 1], words[i])

\* A header is eight words.
LEMMA HeaderIs ==
  ASSUME NEW words \in Header
  PROVE  /\ words \in Seq(Word) /\ Len(words) = 8
         /\ \A i \in 1..8 : words[i] \in Word
<1>1. words \in Seq(Word) /\ Len(words) = 8
  BY DEF Header, HeaderWords
<1>2. \A i \in 1..Len(words) : words[i] \in Word
  BY <1>1, ElementOfSeq
<1>. QED
  BY <1>1, <1>2

\* r is s but for the k-th element, which is x.
DiffersAt(r, s, k, x) ==
    /\ Len(r) = Len(s)
    /\ \A i \in 1..Len(s) : r[i] = IF i = k THEN x ELSE s[i]

\* ReplaceAt changes one element and keeps the others.
LEMMA ReplaceFacts ==
  ASSUME NEW T, NEW s \in Seq(T), NEW k \in 1..Len(s), NEW x \in T
  PROVE  ReplaceAt(s, k, x) \in Seq(T) /\ DiffersAt(ReplaceAt(s, k, x), s, k, x)
BY DEF ReplaceAt, DiffersAt

\* A header with one word replaced is a header.
LEMMA HeaderWith ==
  ASSUME NEW words \in Header, NEW k \in 1..8, NEW x \in Word
  PROVE  /\ ReplaceAt(words, k, x) \in Header
         /\ DiffersAt(ReplaceAt(words, k, x), words, k, x)
<1>1. words \in Seq(Word) /\ Len(words) = 8
  BY HeaderIs
<1>2. k \in 1..Len(words)
  BY <1>1
<1>3. /\ ReplaceAt(words, k, x) \in Seq(Word)
      /\ DiffersAt(ReplaceAt(words, k, x), words, k, x)
  BY <1>1, <1>2, ReplaceFacts
<1>. QED
  BY <1>1, <1>3 DEF Header, HeaderWords, DiffersAt

\* The checksum loop computes the complement of the last partial sum.
LEMMA ChecksumIs ==
  ASSUME NEW words \in Header
  PROVE  \E s : Sums(s, words) /\ Checksum(words) = WordLimit - 1 - s[HeaderWords]
<1>. DEFINE n == HeaderWords
            Fills(g) == g = [i \in 0..n |-> IF i = 0 THEN 0
                                            ELSE FoldCarry(g[i - 1] + words[i])]
            sum == CHOOSE g : Fills(g)
            step == [i \in Nat |-> [x \in Word |->
                        IF i \in 1..n THEN Plus(x, words[i]) ELSE x]]
<1>0. n \in Nat /\ Len(words) = n /\ \A i \in 1..n : words[i] \in Word
  BY HeaderIs DEF HeaderWords
<1>1. Checksum(words) = WordLimit - 1 - FoldCarry(sum[n])
  BY <1>0 DEF Checksum
<1>. HIDE DEF n
<1>2. PICK g : Recurs(g, n, Word, 0, step)
  <2>1. step \in [Nat -> [Word -> Word]]
    BY <1>0, PlusIs
  <2>2. 0 \in Word
    BY WordFacts DEF Word
  <2>. HIDE DEF step
  <2>. QED
    BY <1>0, <2>1, <2>2, FiniteRecursion
<1>3. ASSUME NEW i \in 1..n PROVE g[i] = Plus(g[i - 1], words[i])
  <2>1. i \in Nat /\ i - 1 \in 0..n /\ g[i - 1] \in Word
    BY <1>0, <1>2 DEF Recurs
  <2>2. g[i] = step[i][g[i - 1]]
    BY <1>2 DEF Recurs
  <2>. QED
    BY <2>1, <2>2
<1>. HIDE DEF step
<1>4. Fills(g)
  <2>1. DOMAIN g = 0..n /\ g = [i \in DOMAIN g |-> g[i]] /\ g[0] = 0
    BY <1>2 DEF Recurs
  <2>2. \A i \in 0..n : g[i] = IF i = 0 THEN 0
                               ELSE FoldCarry(g[i - 1] + words[i])
    BY <1>0, <1>3, <2>1 DEF Plus
  <2>. QED
    BY <2>1, <2>2
<1>5. Fills(sum)
  <2>. HIDE DEF Fills
  <2>. QED
    BY <1>4
<1>6. /\ DOMAIN sum = 0..n /\ sum = [i \in DOMAIN sum |-> sum[i]]
      /\ sum[0] = 0 /\ \A i \in 1..n : sum[i] = Plus(sum[i - 1], words[i])
  <2>. HIDE DEF sum
  <2>. QED
    BY <1>0, <1>5 DEF Plus
<1>. HIDE DEF sum, Fills
<1>. DEFINE J == {k \in Nat : k <= n => sum[k] \in Word}
<1>7. 0 \in J
  BY <1>6, WordFacts DEF Word
<1>8. ASSUME NEW k \in Nat, k \in J PROVE k + 1 \in J
  <2>. SUFFICES ASSUME k + 1 <= n PROVE sum[k + 1] \in Word
    OBVIOUS
  <2>1. k + 1 \in 1..n /\ (k + 1) - 1 = k
    BY <1>0
  <2>2. sum[k] \in Word
    BY <1>0, <1>8
  <2>3. sum[k + 1] = Plus(sum[k], words[k + 1])
    BY <1>6, <2>1
  <2>. QED
    BY <1>0, <2>1, <2>2, <2>3, PlusIs
<1>9. \A k \in 0..n : sum[k] \in Word
  <2>1. \A k \in Nat : k \in J
    <3>. HIDE DEF J
    <3>. QED
      BY <1>7, <1>8, Induction
  <2>. QED
    BY <1>0, <2>1
<1>10. Sums(sum, words)
  BY <1>6, <1>9 DEF Sums, n
<1>11. FoldCarry(sum[n]) = sum[n]
  <2>1. sum[n] \in Word
    BY <1>0, <1>9
  <2>2. sum[n] \in Nat /\ sum[n] < WordLimit /\ sum[n] < 2 * WordLimit
    BY <2>1, WordFacts DEF Word
  <2>. QED
    BY <2>2, FoldCarryIs
<1>. QED
  BY <1>1, <1>10, <1>11 DEF n

\* The sums of a header, one by one
LEMMA EightSums ==
  ASSUME NEW words \in Header, NEW s, Sums(s, words)
  PROVE  /\ s[0] = 0 /\ s[1] = Plus(s[0], words[1]) /\ s[2] = Plus(s[1], words[2])
         /\ s[3] = Plus(s[2], words[3]) /\ s[4] = Plus(s[3], words[4])
         /\ s[5] = Plus(s[4], words[5]) /\ s[6] = Plus(s[5], words[6])
         /\ s[7] = Plus(s[6], words[7]) /\ s[8] = Plus(s[7], words[8])
         /\ \A i \in 0..8 : s[i] \in Word
         /\ \A i \in 1..8 : words[i] \in Word
<1>1. /\ s[0] = 0 /\ \A i \in 1..8 : s[i] = Plus(s[i - 1], words[i])
      /\ \A i \in 0..8 : s[i] \in Word
      /\ \A i \in 1..8 : words[i] \in Word
  BY HeaderIs DEF Sums, HeaderWords
<1>2. /\ s[1] = Plus(s[1 - 1], words[1]) /\ s[2] = Plus(s[2 - 1], words[2])
      /\ s[3] = Plus(s[3 - 1], words[3]) /\ s[4] = Plus(s[4 - 1], words[4])
      /\ s[5] = Plus(s[5 - 1], words[5]) /\ s[6] = Plus(s[6 - 1], words[6])
      /\ s[7] = Plus(s[7 - 1], words[7]) /\ s[8] = Plus(s[8 - 1], words[8])
  BY <1>1
<1>. QED
  BY <1>1, <1>2

\* The checksum of a header with its checksum filled in is zero.
LEMMA FilledChecksum ==
  ASSUME NEW words \in Header, words[ChecksumWord] = 0
  PROVE  LET filled == ReplaceAt(words, ChecksumWord, Checksum(words))
         IN  filled \in Header /\ Checksum(filled) = 0
<1>. DEFINE c == Checksum(words)
            filled == ReplaceAt(words, ChecksumWord, c)
<1>1. PICK s : Sums(s, words) /\ c = WordLimit - 1 - s[HeaderWords]
  BY ChecksumIs
<1>2. /\ s[0] = 0 /\ s[1] = Plus(s[0], words[1]) /\ s[2] = Plus(s[1], words[2])
      /\ s[3] = Plus(s[2], words[3]) /\ s[4] = Plus(s[3], words[4])
      /\ s[5] = Plus(s[4], words[5]) /\ s[6] = Plus(s[5], words[6])
      /\ s[7] = Plus(s[6], words[7]) /\ s[8] = Plus(s[7], words[8])
      /\ \A i \in 0..8 : s[i] \in Word
      /\ \A i \in 1..8 : words[i] \in Word
  BY <1>1, EightSums
<1>3. c \in Word /\ c = WordLimit - 1 - s[8]
  BY <1>1, <1>2, WordFacts DEF Word, HeaderWords
<1>. HIDE DEF c
<1>4. filled \in Header /\ \A i \in 1..8 : filled[i] = IF i = 6 THEN c ELSE words[i]
  <2>1. c \in Word /\ ChecksumWord \in 1..8 /\ ChecksumWord = 6
    BY <1>3 DEF ChecksumWord
  <2>2. filled \in Header /\ DiffersAt(filled, words, ChecksumWord, c)
    BY <2>1, HeaderWith
  <2>. QED
    BY <2>1, <2>2, HeaderIs DEF DiffersAt
<1>. HIDE DEF filled
<1>5. PICK t : Sums(t, filled) /\ Checksum(filled) = WordLimit - 1 - t[HeaderWords]
  BY <1>4, ChecksumIs
<1>6. /\ t[0] = 0 /\ t[1] = Plus(t[0], filled[1]) /\ t[2] = Plus(t[1], filled[2])
      /\ t[3] = Plus(t[2], filled[3]) /\ t[4] = Plus(t[3], filled[4])
      /\ t[5] = Plus(t[4], filled[5]) /\ t[6] = Plus(t[5], filled[6])
      /\ t[7] = Plus(t[6], filled[7]) /\ t[8] = Plus(t[7], filled[8])
  BY <1>4, <1>5, EightSums
<1>7. t[1] = s[1] /\ t[2] = s[2] /\ t[3] = s[3] /\ t[4] = s[4] /\ t[5] = s[5]
  BY <1>2, <1>4, <1>6
<1>8. s[6] = s[5]
  <2>1. s[5] \in Word /\ 0 \in Word
    BY <1>2, WordFacts DEF Word
  <2>2. Plus(s[5], 0) = s[5]
    BY <2>1, PlusIs, WordFacts DEF Word
  <2>. QED
    BY <1>2, <2>2 DEF ChecksumWord
<1>9. t[8] = Plus(Plus(Plus(s[6], c), words[7]), words[8])
  BY <1>4, <1>6, <1>7, <1>8
<1>10. ASSUME NEW x \in Word, NEW y \in Word, NEW z \in Word, NEW v,
              v = Plus(x, z)
       PROVE  Plus(Plus(x, y), z) = Plus(v, y)
  BY <1>10, PlusSwap
<1>11. /\ s[6] \in Word /\ s[7] \in Word /\ s[8] \in Word
       /\ words[7] \in Word /\ words[8] \in Word
       /\ s[7] = Plus(s[6], words[7]) /\ s[8] = Plus(s[7], words[8])
  BY <1>2
<1>12. t[8] = WordLimit - 1
  <2>0. c \in Word
    BY <1>3
  <2>1. Plus(Plus(s[6], c), words[7]) = Plus(s[7], c)
    BY <1>10, <1>11, <2>0
  <2>2. Plus(Plus(s[7], c), words[8]) = Plus(s[8], c)
    BY <1>10, <1>11, <2>0
  <2>3. Plus(s[8], c) = IF s[8] + c < WordLimit THEN s[8] + c
                        ELSE s[8] + c - WordLimit + 1
    BY <1>3, <1>11, PlusIs
  <2>4. s[8] + c = WordLimit - 1 /\ s[8] + c < WordLimit
    BY <1>3, <1>11, WordFacts DEF Word
  <2>. QED
    BY <1>9, <2>1, <2>2, <2>3, <2>4
<1>13. Checksum(filled) = 0
  BY <1>5, <1>12, WordFacts DEF HeaderWords
<1>. QED
  BY <1>4, <1>13 DEF filled, c

\* A header that differs from a valid one in a word, by neither all nor
\* nothing, is not valid.
LEMMA ChangeNoticed ==
  ASSUME NEW words \in Header, Checksum(words) = 0,
         NEW k \in 1..8, NEW x \in Word, ~Alike(words[k], x)
  PROVE  Checksum(ReplaceAt(words, k, x)) # 0
<1>. DEFINE other == ReplaceAt(words, k, x)
<1>. SUFFICES ASSUME Checksum(other) = 0 PROVE FALSE
  OBVIOUS
<1>1. /\ other \in Header
      /\ \A i \in 1..8 : other[i] = IF i = k THEN x ELSE words[i]
  <2>1. other \in Header /\ DiffersAt(other, words, k, x)
    BY HeaderWith
  <2>. QED
    BY <2>1, HeaderIs DEF DiffersAt
<1>. HIDE DEF other
<1>2. PICK s : Sums(s, words) /\ Checksum(words) = WordLimit - 1 - s[HeaderWords]
  BY ChecksumIs
<1>3. PICK t : Sums(t, other) /\ Checksum(other) = WordLimit - 1 - t[HeaderWords]
  BY <1>1, ChecksumIs
<1>4. /\ s[0] = t[0] /\ \A i \in 0..8 : s[i] \in Word /\ t[i] \in Word
      /\ \A i \in 1..8 : words[i] \in Word
      /\ \A i \in 1..8 : /\ s[i] = Plus(s[i - 1], words[i])
                         /\ t[i] = Plus(t[i - 1], other[i])
  BY <1>1, <1>2, <1>3, HeaderIs DEF Sums, HeaderWords
<1>5. s[8] = t[8]
  <2>1. s[8] \in Word /\ t[8] \in Word
    BY <1>4
  <2>. QED
    BY <1>2, <1>3, <2>1, WordFacts DEF HeaderWords, Word
<1>6. ASSUME NEW i \in 1..8, i < k, s[i - 1] = t[i - 1] PROVE s[i] = t[i]
  BY <1>1, <1>4, <1>6
<1>7. ASSUME NEW i \in 1..8, i > k, Alike(s[i], t[i])
      PROVE  Alike(s[i - 1], t[i - 1])
  <2>1. i - 1 \in 0..8 /\ i # k
    BY <1>7
  <2>2. s[i] = Plus(s[i - 1], words[i]) /\ t[i] = Plus(t[i - 1], words[i])
    BY <1>1, <1>4, <2>1
  <2>3. s[i - 1] \in Word /\ t[i - 1] \in Word /\ words[i] \in Word
    BY <1>4, <2>1
  <2>. QED
    BY <1>7, <2>2, <2>3, PlusCancels
<1>8. Alike(s[8], t[8])
  BY <1>5 DEF Alike
<1>9. s[k - 1] = t[k - 1]
  <2>1. /\ 1 < k => s[1] = t[1]
        /\ 2 < k /\ s[1] = t[1] => s[2] = t[2]
        /\ 3 < k /\ s[2] = t[2] => s[3] = t[3]
        /\ 4 < k /\ s[3] = t[3] => s[4] = t[4]
        /\ 5 < k /\ s[4] = t[4] => s[5] = t[5]
        /\ 6 < k /\ s[5] = t[5] => s[6] = t[6]
        /\ 7 < k /\ s[6] = t[6] => s[7] = t[7]
    <3>1. \A i \in 1..8 : i < k /\ s[i - 1] = t[i - 1] => s[i] = t[i]
      BY <1>6
    <3>2. /\ 1 < k /\ s[1 - 1] = t[1 - 1] => s[1] = t[1]
          /\ 2 < k /\ s[2 - 1] = t[2 - 1] => s[2] = t[2]
          /\ 3 < k /\ s[3 - 1] = t[3 - 1] => s[3] = t[3]
          /\ 4 < k /\ s[4 - 1] = t[4 - 1] => s[4] = t[4]
          /\ 5 < k /\ s[5 - 1] = t[5 - 1] => s[5] = t[5]
          /\ 6 < k /\ s[6 - 1] = t[6 - 1] => s[6] = t[6]
          /\ 7 < k /\ s[7 - 1] = t[7 - 1] => s[7] = t[7]
      BY <3>1
    <3>. QED
      BY <1>4, <3>2
  <2>. QED
    BY <1>4, <2>1
<1>10. Alike(s[k], t[k])
  <2>1. \A i \in 1..8 : i > k /\ Alike(s[i], t[i]) => Alike(s[i - 1], t[i - 1])
    BY <1>7
  <2>2. /\ 8 > k /\ Alike(s[8], t[8]) => Alike(s[8 - 1], t[8 - 1])
        /\ 7 > k /\ Alike(s[7], t[7]) => Alike(s[7 - 1], t[7 - 1])
        /\ 6 > k /\ Alike(s[6], t[6]) => Alike(s[6 - 1], t[6 - 1])
        /\ 5 > k /\ Alike(s[5], t[5]) => Alike(s[5 - 1], t[5 - 1])
        /\ 4 > k /\ Alike(s[4], t[4]) => Alike(s[4 - 1], t[4 - 1])
        /\ 3 > k /\ Alike(s[3], t[3]) => Alike(s[3 - 1], t[3 - 1])
        /\ 2 > k /\ Alike(s[2], t[2]) => Alike(s[2 - 1], t[2 - 1])
    BY <2>1
  <2>. QED
    BY <1>8, <2>2
<1>11. Alike(Plus(words[k], s[k - 1]), Plus(x, s[k - 1]))
  <2>1. k - 1 \in 0..8
    OBVIOUS
  <2>2. s[k] = Plus(s[k - 1], words[k]) /\ t[k] = Plus(s[k - 1], x)
    BY <1>1, <1>4, <1>9
  <2>3. s[k - 1] + words[k] = words[k] + s[k - 1] /\ s[k - 1] + x = x + s[k - 1]
    BY <1>4, <2>1, WordFacts DEF Word
  <2>. QED
    BY <1>10, <2>2, <2>3 DEF Plus
<1>12. s[k - 1] \in Word /\ words[k] \in Word
  BY <1>4
<1>. QED
  BY <1>11, <1>12, PlusCancels

-----------------------------------------------------------------------------
(* The header on the wire *)

PacketRecord ==
    [source: Word, destination: Word, identification: Word, ttl: Word,
     dontFragment: BOOLEAN, size: Nat]

\* What Ipv4Packet::create lets through
Sendable(p) == p \in PacketRecord /\ ValidPacket(p)

\* parse undoes serialize.
LEMMA RoundTrip ==
  ASSUME NEW p, Sendable(p)
  PROVE  /\ Serialize(p) \in Header
         /\ Checksum(Serialize(p)) = 0
         /\ Parse(Serialize(p), p.size) = p
<1>. DEFINE flag == IF p.dontFragment THEN DontFragmentFlag ELSE 0
            words == <<Version, HeaderWords + p.size, p.identification, flag,
                       p.ttl, 0, p.source, p.destination>>
            c == Checksum(words)
            w == ReplaceAt(words, ChecksumWord, c)
<1>1. /\ p.identification \in Word /\ p.ttl \in Word /\ p.source \in Word
      /\ p.destination \in Word /\ p.size \in Nat /\ p.ttl # 0
      /\ p.dontFragment \in BOOLEAN /\ p.size <= WordLimit - 1 - 8
  BY DEF Sendable, ValidPacket, PacketRecord, MaximumPayloadSize, HeaderWords
<1>2. /\ Version \in Word /\ HeaderWords + p.size \in Word /\ 0 \in Word
      /\ flag \in Word
  BY <1>1, WordFacts DEF Version, HeaderWords, Word
<1>. HIDE DEF flag
<1>3. words \in Header /\ words[ChecksumWord] = 0
  <2>1. words \in Seq(Word) /\ Len(words) = 8
    BY <1>1, <1>2
  <2>. QED
    BY <2>1 DEF Header, HeaderWords, ChecksumWord
<1>4. Serialize(p) = w
  BY DEF Serialize, ReplaceAt, flag
<1>5. /\ words[1] = Version /\ words[2] = HeaderWords + p.size
      /\ words[3] = p.identification /\ words[4] = flag /\ words[5] = p.ttl
      /\ words[7] = p.source /\ words[8] = p.destination
  OBVIOUS
<1>. HIDE DEF words
<1>6. w \in Header /\ Checksum(w) = 0
  BY <1>3, FilledChecksum
<1>7. /\ w[1] = Version /\ w[2] = HeaderWords + p.size
      /\ w[3] = p.identification /\ w[4] = flag /\ w[5] = p.ttl
      /\ w[7] = p.source /\ w[8] = p.destination
  <2>1. c \in Word
    <3>1. PICK s : Sums(s, words) /\ c = WordLimit - 1 - s[HeaderWords]
      BY <1>3, ChecksumIs
    <3>2. s[8] \in Word
      BY <1>3, <3>1, EightSums
    <3>. QED
      BY <3>1, <3>2, WordFacts DEF Word, HeaderWords
  <2>2. ChecksumWord \in 1..8 /\ ChecksumWord = 6
    BY DEF ChecksumWord
  <2>. HIDE DEF c
  <2>3. DiffersAt(w, words, ChecksumWord, c)
    BY <1>3, <2>1, <2>2, HeaderWith
  <2>4. \A i \in 1..8 : w[i] = IF i = 6 THEN c ELSE words[i]
    BY <1>3, <2>2, <2>3, HeaderIs DEF DiffersAt
  <2>. HIDE DEF w
  <2>. QED
    BY <1>5, <2>4
<1>. HIDE DEF w
<1>8. w # <<>>
  BY <1>6, HeaderIs
<1>9. /\ w[4] \in {0, DontFragmentFlag}
      /\ p.dontFragment = (w[4] = DontFragmentFlag)
  <2>1. CASE p.dontFragment = TRUE
    BY <1>7, <2>1 DEF flag
  <2>2. CASE p.dontFragment = FALSE
    BY <1>7, <2>2, WordFacts DEF flag
  <2>. QED
    BY <1>1, <2>1, <2>2
<1>10. Parse(w, p.size)
          = [source |-> p.source, destination |-> p.destination,
             identification |-> p.identification, ttl |-> p.ttl,
             dontFragment |-> w[4] = DontFragmentFlag, size |-> p.size]
  BY <1>1, <1>6, <1>7, <1>8, <1>9 DEF Parse, HasValidChecksum, TtlWord
<1>11. p = [source |-> p.source, destination |-> p.destination,
            identification |-> p.identification, ttl |-> p.ttl,
            dontFragment |-> p.dontFragment, size |-> p.size]
  BY DEF Sendable, PacketRecord
<1>12. Parse(w, p.size) = p
  BY <1>9, <1>10, <1>11, Zenon
<1>. QED
  BY <1>4, <1>6, <1>12

\* Inverting a bit leaves a word, one that the sum tells from the old one.
LEMMA FlipWord ==
  ASSUME NEW x \in Word, NEW b \in 0..WordBits - 1
  PROVE  LET bit == WordPower[b]
             y == IF (x \div bit) % 2 = 1 THEN x - bit ELSE x + bit
         IN  y \in Word /\ ~Alike(x, y)
<1>. DEFINE bit == WordPower[b]
            e == WordPower[WordBits - b - 1]
            q == x \div bit
            y == IF q % 2 = 1 THEN x - bit ELSE x + bit
<1>1. WordBits \in Nat /\ WordLimit \in Nat /\ WordLimit >= 16 /\ x \in Nat
      /\ x < WordLimit
  BY WordFacts DEF Word
<1>2. bit \in Nat \ {0} /\ e \in Nat \ {0}
  <2>1. b \in 0..WordBits /\ WordBits - b - 1 \in 0..WordBits
    BY <1>1
  <2>. QED
    BY <1>1, <2>1, PowersPositive DEF WordPower
<1>3. WordLimit = bit * (2 * e)
  <2>1. b \in 0..WordBits /\ WordBits - b \in 1..WordBits
        /\ (WordBits - b) - 1 = WordBits - b - 1
    BY <1>1
  <2>2. WordPower[WordBits - b] = 2 * e
    BY <1>1, <2>1, Powers DEF WordPower
  <2>3. WordPower[b] * WordPower[WordBits - b] = WordPower[WordBits]
    BY <1>1, <2>1, PowersMultiply DEF WordPower
  <2>. QED
    BY <2>2, <2>3 DEF WordLimit
<1>4. q \in Nat /\ x % bit \in 0..bit - 1 /\ x = bit * q + (x % bit)
  BY <1>1, <1>2, DivMod
<1>. HIDE DEF bit, e, q
<1>5. ASSUME q % 2 = 1 PROVE y \in Word
  <2>1. q >= 1
    BY <1>4, <1>5
  <2>2. bit * q >= bit
    BY <1>2, <1>4, <2>1
  <2>3. bit * q \in Nat
    BY <1>2, <1>4
  <2>4. y = x - bit /\ y \in Nat /\ y < WordLimit
    BY <1>1, <1>2, <1>4, <1>5, <2>2, <2>3
  <2>. QED
    BY <1>1, <1>2, <2>4 DEF Word
<1>6. ASSUME q % 2 # 1 PROVE y \in Word
  <2>1. PICK h \in Nat : q = 2 * h
    <3>1. /\ q % 2 \in 0..2 - 1 /\ q \div 2 \in Nat
          /\ q = 2 * (q \div 2) + (q % 2)
      BY <1>4, DivMod
    <3>. QED
      BY <1>6, <3>1
  <2>2. h < e
    <3>. SUFFICES ASSUME h >= e PROVE FALSE
      BY <1>2
    <3>1. bit * (2 * h) >= bit * (2 * e)
      <4>1. bit * (2 * (h - e)) >= 0
        BY <1>2
      <4>2. bit * (2 * (h - e)) = bit * (2 * h) - bit * (2 * e)
        BY <1>2
      <4>3. bit * (2 * h) \in Nat /\ bit * (2 * e) \in Nat
        BY <1>2
      <4>. QED
        BY <4>1, <4>2, <4>3
    <3>2. bit * (2 * h) \in Nat /\ bit * (2 * e) \in Nat
      BY <1>2
    <3>. QED
      BY <1>1, <1>3, <1>4, <2>1, <3>1, <3>2
  <2>3. bit * (2 * h) + 2 * bit <= bit * (2 * e)
    <3>1. bit * (2 * (e - h - 1)) >= 0
      <4>1. e - h - 1 \in Nat
        BY <1>2, <2>2
      <4>. QED
        BY <1>2, <4>1
    <3>2. bit * (2 * (e - h - 1)) = bit * (2 * e) - bit * (2 * h) - 2 * bit
      BY <1>2
    <3>3. bit * (2 * h) \in Nat /\ bit * (2 * e) \in Nat
      BY <1>2
    <3>. QED
      BY <1>2, <3>1, <3>2, <3>3
  <2>4. bit * (2 * h) \in Nat
    BY <1>2
  <2>5. x + bit < WordLimit
    BY <1>2, <1>3, <1>4, <2>1, <2>3, <2>4
  <2>6. y = x + bit /\ y \in Nat
    BY <1>1, <1>2, <1>6
  <2>. QED
    BY <1>1, <1>2, <2>5, <2>6 DEF Word
<1>7. y \in Word
  BY <1>5, <1>6
<1>8. bit < WordLimit - 1
  <2>1. bit * (2 * e) >= 2 * bit
    <3>1. bit * (2 * (e - 1)) >= 0
      BY <1>2
    <3>2. bit * (2 * (e - 1)) = bit * (2 * e) - 2 * bit
      BY <1>2
    <3>3. bit * (2 * e) \in Nat
      BY <1>2
    <3>. QED
      BY <1>2, <3>1, <3>2, <3>3
  <2>. QED
    BY <1>1, <1>2, <1>3, <2>1
<1>9. ~Alike(x, y)
  <2>1. y = x - bit \/ y = x + bit
    OBVIOUS
  <2>2. y \in Nat /\ y < WordLimit
    BY <1>1, <1>7 DEF Word
  <2>. HIDE DEF y
  <2>3. x # y /\ ~(x = 0 /\ y = WordLimit - 1) /\ ~(y = 0 /\ x = WordLimit - 1)
    BY <1>1, <1>2, <1>8, <2>1, <2>2
  <2>. QED
    BY <2>3 DEF Alike
<1>. QED
  BY <1>7, <1>9 DEF bit, q

\* The packet on the wire: the one that was sent, hops routers later.
Current == [origin EXCEPT !.ttl = @ - hops]

WireInv ==
    /\ hops \in Nat
    /\ wire # <<>> => /\ Sendable(origin) /\ hops < origin.ttl
                      /\ wire = Serialize(Current)
    /\ arrival.intact => arrival.outcome # "malformed"
    /\ ~arrival.intact => arrival.outcome = "malformed"

\* A packet whose time to live is not used up can be sent on.
LEMMA CurrentSendable ==
  ASSUME NEW p, Sendable(p), NEW h \in Nat, h < p.ttl
  PROVE  LET q == [p EXCEPT !.ttl = @ - h]
         IN  Sendable(q) /\ q.ttl = p.ttl - h /\ q.size = p.size
<1>. DEFINE q == [p EXCEPT !.ttl = @ - h]
<1>1. p.ttl \in Nat /\ p.ttl < WordLimit
  BY WordFacts DEF Sendable, PacketRecord, Word
<1>2. p.ttl - h \in Word /\ p.ttl - h # 0
  BY <1>1, WordFacts DEF Word
<1>3. q \in PacketRecord /\ q.ttl = p.ttl - h /\ q.size = p.size
  BY <1>2 DEF Sendable, PacketRecord
<1>. HIDE DEF q
<1>4. Sendable(q)
  BY <1>2, <1>3 DEF Sendable, ValidPacket
<1>. QED
  BY <1>3, <1>4 DEF q

\* A header with an inverted bit does not parse.
LEMMA FlippedIsMalformed ==
  ASSUME NEW words \in Header, Checksum(words) = 0, NEW f \in Flips, NEW size
  PROVE  Parse(Flip(words, f), size) = NoPacket
<1>. DEFINE k == f[1]
            bit == WordPower[f[2]]
            y == IF (words[k] \div bit) % 2 = 1 THEN words[k] - bit
                 ELSE words[k] + bit
<1>1. k \in 1..8 /\ f[2] \in 0..WordBits - 1
  BY RouterAssumption DEF HeaderWords
<1>2. words[k] \in Word
  BY <1>1, HeaderIs
<1>3. y \in Word /\ ~Alike(words[k], y)
  BY <1>1, <1>2, FlipWord
<1>4. Flip(words, f) = ReplaceAt(words, k, y)
  BY DEF Flip, ReplaceAt
<1>. HIDE DEF y
<1>5. Checksum(Flip(words, f)) # 0
  BY <1>1, <1>3, <1>4, ChangeNoticed
<1>. QED
  BY <1>5 DEF Parse, HasValidChecksum

\* Every step keeps the packet on the wire the one that was sent.
LEMMA WireInvStep == WireInv /\ [Next]_vars => WireInv'
<1>. SUFFICES ASSUME WireInv, [Next]_vars PROVE WireInv'
  OBVIOUS
<1>1. ASSUME UNCHANGED packetVars PROVE WireInv'
  BY <1>1 DEF packetVars, WireInv, Current
<1>2. ASSUME NEW p \in Packets, SendPacket(Packet(p)) PROVE WireInv'
  <2>. DEFINE q == Packet(p)
  <2>1. Sendable(q) /\ q.ttl \in Nat /\ q.ttl # 0
    <3>1. /\ p[1] \in Word /\ p[2] \in Word /\ p[3] \in Word /\ p[4] \in Word
          /\ p[5] \in BOOLEAN /\ p[6] \in Nat
      BY RouterAssumption DEF Word
    <3>2. q \in PacketRecord
      BY <3>1 DEF Packet, PacketRecord
    <3>3. ValidPacket(q)
      BY <1>2 DEF SendPacket
    <3>. HIDE DEF q
    <3>. QED
      BY <3>2, <3>3, WordFacts DEF Sendable, ValidPacket, PacketRecord, Word
  <2>2. /\ wire' = Serialize(q) /\ origin' = q /\ hops' = 0
        /\ arrival' = [intact |-> TRUE, outcome |-> "none"]
    BY <1>2 DEF SendPacket
  <2>. HIDE DEF q
  <2>3. Current' = q
    <3>1. Current' = [q EXCEPT !.ttl = q.ttl - 0]
      BY <2>2 DEF Current
    <3>2. q.ttl - 0 = q.ttl
      BY <2>1
    <3>. QED
      BY <2>1, <3>1, <3>2 DEF Sendable, PacketRecord
  <2>. QED
    BY <2>1, <2>2, <2>3 DEF WireInv
<1>3. ASSUME wire # <<>>
      PROVE  /\ Sendable(Current) /\ Current.ttl = origin.ttl - hops
             /\ Current.size = origin.size
             /\ wire \in Header /\ Checksum(wire) = 0
             /\ Parse(wire, origin.size) = Current
  <2>1. Sendable(origin) /\ hops \in Nat /\ hops < origin.ttl
        /\ wire = Serialize(Current)
    BY <1>3 DEF WireInv
  <2>2. Sendable(Current) /\ Current.ttl = origin.ttl - hops
        /\ Current.size = origin.size
    BY <2>1, CurrentSendable DEF Current
  <2>. QED
    BY <2>1, <2>2, RoundTrip
<1>4. ASSUME NEW now \in Times, Arrive(wire, TRUE, now) PROVE WireInv'
  <2>. DEFINE packet == Parse(wire, origin.size)
              outcome == Outcome(packet, now)
  <2>1. wire # <<>> /\ packet = Current
    BY <1>3, <1>4 DEF Arrive
  <2>2. /\ arrival' = [intact |-> TRUE, outcome |-> outcome]
        /\ IF outcome = "forwarded"
           THEN /\ wire' = Serialize(DecrementTtl(packet))
                /\ hops' = hops + 1 /\ UNCHANGED origin
           ELSE wire' = <<>> /\ hops' = 0 /\ origin' = NoPacket
    BY <1>4 DEF Arrive
  <2>3. /\ Sendable(Current) /\ Current.ttl = origin.ttl - hops
        /\ Current.ttl \in Nat /\ Current.ttl # 0
        /\ origin.ttl \in Nat /\ hops \in Nat /\ Sendable(origin)
    <3>1. Sendable(Current) /\ Current.ttl = origin.ttl - hops
          /\ hops \in Nat /\ Sendable(origin)
      BY <1>3, <2>1 DEF WireInv
    <3>2. Current.ttl \in Word /\ origin.ttl \in Word /\ Current.ttl # 0
      BY <3>1 DEF Sendable, PacketRecord, ValidPacket
    <3>. QED
      BY <3>1, <3>2, WordFacts DEF Word
  <2>4. packet # NoPacket
    BY <2>1, <2>3 DEF NoPacket
  <2>5. outcome # "malformed"
    BY <2>4 DEF Outcome
  <2>6. CASE outcome = "forwarded"
    <3>1. DecrementTtl(packet) # NoPacket
      BY <2>4, <2>6 DEF Outcome
    <3>2. Current.ttl > 1 /\ DecrementTtl(packet) = [Current EXCEPT !.ttl = @ - 1]
      BY <2>1, <2>3, <3>1 DEF DecrementTtl
    <3>3. hops' = hops + 1 /\ origin' = origin /\ hops + 1 < origin.ttl
      BY <2>2, <2>3, <2>6, <3>2
    <3>4. Current' = [Current EXCEPT !.ttl = @ - 1]
      <4>1. origin.ttl - (hops + 1) = (origin.ttl - hops) - 1
        BY <2>3
      <4>. QED
        BY <2>3, <3>3, <4>1 DEF Current, Sendable, PacketRecord
    <3>5. wire' = Serialize(Current')
      BY <2>2, <2>6, <3>2, <3>4
    <3>. HIDE DEF outcome
    <3>. QED
      BY <2>2, <2>3, <2>5, <3>3, <3>5 DEF WireInv
  <2>7. CASE outcome # "forwarded"
    <3>. HIDE DEF outcome
    <3>. QED
      BY <2>2, <2>5, <2>7 DEF WireInv
  <2>. QED
    BY <2>6, <2>7
<1>5. ASSUME NEW now \in Times, NEW f \in Flips, Arrive(Flip(wire, f), FALSE, now)
      PROVE  WireInv'
  <2>1. wire # <<>>
    BY <1>5 DEF Arrive
  <2>2. Parse(Flip(wire, f), origin.size) = NoPacket
    BY <1>3, <2>1, FlippedIsMalformed
  <2>3. Outcome(NoPacket, now) = "malformed"
    BY DEF Outcome
  <2>4. /\ wire' = <<>> /\ hops' = 0
        /\ arrival' = [intact |-> FALSE, outcome |-> "malformed"]
    BY <1>5, <2>2, <2>3 DEF Arrive
  <2>. QED
    BY <2>4 DEF WireInv
<1>6. ASSUME ControlStep PROVE UNCHANGED packetVars
  BY <1>6 DEF ControlStep, AddRoute, DeleteRoute, AddNeighbor, RemoveNeighbor,
              ExpireNeighbors, ArpArrives, LearnStation, AddStatic,
              RemoveStation, ExpireStations
<1>7. CASE UNCHANGED vars
  BY <1>1, <1>7 DEF vars
<1>. QED
  BY <1>1, <1>2, <1>4, <1>5, <1>6, <1>7 DEF Next, PacketStep

\* The header on the wire is that of the packet that was sent, with a time to
\* live less by the routers passed, so that the packet is forwarded less often
\* than its first time to live; every router that gets it intact accepts it,
\* and none accepts it with a bit inverted.
THEOREM HeaderSafe == Spec => [](HeaderKept /\ OneBitIsNoticed)
<1>1. Init => WireInv
  BY DEF Init, WireInv
<1>2. WireInv => HeaderKept /\ OneBitIsNoticed
  <2>. SUFFICES ASSUME WireInv PROVE HeaderKept /\ OneBitIsNoticed
    OBVIOUS
  <2>1. OneBitIsNoticed
    BY DEF WireInv, OneBitIsNoticed
  <2>2. ASSUME wire # <<>>
        PROVE  /\ hops < origin.ttl
               /\ Parse(wire, origin.size) = [origin EXCEPT !.ttl = @ - hops]
    <3>1. Sendable(origin) /\ hops \in Nat /\ hops < origin.ttl
          /\ wire = Serialize(Current)
      BY <2>2 DEF WireInv
    <3>2. Sendable(Current) /\ Current.size = origin.size
      BY <3>1, CurrentSendable DEF Current
    <3>3. Parse(wire, origin.size) = Current
      BY <3>1, <3>2, RoundTrip
    <3>. QED
      BY <3>1, <3>3 DEF Current
  <2>. QED
    BY <2>1, <2>2 DEF WireInv, HeaderKept
<1>. QED
  BY <1>1, <1>2, WireInvStep, PTL DEF Spec
=============================================================================
