---------------------------- MODULE GbyCacheProofs ----------------------------
(***************************************************************************)
(* Lemmas about the operators of GbyCache, for every size of the table.      *)
(* Slots are compared by their distance around the table (Dist), in which    *)
(* the modulus is gone and the arguments are linear.                         *)
(***************************************************************************)
EXTENDS GbyCache, FiniteSetTheorems, WellFoundedInduction, NaturalsInduction, TLAPS

------------------------------------------------------------------------------
\* Arithmetic.

\* A non-empty set of natural numbers has a least one.
LEMMA LeastNat ==
    ASSUME NEW T, T \subseteq Nat, T # {}
    PROVE  \E m \in T : \A n \in T : m <= n
<1>1. IsWellFoundedOn(OpToRel(<, Nat), Nat) BY NatLessThanWellFounded
<1>2. PICK m \in T : \A n \in T : ~(<<n, m>> \in OpToRel(<, Nat)) BY <1>1, WFMin
<1>3. ASSUME NEW n \in T PROVE m <= n
  <2>1. ~(<<n, m>> \in OpToRel(<, Nat)) BY <1>2
  <2>2. n \in Nat /\ m \in Nat OBVIOUS
  <2>3. ~(n < m) BY <2>1, <2>2 DEF OpToRel
  <2>. QED BY <2>2, <2>3
<1>. QED BY <1>3

\* A number is given by its quotient and its remainder.
LEMMA Division ==
    ASSUME NEW n \in Nat \ {0}, NEW x \in Int
    PROVE  /\ x \div n \in Int /\ x % n \in 0 .. n - 1
           /\ x = ((x \div n) * n) + (x % n)
OBVIOUS

\* The remainder is unique.
LEMMA Remainder ==
    ASSUME NEW n \in Nat \ {0}, NEW r \in 0 .. n - 1, NEW s \in 0 .. n - 1,
           NEW p \in Int, NEW q \in Int, r + p * n = s + q * n
    PROVE  r = s /\ p = q
<1>1. CASE p = q BY <1>1
<1>2. CASE p > q
  <2>1. (p - q) * n >= n BY <1>2
  <2>2. (p - q) * n = s - r OBVIOUS
  <2>. QED BY <2>1, <2>2
<1>3. CASE q > p
  <2>1. (q - p) * n >= n BY <1>3
  <2>2. (q - p) * n = r - s OBVIOUS
  <2>. QED BY <2>1, <2>2
<1>. QED BY <1>1, <1>2, <1>3

\* Induction over an interval, for a set of numbers.
LEMMA Induction ==
    ASSUME NEW N \in Nat, NEW S, 0 \in S, \A d \in 1 .. N : d - 1 \in S => d \in S
    PROVE  \A d \in 0 .. N : d \in S
<1> DEFINE Bad == (0 .. N) \ S
<1>1. SUFFICES ASSUME Bad # {} PROVE FALSE OBVIOUS
<1>2. Bad \subseteq Nat OBVIOUS
<1>3. PICK m \in Bad : \A n \in Bad : m <= n
  <2>. HIDE DEF Bad
  <2>. QED BY <1>1, <1>2, LeastNat
<1>4. m \in 0 .. N /\ m \notin S OBVIOUS
<1>5. m # 0 BY <1>4
<1>6. m \in 1 .. N /\ m - 1 \in 0 .. N BY <1>4, <1>5
<1>7. m - 1 \notin Bad BY <1>3, <1>6
<1>8. m - 1 \in S BY <1>6, <1>7
<1>. QED BY <1>4, <1>6, <1>8

\* The function f on 0 .. N takes steps of nxt from a.
Iterates(f, N, X, a, nxt) ==
    f \in [0 .. N -> X] /\ f[0] = a /\ \A d \in 1 .. N : f[d] = nxt[<<f[d - 1], d>>]

\* A function defined by recursion from a number to the next one exists.
LEMMA Recursion ==
    ASSUME NEW N \in Nat, NEW X, NEW a \in X, NEW nxt \in [X \X (1 .. N) -> X]
    PROVE  \E f : Iterates(f, N, X, a, nxt)
<1>. USE DEF Iterates
<1> DEFINE Upto(f, n) == Iterates(f, n, X, a, nxt)
           S == {n \in 0 .. N : \E f : Upto(f, n)}
<1>1. 0 \in S
  <2> DEFINE f == [d \in 0 .. 0 |-> a]
  <2>1. Upto(f, 0) OBVIOUS
  <2>. HIDE DEF f, Upto
  <2>. QED BY <2>1
<1>2. ASSUME NEW n \in 1 .. N, n - 1 \in S PROVE n \in S
  <2>1. PICK f : Upto(f, n - 1) BY <1>2
  <2>2. f \in [0 .. n - 1 -> X] /\ f[0] = a
    BY <2>1
  <2>3. n - 1 \in 0 .. n - 1 /\ f[n - 1] \in X BY <2>2
  <2>4. <<f[n - 1], n>> \in X \X (1 .. N) BY <2>3
  <2> DEFINE y == nxt[<<f[n - 1], n>>]
             g == [d \in 0 .. n |-> IF d = n THEN y ELSE f[d]]
  <2>5. y \in X BY <2>4
  <2>6. g \in [0 .. n -> X] /\ g[0] = a
    <3>. HIDE DEF y
    <3>. QED BY <2>2, <2>5
  <2>7. ASSUME NEW d \in 1 .. n PROVE g[d] = nxt[<<g[d - 1], d>>]
    <3>1. CASE d = n
      <4>1. g[n] = y /\ g[n - 1] = f[n - 1] BY <2>3
      <4>. QED BY <3>1, <4>1
    <3>2. CASE d # n
      <4>1. d \in 1 .. n - 1 /\ g[d] = f[d] /\ g[d - 1] = f[d - 1] BY <3>2
      <4>2. f[d] = nxt[<<f[d - 1], d>>] BY <2>1, <4>1
      <4>. QED BY <4>1, <4>2
    <3>. QED BY <3>1, <3>2
  <2>8. Upto(g, n)
    <3>. HIDE DEF g
    <3>. QED BY <2>6, <2>7
  <2>. HIDE DEF g, Upto
  <2>. QED BY <2>8
<1>3. N \in S
  <2>. HIDE DEF S
  <2>. QED BY <1>1, <1>2, Induction
<1>4. PICK f : Upto(f, N) BY <1>3
<1>. QED BY <1>4

\* The same when a step is known to stay in the set for what the steps before
\* it can give: I[d] holds what may come after d steps.
LEMMA RecursionWithin ==
    ASSUME NEW N \in Nat, NEW X, NEW I \in [0 .. N -> SUBSET X], NEW a \in I[0], NEW nxt,
           \A d \in 1 .. N : \A x \in I[d - 1] : nxt[<<x, d>>] \in I[d]
    PROVE  \E f : Iterates(f, N, X, a, nxt) /\ \A d \in 0 .. N : f[d] \in I[d]
<1> DEFINE n1 == [q \in X \X (1 .. N) |-> IF nxt[q] \in X THEN nxt[q] ELSE a]
<1>1. a \in X OBVIOUS
<1>2. n1 \in [X \X (1 .. N) -> X] BY <1>1
<1>3. PICK f : Iterates(f, N, X, a, n1)
  <2>. HIDE DEF n1
  <2>. QED BY <1>1, <1>2, Recursion
<1> DEFINE S == {d \in 0 .. N : f[d] \in I[d]}
<1>4. 0 \in S BY <1>3 DEF Iterates
<1>5. ASSUME NEW d \in 1 .. N, f[d - 1] \in I[d - 1]
      PROVE  f[d] = nxt[<<f[d - 1], d>>] /\ f[d] \in I[d]
  <2>1. d - 1 \in 0 .. N /\ d \in 0 .. N OBVIOUS
  <2>2. f[d - 1] \in X /\ nxt[<<f[d - 1], d>>] \in I[d] BY <1>5, <2>1
  <2>3. nxt[<<f[d - 1], d>>] \in X BY <2>1, <2>2
  <2>4. <<f[d - 1], d>> \in X \X (1 .. N) BY <2>2
  <2>5. n1[<<f[d - 1], d>>] = nxt[<<f[d - 1], d>>] BY <2>3, <2>4
  <2>6. f[d] = n1[<<f[d - 1], d>>] BY <1>3 DEF Iterates
  <2>. QED BY <2>2, <2>5, <2>6
<1>6. ASSUME NEW d \in 1 .. N, d - 1 \in S PROVE d \in S
  <2>1. f[d - 1] \in I[d - 1] /\ d \in 0 .. N BY <1>6
  <2>2. f[d] \in I[d] BY <1>5, <2>1
  <2>. QED BY <2>1, <2>2
<1>7. \A d \in 0 .. N : d \in S
  <2>. HIDE DEF S
  <2>. QED BY <1>4, <1>6, Induction
<1>8. \A d \in 0 .. N : f[d] \in I[d] BY <1>7
<1>9. \A d \in 1 .. N : f[d] = nxt[<<f[d - 1], d>>] BY <1>5, <1>8
<1>10. Iterates(f, N, X, a, nxt) BY <1>3, <1>9 DEF Iterates
<1>. QED BY <1>8, <1>10

\* The powers of two are what the recursion says.
LEMMA PowerOfTwoAt ==
    /\ PowerOfTwo[0] = 1 /\ \A n \in 0 .. Size : PowerOfTwo[n] \in Nat
    /\ \A n \in 1 .. Size : PowerOfTwo[n] = 2 * PowerOfTwo[n - 1]
<1> DEFINE nxt == [q \in Nat \X (1 .. Size) |-> 2 * q[1]]
           Is(f) == f = [n \in 0 .. Size |-> IF n = 0 THEN 1 ELSE 2 * f[n - 1]]
<1>1. Size \in Nat BY GbyCacheAssumption
<1>2. nxt \in [Nat \X (1 .. Size) -> Nat] OBVIOUS
<1>3. PICK f : Iterates(f, Size, Nat, 1, nxt)
  <2>. HIDE DEF nxt
  <2>. QED BY <1>1, <1>2, Recursion
<1>4. \A d \in 1 .. Size : f[d] = 2 * f[d - 1]
  <2>1. ASSUME NEW d \in 1 .. Size PROVE f[d] = 2 * f[d - 1]
    <3>1. d - 1 \in 0 .. Size BY <1>1
    <3>2. <<f[d - 1], d>> \in Nat \X (1 .. Size) BY <1>3, <3>1 DEF Iterates
    <3>. QED BY <1>3, <3>2 DEF Iterates
  <2>. QED BY <2>1
<1>5. Is(f) BY <1>1, <1>3, <1>4 DEF Iterates
<1>6. PowerOfTwo = CHOOSE g : Is(g) BY DEF PowerOfTwo
<1>7. Is(PowerOfTwo)
  <2>. HIDE DEF Is
  <2>. QED BY <1>5, <1>6
<1>8. PowerOfTwo[0] = 1 /\ \A n \in 1 .. Size : PowerOfTwo[n] = 2 * PowerOfTwo[n - 1]
  BY <1>1, <1>7
<1> DEFINE S == {n \in 0 .. Size : PowerOfTwo[n] \in Nat}
<1>9. 0 \in S /\ \A n \in 1 .. Size : n - 1 \in S => n \in S BY <1>1, <1>8
<1>10. \A n \in 0 .. Size : n \in S
  <2>. HIDE DEF S
  <2>. QED BY <1>1, <1>9, Induction
<1>. QED BY <1>8, <1>10

\* The size of the table is at least 2, and half of it less than all of it.
LEMMA SizeFacts ==
    Size \in Nat /\ Size >= 2 /\ Half \in Nat /\ 1 <= Half /\ Half < Size
<1>1. PICK n \in 1 .. Size : Size = PowerOfTwo[n] BY GbyCacheAssumption
<1>2. Size \in Nat /\ Size >= 1 /\ n - 1 \in 0 .. Size BY <1>1, GbyCacheAssumption
<1>3. Size = 2 * PowerOfTwo[n - 1] /\ PowerOfTwo[n - 1] \in Nat BY <1>1, <1>2, PowerOfTwoAt
<1>4. Size >= 2 BY <1>2, <1>3
<1>. QED BY <1>2, <1>4 DEF Half

\* An odd number (37) has an inverse modulo a power of two.
LEMMA InverseOf37 ==
    \E x \in Nat, y \in Nat : 37 * x = 1 + Size * y
<1> DEFINE P(p) == \E x \in Nat, y \in Nat : 37 * x = 1 + p * y
           S == {n \in 0 .. Size : P(PowerOfTwo[n])}
<1>1. 0 \in S
  <2>1. 37 * 1 = 1 + 1 * 36 OBVIOUS
  <2>2. P(1) BY <2>1
  <2>3. 0 \in 0 .. Size /\ PowerOfTwo[0] = 1 BY PowerOfTwoAt, SizeFacts
  <2>. HIDE DEF P
  <2>. QED BY <2>2, <2>3
<1>2. ASSUME NEW n \in 1 .. Size, n - 1 \in S PROVE n \in S
  <2> DEFINE p == PowerOfTwo[n - 1]
  <2>1. p \in Nat /\ PowerOfTwo[n] = 2 * p BY <1>2, PowerOfTwoAt, SizeFacts
  <2>2. PICK x \in Nat, y \in Nat : 37 * x = 1 + p * y BY <1>2
  <2>. HIDE DEF p
  <2>3. PICK z \in Nat : y = 2 * z \/ y = 2 * z + 1
    <3>1. y = ((y \div 2) * 2) + (y % 2) /\ y \div 2 \in Nat OBVIOUS
    <3>. QED BY <3>1
  <2>4. CASE y = 2 * z
    <3>1. p * y = (2 * p) * z BY <2>1, <2>4
    <3>2. 37 * x = 1 + (2 * p) * z BY <2>2, <3>1
    <3>3. P(2 * p) BY <2>1, <3>2
    <3>. HIDE DEF P
    <3>. QED BY <2>1, <3>3
  <2>5. CASE y = 2 * z + 1
    <3>1. 37 * (x + p) = 37 * x + 37 * p BY <2>1
    <3>2. p * y = (2 * p) * z + p BY <2>1, <2>5
    <3>3. (2 * p) * (z + 19) = (2 * p) * z + 38 * p BY <2>1
    <3>4. 37 * (x + p) = 1 + (2 * p) * (z + 19) BY <2>1, <2>2, <3>1, <3>2, <3>3
    <3>5. x + p \in Nat /\ z + 19 \in Nat BY <2>1
    <3>6. P(2 * p) BY <2>1, <3>4, <3>5
    <3>. HIDE DEF P
    <3>. QED BY <2>1, <3>6
  <2>. QED BY <2>3, <2>4, <2>5
<1>3. \A n \in 0 .. Size : n \in S
  <2>. HIDE DEF S
  <2>. QED BY <1>1, <1>2, Induction, SizeFacts
<1>4. PICK n \in 1 .. Size : Size = PowerOfTwo[n] BY GbyCacheAssumption
<1>5. n \in S BY <1>3, <1>4, SizeFacts
<1>. QED BY <1>4, <1>5

------------------------------------------------------------------------------
\* Slots around the table.

\* How far slot t is after slot u, around the table.
Dist(t, u) == IF t >= u THEN t - u ELSE t - u + Size

\* The modulus in terms of comparisons.
LEMMA WrapFacts ==
    /\ \A x \in Int : Wrap(x) \in Slots
    /\ \A x \in Slots : Wrap(x) = x
    /\ \A x \in Int, y \in Int : Wrap(Wrap(x) + y) = Wrap(x + y)
    /\ \A x \in Int : Wrap(x + Size) = Wrap(x)
<1>. USE SizeFacts DEF Wrap, Slots
<1>1. ASSUME NEW x \in Int, NEW y \in Int, NEW q \in Int, y = x + q * Size
      PROVE  x % Size = y % Size
  <2> DEFINE a == x \div Size  b == y \div Size  r == x % Size  s == y % Size
  <2>1. a \in Int /\ r \in 0 .. Size - 1 /\ x = (a * Size) + r BY Division
  <2>2. b \in Int /\ s \in 0 .. Size - 1 /\ y = (b * Size) + s BY Division
  <2>3. r = s
    <3>. HIDE DEF a, b, r, s
    <3> DEFINE c == a + q
    <3>1. c \in Int /\ c * Size = (a * Size) + (q * Size) BY <2>1
    <3>2. r + c * Size = s + b * Size BY <1>1, <2>1, <2>2, <3>1
    <3>3. Size \in Nat \ {0} OBVIOUS
    <3>. HIDE DEF c
    <3>. QED BY ONLY <2>1, <2>2, <3>1, <3>2, <3>3, Remainder
  <2>. QED BY <2>3
<1>2. \A x \in Int : Wrap(x) \in Slots
  <2>1. ASSUME NEW x \in Int PROVE x % Size \in 0 .. Size - 1 BY Division
  <2>. QED BY <2>1
<1>3. \A x \in Slots : Wrap(x) = x OBVIOUS
<1>4. ASSUME NEW x \in Int, NEW y \in Int PROVE Wrap(Wrap(x) + y) = Wrap(x + y)
  <2> DEFINE a == x \div Size  r == x % Size
  <2>1. a \in Int /\ r \in Int /\ x = (a * Size) + r BY Division
  <2>2. x + y = (r + y) + a * Size
    <3>. HIDE DEF a, r
    <3>. QED BY <2>1
  <2>. HIDE DEF a
  <2>3. (r + y) % Size = (x + y) % Size
    <3>. HIDE DEF r
    <3>1. r + y \in Int /\ x + y \in Int BY <2>1
    <3>. QED BY ONLY <1>1, <2>1, <2>2, <3>1
  <2>. QED BY <2>3
<1>5. ASSUME NEW x \in Int PROVE Wrap(x + Size) = Wrap(x)
  <2> DEFINE q == 1  y == x + Size
  <2>1. q \in Int /\ y \in Int /\ y = x + q * Size OBVIOUS
  <2>2. x % Size = y % Size
    <3>. HIDE DEF q, y
    <3>. QED BY ONLY <1>1, <2>1
  <2>. QED BY <2>2
<1>. QED BY <1>2, <1>3, <1>4, <1>5

\* The slot d after slot s.
LEMMA WrapPlus ==
    ASSUME NEW s \in Slots, NEW d \in Slots
    PROVE  Wrap(s + d) = IF s + d < Size THEN s + d ELSE s + d - Size
<1>. USE SizeFacts
<1>1. CASE s + d < Size BY <1>1, WrapFacts DEF Slots
<1>2. CASE s + d >= Size
  <2>1. s + d - Size \in Slots BY <1>2 DEF Slots
  <2>2. Wrap(s + d - Size) = Wrap(s + d - Size + Size) /\ s + d - Size + Size = s + d
    BY <2>1, WrapFacts DEF Slots
  <2>3. Wrap(s + d - Size) = s + d - Size BY <2>1, WrapFacts
  <2>. QED BY <1>2, <2>1, <2>2, <2>3 DEF Slots
<1>. QED BY <1>1, <1>2 DEF Slots

\* The distance of a slot from the home of a hash.
LEMMA WrapMinus ==
    ASSUME NEW t \in Slots, NEW h \in Int
    PROVE  Wrap(t - h) = Dist(t, Wrap(h))
<1>. USE SizeFacts
<1> DEFINE g == Wrap(h)
<1>1. g \in Slots BY WrapFacts
<1>2. Wrap(t - h) = Wrap(t - g)
  <2>1. Wrap(g + (t - h - g)) = Wrap(h + (t - h - g))
    <3>1. t - h - g \in Int BY <1>1 DEF Slots
    <3>. QED BY <3>1, WrapFacts
  <2>2. g + (t - h - g) = t - h /\ h + (t - h - g) = t - g BY <1>1 DEF Slots
  <2>. QED BY <2>1, <2>2
<1>. HIDE DEF g
<1>3. CASE t >= g
  <2>1. t - g \in Slots BY <1>1, <1>3 DEF Slots
  <2>. QED BY <1>2, <1>3, <2>1, WrapFacts DEF Dist, g
<1>4. CASE t < g
  <2>1. t - g + Size \in Slots /\ t - g \in Int BY <1>1, <1>4 DEF Slots
  <2>2. Wrap(t - g + Size) = Wrap(t - g) BY <2>1, WrapFacts
  <2>3. Wrap(t - g + Size) = t - g + Size BY <2>1, WrapFacts
  <2>4. ~(t >= g) BY <1>1, <1>4 DEF Slots
  <2>. QED BY <1>2, <2>2, <2>3, <2>4 DEF Dist, g
<1>. QED BY <1>1, <1>3, <1>4 DEF Slots

\* The slots of a probe from hash h.
LEMMA ProbeSlots ==
    ASSUME NEW h \in Nat
    PROVE  /\ Wrap(h) \in Slots
           /\ \A d \in Slots : /\ Wrap(h + d) \in Slots /\ Dist(Wrap(h + d), Wrap(h)) = d
                               /\ Wrap(h + d) = IF Wrap(h) + d < Size THEN Wrap(h) + d
                                                                      ELSE Wrap(h) + d - Size
           /\ \A u \in Slots : /\ Dist(u, Wrap(h)) \in Slots
                               /\ Wrap(h + Dist(u, Wrap(h))) = u
<1>. USE SizeFacts
<1> DEFINE g == Wrap(h)
<1>1. g \in Slots BY WrapFacts
<1>2. \A d \in Slots : Wrap(h + d) = Wrap(g + d)
  <2>1. \A d \in Slots : d \in Int BY DEF Slots
  <2>. QED BY <2>1, WrapFacts
<1>. HIDE DEF g
<1>3. \A d \in Slots : Wrap(h + d) = IF g + d < Size THEN g + d ELSE g + d - Size
  BY <1>1, <1>2, WrapPlus
<1>4. ASSUME NEW d \in Slots PROVE Wrap(h + d) \in Slots /\ Dist(Wrap(h + d), g) = d
  <2> DEFINE s == Wrap(h + d)
  <2>1. s = IF g + d < Size THEN g + d ELSE g + d - Size BY <1>3
  <2>. HIDE DEF s
  <2>2. s \in Slots /\ Dist(s, g) = d BY <1>1, <2>1 DEF Slots, Dist
  <2>. QED BY <2>2 DEF s
<1>5. \A u \in Slots : Dist(u, g) \in Slots BY <1>1 DEF Slots, Dist
<1>6. ASSUME NEW u \in Slots PROVE Wrap(h + Dist(u, g)) = u
  <2>1. Wrap(h + Dist(u, g)) = IF g + Dist(u, g) < Size THEN g + Dist(u, g)
                                                        ELSE g + Dist(u, g) - Size
    BY <1>3, <1>5
  <2>. QED BY <1>1, <2>1 DEF Slots, Dist
<1>. QED BY <1>1, <1>3, <1>4, <1>5, <1>6 DEF g

------------------------------------------------------------------------------
\* The table.

Entries == [bytes : Nat, hash : Nat, value : Vals]
Tables == [Slots -> Entries \cup {Empty}]
Values == [Vals -> [batch_slot : Slots \cup {NoSlot}, tuple_count : Nat]]

\* A probe from its hash passes no free slot before it comes to an entry.
Reached(c) ==
    \A t \in Slots, u \in Slots :
        c[t] # Empty /\ c[u] = Empty => Dist(t, Wrap(c[t].hash)) < Dist(t, u)

\* The value of an entry names its slot.
Named(c, vals) == \A t \in Slots : c[t] # Empty => vals[c[t].value].batch_slot = t

\* No two entries have the same bytes.
KeysDiffer(c) ==
    \A t \in Slots, u \in Slots :
        c[t] # Empty /\ c[u] # Empty /\ c[t].bytes = c[u].bytes => t = u

\* What an entry is.
LEMMA EntryFacts ==
    /\ Empty \notin Entries
    /\ \A c \in Tables, t \in Slots :
         c[t] # Empty => /\ c[t] \in Entries /\ c[t].bytes \in Nat /\ c[t].hash \in Nat
                         /\ c[t].value \in Vals
<1>1. Empty \notin Entries BY DEF Empty, Entries
<1>2. ASSUME NEW c \in Tables, NEW t \in Slots, c[t] # Empty PROVE c[t] \in Entries
  BY <1>2 DEF Tables
<1>. QED BY <1>1, <1>2 DEF Entries

LEMMA TableFacts ==
    \A c \in Tables : c # NullCache /\ DOMAIN c = Slots /\ Occupied(c) \subseteq Slots
<1>1. 0 \in Slots BY SizeFacts DEF Slots
<1>2. 0 \notin DOMAIN NullCache BY DEF NullCache
<1>3. ASSUME NEW c \in Tables PROVE DOMAIN c = Slots BY DEF Tables
<1>. QED BY <1>1, <1>2, <1>3 DEF Occupied

\* The first free slot is free, and a probe from its home passes no other one.
LEMMA FirstFreeFacts ==
    ASSUME NEW c \in Tables, NEW h \in Nat, NEW z \in Slots, c[z] = Empty
    PROVE  /\ FirstFree(c, h) \in Slots /\ c[FirstFree(c, h)] = Empty
           /\ \A u \in Slots : c[u] = Empty /\ u # FirstFree(c, h) =>
                Dist(FirstFree(c, h), Wrap(h)) < Dist(FirstFree(c, h), u)
<1>. USE SizeFacts
<1> DEFINE g == Wrap(h)
           D == {d \in Slots : c[Wrap(h + d)] = Empty}
           Q(d) == c[Wrap(h + d)] = Empty /\ Reaches(c, h, d)
<1>1. g \in Slots /\ \A u \in Slots : Dist(u, g) \in Slots /\ Wrap(h + Dist(u, g)) = u
  BY ProbeSlots
<1>2. D # {} /\ D \subseteq Nat
  <2>1. Dist(z, g) \in D BY <1>1
  <2>. QED BY <2>1 DEF Slots
<1>3. PICK m \in D : \A n \in D : m <= n
  <2>. HIDE DEF D
  <2>. QED BY <1>2, LeastNat
<1>4. m \in Slots /\ Q(m)
  <2>1. ASSUME NEW e \in 0 .. m - 1 PROVE c[Wrap(h + e)] # Empty
    <3>1. e \in Slots /\ ~(m <= e) BY DEF Slots
    <3>. QED BY <1>3, <3>1
  <2>. QED BY <2>1 DEF Reaches
<1> DEFINE d == CHOOSE x \in Slots : Q(x)
<1>5. d \in Slots /\ Q(d)
  <2>. HIDE DEF Q
  <2>. QED BY <1>4
<1> DEFINE f == Wrap(h + d)
<1>6. FirstFree(c, h) = f BY DEF FirstFree
<1>. HIDE DEF d, g
<1>7. f \in Slots /\ Dist(f, g) = d BY <1>5, ProbeSlots DEF g
<1>8. ASSUME NEW u \in Slots, c[u] = Empty, u # f PROVE Dist(f, g) < Dist(f, u)
  <2> DEFINE e == Dist(u, g)
  <2>1. e \in Slots /\ Wrap(h + e) = u BY <1>1
  <2>2. e # d BY <1>8, <2>1
  <2>3. ~(e \in 0 .. d - 1) BY <1>5, <1>8, <2>1 DEF Reaches
  <2>4. e > d BY <1>5, <2>1, <2>2, <2>3 DEF Slots
  <2>. HIDE DEF f
  <2>. QED BY <1>1, <1>7, <2>4 DEF Dist, Slots
<1>. QED BY <1>5, <1>6, <1>7, <1>8 DEF g

\* A probe for bytes finds an entry with them, or none; it finds every entry.
LEMMA FindFacts ==
    ASSUME NEW c \in Tables, Reached(c), KeysDiffer(c), NEW b \in Nat, NEW h \in Nat
    PROVE  /\ \/ qexec_gby_cache_find(c, b, h) = NoSlot
              \/ /\ qexec_gby_cache_find(c, b, h) \in Slots
                 /\ c[qexec_gby_cache_find(c, b, h)] # Empty
                 /\ c[qexec_gby_cache_find(c, b, h)].bytes = b
           /\ \A t \in Slots : c[t] # Empty /\ c[t].bytes = b /\ c[t].hash = h =>
                qexec_gby_cache_find(c, b, h) = t
<1>. USE SizeFacts
<1> DEFINE D == {d \in Slots : /\ c[Wrap(h + d)] # Empty /\ c[Wrap(h + d)].bytes = b
                               /\ Reaches(c, h, d)}
           f == Wrap(h + CHOOSE d \in D : TRUE)
<1>1. qexec_gby_cache_find(c, b, h) = IF D = {} THEN NoSlot ELSE f
  BY TableFacts DEF qexec_gby_cache_find
<1>2. ASSUME D # {} PROVE f \in Slots /\ c[f] # Empty /\ c[f].bytes = b
  <2>1. (CHOOSE d \in D : TRUE) \in D BY <1>2
  <2>2. PICK d \in D : f = Wrap(h + d) BY <2>1
  <2>. QED BY <2>2, ProbeSlots
<1>3. ASSUME NEW t \in Slots, c[t] # Empty, c[t].bytes = b, c[t].hash = h
      PROVE  D # {} /\ f = t
  <2> DEFINE g == Wrap(h)  d == Dist(t, g)
  <2>1. g \in Slots /\ d \in Slots /\ Wrap(h + d) = t BY ProbeSlots
  <2>2. ASSUME NEW e \in 0 .. d - 1 PROVE c[Wrap(h + e)] # Empty
    <3> DEFINE u == Wrap(h + e)
    <3>1. e \in Slots /\ e < d
      <4>. HIDE DEF d
      <4>. QED BY <2>1 DEF Slots
    <3>2. u \in Slots /\ Dist(u, g) = e BY <3>1, ProbeSlots
    <3>3. Dist(t, u) <= d
      <4>. HIDE DEF u, g
      <4>. QED BY <2>1, <3>1, <3>2 DEF Dist, Slots, d
    <3>4. Dist(t, u) \in Int
      <4>. HIDE DEF u
      <4>. QED BY <3>2 DEF Dist, Slots
    <3>. QED BY <1>3, <3>2, <3>3, <3>4, <2>1 DEF Reached, Slots
  <2>3. d \in D BY <1>3, <2>1, <2>2 DEF Reaches
  <2>4. f = t BY <1>2, <1>3, <2>3 DEF KeysDiffer
  <2>. QED BY <2>3, <2>4
<1>. HIDE DEF D, f
<1>. QED BY <1>1, <1>2, <1>3

------------------------------------------------------------------------------
\* A removal of slot s from table c0 with values v0, as it shifts.

Removals == [c : Tables, hole : Slots, end : BOOLEAN, vals : Values]

\* The free slots are those there were and the hole.
HoleOpen(c0, p) ==
    /\ c0[p.hole] # Empty
    /\ \A t \in Slots : p.c[t] # Empty <=> (c0[t] # Empty /\ t # p.hole)

\* The entries are those there were but the one of slot s, and their values
\* name their slots.
Shifted(c0, v0, s, p) ==
    /\ \A t \in Slots : p.c[t] # Empty => \E u \in Slots : u # s /\ c0[u] # Empty /\ c0[u] = p.c[t]
    /\ \A u \in Slots : u # s /\ c0[u] # Empty => \E t \in Slots : p.c[t] # Empty /\ p.c[t] = c0[u]
    /\ Named(p.c, p.vals) /\ KeysDiffer(p.c)
    /\ p.vals[c0[s].value].batch_slot = NoSlot
    /\ \A v \in Vals : /\ p.vals[v].tuple_count = v0[v].tuple_count
                       /\ (\A t \in Slots : ~EntryOf(c0, t, v)) => p.vals[v] = v0[v]

\* A probe passes no free slot but the hole, and for the entries up to d slots
\* on, or all of them at the end, not that one; slot z is free and further on.
HolePassed(s, z, d, p) ==
    /\ \A t \in Slots, u \in Slots : p.c[t] # Empty /\ p.c[u] = Empty /\ u # p.hole =>
         Dist(t, Wrap(p.c[t].hash)) < Dist(t, u)
    /\ ~p.end => Dist(p.hole, s) <= d /\ d < Dist(z, s)
    /\ \A t \in Slots : p.c[t] # Empty /\ (p.end \/ Dist(t, s) <= d) =>
         Dist(t, Wrap(p.c[t].hash)) < Dist(t, p.hole)

Removal(c0, v0, s, z, d, p) ==
    p \in Removals /\ HoleOpen(c0, p) /\ Shifted(c0, v0, s, p) /\ HolePassed(s, z, d, p)

\* Distances are slots, and 0 only from a slot to itself.
LEMMA DistFacts ==
    \A t \in Slots, u \in Slots :
        Dist(t, u) \in Nat /\ Dist(t, u) < Size /\ (Dist(t, u) = 0 <=> t = u)
BY SizeFacts DEF Dist, Slots

\* The distance of an entry from its home.
LEMMA HomeFacts ==
    ASSUME NEW c \in Tables, NEW t \in Slots, c[t] # Empty
    PROVE  /\ Wrap(c[t].hash) \in Slots /\ Dist(t, Wrap(c[t].hash)) \in Nat
           /\ Dist(t, Wrap(c[t].hash)) < Size
<1>1. c[t].hash \in Int BY EntryFacts
<1>2. Wrap(c[t].hash) \in Slots BY <1>1, WrapFacts
<1>. QED BY <1>2, DistFacts

\* A table in order loses the entry of slot s; z is another free slot.
LEMMA RemovalBegins ==
    ASSUME NEW c0 \in Tables, NEW v0 \in Values, NEW s \in Slots, NEW z \in Slots,
           c0[s] # Empty, c0[z] = Empty, Reached(c0), Named(c0, v0), KeysDiffer(c0),
           NEW w, w.st.cache = c0, w.vals = v0
    PROVE  Removal(c0, v0, s, z, 0, OpenHole(w, s))
<1> DEFINE c == [c0 EXCEPT ![s] = Empty]
           g == c0[s].value
           vals == [v0 EXCEPT ![g].batch_slot = NoSlot]
           p == [c |-> c, hole |-> s, end |-> FALSE, vals |-> vals]
<1>1. OpenHole(w, s) = p BY DEF OpenHole
<1>2. g \in Vals BY EntryFacts
<1>3. c \in Tables /\ c[s] = Empty /\ \A t \in Slots : t # s => c[t] = c0[t] BY DEF Tables
<1>. HIDE DEF g
<1>4. /\ vals \in Values /\ vals[g].batch_slot = NoSlot
      /\ \A v \in Vals : /\ vals[v].tuple_count = v0[v].tuple_count
                         /\ v # g => vals[v] = v0[v]
  BY <1>2 DEF Values, NoSlot
<1>. HIDE DEF c, vals
<1>5. p \in Removals BY <1>3, <1>4 DEF Removals
<1>6. p.c = c /\ p.hole = s /\ p.end = FALSE /\ p.vals = vals OBVIOUS
<1>. HIDE DEF p
<1>7. HoleOpen(c0, p) BY <1>3, <1>6 DEF HoleOpen
<1>8. \A t \in Slots : c0[t] # Empty /\ c0[t].value = g => t = s
  BY DEF Named, g
<1>9. Shifted(c0, v0, s, p)
  <2>1. Named(c, vals) BY <1>3, <1>4, <1>8, EntryFacts DEF Named
  <2>2. KeysDiffer(c) BY <1>3 DEF KeysDiffer
  <2>3. EntryOf(c0, s, g) BY DEF EntryOf, g
  <2>4. \A v \in Vals : (\A t \in Slots : ~EntryOf(c0, t, v)) => vals[v] = v0[v] BY <1>4, <2>3
  <2>5. \A t \in Slots : c[t] # Empty => \E u \in Slots : u # s /\ c0[u] # Empty /\ c0[u] = c[t]
    BY <1>3
  <2>6. \A u \in Slots : u # s /\ c0[u] # Empty => \E t \in Slots : c[t] # Empty /\ c[t] = c0[u]
    BY <1>3
  <2>. QED BY <1>4, <1>6, <2>1, <2>2, <2>4, <2>5, <2>6 DEF Shifted, g
<1>10. HolePassed(s, z, 0, p)
  <2>1. \A t \in Slots, u \in Slots : c[t] # Empty /\ c[u] = Empty /\ u # s =>
          Dist(t, Wrap(c[t].hash)) < Dist(t, u)
    BY <1>3 DEF Reached
  <2>2. Dist(s, s) <= 0 /\ 0 < Dist(z, s) BY DistFacts
  <2>3. ASSUME NEW t \in Slots, c[t] # Empty PROVE ~(Dist(t, s) <= 0)
    <3>1. t # s BY <1>3, <2>3
    <3>. QED BY <3>1, DistFacts
  <2>. QED BY <1>6, <2>1, <2>2, <2>3 DEF HolePassed
<1>. QED BY <1>1, <1>5, <1>7, <1>9, <1>10 DEF Removal

\* The removal comes to a free slot.
LEMMA RemovalEnds ==
    ASSUME NEW c0, NEW v0, NEW s \in Slots, NEW z \in Slots, NEW d \in Slots, d # 0,
           NEW p, Removal(c0, v0, s, z, d - 1, p), p.end \/ p.c[Wrap(s + d)] = Empty
    PROVE  Removal(c0, v0, s, z, d, [p EXCEPT !.end = TRUE])
<1> DEFINE q == [p EXCEPT !.end = TRUE]  j == Wrap(s + d)
<1>1. p \in Removals BY DEF Removal
<1>2. /\ q \in Removals /\ q.c = p.c /\ q.hole = p.hole /\ q.end = TRUE /\ q.vals = p.vals
  BY <1>1 DEF Removals
<1>3. j \in Slots /\ j = IF s + d < Size THEN s + d ELSE s + d - Size
  <2>1. s + d \in Int BY DEF Slots
  <2>. QED BY <2>1, WrapPlus, WrapFacts
<1>. HIDE DEF q, j
<1>4. HoleOpen(c0, q) BY <1>2 DEF Removal, HoleOpen
<1>5. Shifted(c0, v0, s, q) BY <1>2 DEF Removal, Shifted
<1> DEFINE c == p.c  o == p.hole
<1>6. o \in Slots /\ c \in Tables BY <1>1 DEF Removals
<1>7. ASSUME NEW t \in Slots, c[t] # Empty PROVE Dist(t, Wrap(c[t].hash)) < Dist(t, o)
  <2> DEFINE a == Dist(t, Wrap(c[t].hash))
  <2>1. CASE p.end BY <1>7, <2>1 DEF Removal, HolePassed
  <2>2. CASE ~p.end
    <3>1. c[j] = Empty /\ Dist(o, s) <= d - 1 BY <2>2 DEF Removal, HolePassed, j
    <3>2. CASE Dist(t, s) <= d - 1 BY <1>7, <3>2 DEF Removal, HolePassed
    <3>3. CASE ~(Dist(t, s) <= d - 1)
      <4>1. t # j /\ j # o
        <5>1. Dist(j, s) = d BY <1>3, SizeFacts DEF Dist, Slots
        <5>2. Dist(o, s) \in Nat BY <1>6, DistFacts
        <5>. QED BY <1>7, <3>1, <5>1, <5>2 DEF Slots
      <4>2. a < Dist(t, j) BY <1>3, <1>7, <3>1, <4>1 DEF Removal, HolePassed
      <4>3. a \in Int BY <1>6, <1>7, HomeFacts
      <4>. HIDE DEF a, c, o
      <4>. QED BY <1>3, <1>6, <3>1, <3>3, <4>1, <4>2, <4>3, SizeFacts DEF Dist, Slots, a
    <3>. QED BY <3>2, <3>3
  <2>. QED BY <2>1, <2>2
<1>8. HolePassed(s, z, d, q)
  BY <1>2, <1>7 DEF Removal, HolePassed
<1>. QED BY <1>2, <1>4, <1>5, <1>8 DEF Removal, q

\* The slot d after s, as the removal of slot s comes to it.
LEMMA NextSlot ==
    ASSUME NEW s \in Slots, NEW d \in Slots
    PROVE  /\ Wrap(s + d) \in Slots /\ Dist(Wrap(s + d), s) = d
           /\ \A t \in Slots : Dist(t, s) = d => t = Wrap(s + d)
<1>. USE SizeFacts
<1> DEFINE j == Wrap(s + d)
<1>1. j = IF s + d < Size THEN s + d ELSE s + d - Size BY WrapPlus
<1>. HIDE DEF j
<1>2. j \in Slots /\ Dist(j, s) = d /\ \A t \in Slots : Dist(t, s) = d => t = j
  BY <1>1 DEF Dist, Slots
<1>. QED BY <1>2 DEF j

\* What the removal knows of the slot it comes to.
LEMMA RemovalAt ==
    ASSUME NEW c0, NEW v0, NEW s \in Slots, NEW z \in Slots, c0[z] = Empty,
           NEW d \in Slots, d # 0, NEW p, Removal(c0, v0, s, z, d - 1, p),
           ~p.end, p.c[Wrap(s + d)] # Empty
    PROVE  /\ p.c \in Tables /\ p.hole \in Slots /\ p.vals \in Values
           /\ d < Dist(z, s) /\ Dist(p.hole, s) <= d - 1 /\ p.c[z] = Empty /\ p.c[p.hole] = Empty
           /\ z # p.hole
           /\ Wrap(Wrap(s + d) - p.hole) = Dist(Wrap(s + d), p.hole)
           /\ Wrap(Wrap(s + d) - p.c[Wrap(s + d)].hash)
                = Dist(Wrap(s + d), Wrap(p.c[Wrap(s + d)].hash))
<1> DEFINE j == Wrap(s + d)
<1>1. j \in Slots /\ Dist(j, s) = d BY NextSlot
<1>2. p.c \in Tables /\ p.hole \in Slots /\ p.vals \in Values BY DEF Removal, Removals
<1>3. d - 1 < Dist(z, s) /\ Dist(p.hole, s) <= d - 1 BY DEF Removal, HolePassed
<1>4. p.c[z] = Empty /\ p.c[p.hole] = Empty /\ z # p.hole BY <1>2 DEF Removal, HoleOpen
<1>5. d < Dist(z, s)
  <2>1. z # j BY <1>4
  <2>2. Dist(z, s) # d BY <2>1, NextSlot
  <2>3. Dist(z, s) \in Nat BY DistFacts
  <2>. QED BY <1>3, <2>2, <2>3 DEF Slots
<1>6. p.hole \in Int /\ Wrap(p.hole) = p.hole
  <2>1. p.hole \in Int BY <1>2, SizeFacts DEF Slots
  <2>. QED BY <1>2, <2>1, WrapFacts
<1>7. p.c[j].hash \in Int BY <1>1, <1>2, EntryFacts
<1>. QED BY <1>1, <1>2, <1>3, <1>4, <1>5, <1>6, <1>7, WrapMinus

\* The entry d slots on does not pass the hole and stays.
LEMMA RemovalSkips ==
    ASSUME NEW c0, NEW v0, NEW s \in Slots, NEW z \in Slots, c0[z] = Empty,
           NEW d \in Slots, d # 0, NEW p, Removal(c0, v0, s, z, d - 1, p),
           ~p.end, p.c[Wrap(s + d)] # Empty,
           Dist(Wrap(s + d), Wrap(p.c[Wrap(s + d)].hash)) < Dist(Wrap(s + d), p.hole)
    PROVE  Removal(c0, v0, s, z, d, p)
<1>1. /\ d < Dist(z, s) /\ Dist(p.hole, s) <= d - 1 /\ p.hole \in Slots
  BY RemovalAt
<1>2. Dist(p.hole, s) \in Nat BY <1>1, DistFacts
<1>3. Dist(p.hole, s) <= d BY <1>1, <1>2 DEF Slots
<1>4. ASSUME NEW t \in Slots, p.c[t] # Empty, Dist(t, s) <= d
      PROVE  Dist(t, Wrap(p.c[t].hash)) < Dist(t, p.hole)
  <2>1. CASE t = Wrap(s + d) BY <2>1
  <2>2. CASE t # Wrap(s + d)
    <3>1. Dist(t, s) # d /\ Dist(t, s) \in Nat BY <2>2, NextSlot, DistFacts
    <3>2. Dist(t, s) <= d - 1 BY <1>4, <3>1 DEF Slots
    <3>. QED BY <1>4, <3>2 DEF Removal, HolePassed
  <2>. QED BY <2>1, <2>2
<1>5. HolePassed(s, z, d, p) BY <1>1, <1>3, <1>4 DEF Removal, HolePassed
<1>. QED BY <1>5 DEF Removal

\* Distances from the slots that a move of the entry in slot j to hole o involves.
LEMMA MoveDistances ==
    ASSUME NEW s \in Slots, NEW z \in Slots, NEW o \in Slots, NEW j \in Slots,
           Dist(o, s) < Dist(j, s), Dist(j, s) < Dist(z, s)
    PROVE  /\ \A h \in Slots : Dist(j, h) >= Dist(j, o) =>
                /\ Dist(o, h) < Dist(o, j)
                /\ \A u \in Slots : Dist(j, h) < Dist(j, u) => Dist(o, h) < Dist(o, u)
           /\ \A t \in Slots, h \in Slots :
                Dist(t, h) < Dist(t, z) /\ Dist(t, h) < Dist(t, o) /\ Dist(t, s) < Dist(j, s) =>
                  Dist(t, h) < Dist(t, j)
BY SizeFacts DEF Dist, Slots

\* The entry d slots on passes the hole and moves into it.
LEMMA RemovalMoves ==
    ASSUME NEW c0 \in Tables, NEW v0 \in Values, Named(c0, v0),
           NEW s \in Slots, c0[s] # Empty, NEW z \in Slots, c0[z] = Empty,
           NEW d \in Slots, d # 0, NEW p, Removal(c0, v0, s, z, d - 1, p),
           ~p.end, p.c[Wrap(s + d)] # Empty,
           Dist(Wrap(s + d), Wrap(p.c[Wrap(s + d)].hash)) >= Dist(Wrap(s + d), p.hole)
    PROVE  Removal(c0, v0, s, z, d,
             [p EXCEPT !.c = [p.c EXCEPT ![p.hole] = p.c[Wrap(s + d)], ![Wrap(s + d)] = Empty],
                       !.vals[p.c[Wrap(s + d)].value].batch_slot = p.hole,
                       !.hole = Wrap(s + d)])
<1> DEFINE j == Wrap(s + d)  o == p.hole  c == p.c  e == c[j]  g == e.value
           c1 == [c EXCEPT ![o] = e, ![j] = Empty]
           vals == [p.vals EXCEPT ![g].batch_slot = o]
           q == [p EXCEPT !.c = c1, !.vals[g].batch_slot = o, !.hole = j]
<1>1. j \in Slots /\ Dist(j, s) = d /\ \A t \in Slots : Dist(t, s) = d => t = j BY NextSlot
<1>2. /\ c \in Tables /\ o \in Slots /\ p.vals \in Values
      /\ d < Dist(z, s) /\ Dist(o, s) <= d - 1 /\ c[z] = Empty /\ c[o] = Empty /\ z # o
  BY RemovalAt
<1>3. e # Empty /\ e \in Entries /\ g \in Vals /\ o # j BY <1>1, <1>2, EntryFacts
<1>4. p \in Removals BY DEF Removal
<1>5. q \in Removals /\ q.c = c1 /\ q.hole = j /\ q.end = FALSE /\ q.vals = vals
  <2>1. c1 \in Tables BY <1>1, <1>2, <1>3 DEF Tables
  <2>2. vals \in Values BY <1>2, <1>3 DEF Values
  <2>. HIDE DEF c1, e, g
  <2>3. q = [p EXCEPT !.c = c1, !.vals = vals, !.hole = j] BY <1>4 DEF Removals
  <2>. HIDE DEF q, vals
  <2>. QED BY <1>1, <1>4, <2>1, <2>2, <2>3 DEF Removals
<1>6. c1[o] = e /\ c1[j] = Empty /\ \A t \in Slots : t # o /\ t # j => c1[t] = c[t]
  BY <1>1, <1>2, <1>3 DEF Tables
<1>7. /\ vals[g].batch_slot = o
      /\ \A v \in Vals : /\ vals[v].tuple_count = p.vals[v].tuple_count
                         /\ v # g => vals[v] = p.vals[v]
  <2>. HIDE DEF g
  <2>. QED BY <1>2, <1>3 DEF Values
<1>8. HoleOpen(c0, p) /\ Shifted(c0, v0, s, p) /\ HolePassed(s, z, d - 1, p) BY DEF Removal
<1>. HIDE DEF q, vals, c1, j
<1>9. HoleOpen(c0, q)
  <2>1. c0[j] # Empty /\ c0[o] # Empty BY <1>1, <1>3, <1>8 DEF HoleOpen
  <2>2. ASSUME NEW t \in Slots PROVE c1[t] # Empty <=> (c0[t] # Empty /\ t # j)
    BY <1>3, <1>6, <1>8, <2>1 DEF HoleOpen
  <2>. QED BY <1>5, <2>1, <2>2 DEF HoleOpen
<1>10. Shifted(c0, v0, s, q)
  <2>1. Named(c, p.vals) /\ KeysDiffer(c) BY <1>8 DEF Shifted
  <2>2. PICK a \in Slots : a # s /\ c0[a] # Empty /\ c0[a] = e BY <1>1, <1>3, <1>8 DEF Shifted
  <2>3. \A t \in Slots : c1[t] # Empty => \E u \in Slots : u # s /\ c0[u] # Empty /\ c0[u] = c1[t]
    <3>1. ASSUME NEW t \in Slots, c1[t] # Empty
          PROVE  \E u \in Slots : u # s /\ c0[u] # Empty /\ c0[u] = c1[t]
      <4>1. CASE t = o BY <1>6, <2>2, <4>1
      <4>2. CASE t # o BY <1>6, <1>8, <3>1, <4>2 DEF Shifted
      <4>. QED BY <4>1, <4>2
    <3>. QED BY <3>1
  <2>4. \A u \in Slots : u # s /\ c0[u] # Empty => \E t \in Slots : c1[t] # Empty /\ c1[t] = c0[u]
    <3>1. ASSUME NEW u \in Slots, u # s, c0[u] # Empty
          PROVE  \E t \in Slots : c1[t] # Empty /\ c1[t] = c0[u]
      <4>1. PICK t \in Slots : c[t] # Empty /\ c[t] = c0[u] BY <1>8, <3>1 DEF Shifted
      <4>2. CASE t = j BY <1>2, <1>3, <1>6, <4>1, <4>2
      <4>3. CASE t # j BY <1>2, <1>6, <4>1, <4>3
      <4>. QED BY <4>2, <4>3
    <3>. QED BY <3>1
  <2>5. \A t \in Slots : c[t] # Empty /\ t # j => c[t].value # g
    BY <1>1, <1>3, <2>1 DEF Named
  <2>6. Named(c1, vals)
    <3>1. ASSUME NEW t \in Slots, c1[t] # Empty PROVE vals[c1[t].value].batch_slot = t
      <4>1. CASE t = o BY <1>6, <1>7, <4>1
      <4>2. CASE t # o
        <5>1. t # j /\ c1[t] = c[t] BY <1>6, <3>1, <4>2
        <5>2. c[t].value \in Vals /\ c[t].value # g BY <1>2, <2>5, <3>1, <5>1, EntryFacts
        <5>3. vals[c[t].value] = p.vals[c[t].value] BY <1>7, <5>2
        <5>. QED BY <2>1, <3>1, <5>1, <5>3 DEF Named
      <4>. QED BY <4>1, <4>2
    <3>. QED BY <3>1 DEF Named
  <2>7. KeysDiffer(c1)
    <3>1. ASSUME NEW t \in Slots, NEW u \in Slots, c1[t] # Empty, c1[u] # Empty,
                 c1[t].bytes = c1[u].bytes
          PROVE  t = u
      <4>. HIDE DEF e, c, o
      <4>1. \A x \in Slots, y \in Slots :
              c[x] # Empty /\ c[y] # Empty /\ c[x].bytes = c[y].bytes => x = y
        BY <2>1 DEF KeysDiffer
      <4>. QED BY <1>1, <1>2, <1>3, <1>6, <3>1, <4>1 DEF e
    <3>. QED BY <3>1 DEF KeysDiffer
  <2>8. g # c0[s].value
    <3>1. v0[c0[a].value].batch_slot = a /\ v0[c0[s].value].batch_slot = s BY <2>2 DEF Named
    <3>. QED BY <2>2, <3>1
  <2>9. c0[s].value \in Vals BY EntryFacts
  <2>10. vals[c0[s].value].batch_slot = NoSlot BY <1>7, <1>8, <2>8, <2>9 DEF Shifted
  <2>11. ASSUME NEW v \in Vals, \A t \in Slots : ~EntryOf(c0, t, v) PROVE vals[v] = v0[v]
    <3>1. v # g BY <2>2, <2>11 DEF EntryOf
    <3>. QED BY <1>7, <1>8, <2>11, <3>1 DEF Shifted
  <2>12. \A v \in Vals : vals[v].tuple_count = v0[v].tuple_count BY <1>7, <1>8 DEF Shifted
  <2>. HIDE DEF e, c, o, g
  <2>. QED BY <1>5, <2>3, <2>4, <2>6, <2>7, <2>10, <2>11, <2>12 DEF Shifted
<1>11. HolePassed(s, z, d, q)
  <2> DEFINE H(t) == Wrap(c[t].hash)
  <2>. HIDE DEF c, o
  <2>1. \A t \in Slots : c[t] # Empty => H(t) \in Slots BY <1>2, HomeFacts
  <2>2. /\ \A t \in Slots, u \in Slots : c[t] # Empty /\ c[u] = Empty /\ u # o =>
             Dist(t, H(t)) < Dist(t, u)
        /\ \A t \in Slots : c[t] # Empty /\ Dist(t, s) <= d - 1 => Dist(t, H(t)) < Dist(t, o)
    BY <1>8 DEF HolePassed, c, o
  <2>3. Dist(o, s) < Dist(j, s) /\ Dist(j, s) < Dist(z, s)
    <3>1. Dist(o, s) \in Nat BY <1>2, DistFacts
    <3>. QED BY <1>1, <1>2, <3>1 DEF Slots
  <2>4. Dist(j, H(j)) >= Dist(j, o) BY DEF j, c, o
  <2>5. /\ Dist(o, H(j)) < Dist(o, j)
        /\ \A u \in Slots : Dist(j, H(j)) < Dist(j, u) => Dist(o, H(j)) < Dist(o, u)
    <3>1. H(j) \in Slots BY <1>1, <1>3, <2>1
    <3>. HIDE DEF H
    <3>. QED BY <1>1, <1>2, <2>3, <2>4, <3>1, MoveDistances
  <2>6. ASSUME NEW t \in Slots, c[t] # Empty, Dist(t, s) < d PROVE Dist(t, H(t)) < Dist(t, j)
    <3>1. Dist(t, H(t)) < Dist(t, z) BY <1>2, <2>2, <2>6
    <3>2. Dist(t, H(t)) < Dist(t, o)
      <4>1. Dist(t, s) \in Nat BY DistFacts
      <4>2. Dist(t, s) <= d - 1 BY <2>6, <4>1 DEF Slots
      <4>. QED BY <2>2, <2>6, <4>2
    <3>3. H(t) \in Slots BY <2>1, <2>6
    <3>. HIDE DEF H
    <3>. QED BY <1>1, <1>2, <2>3, <2>6, <3>1, <3>2, <3>3, MoveDistances
  <2>7. ASSUME NEW t \in Slots, NEW u \in Slots, c1[t] # Empty, c1[u] = Empty, u # j
        PROVE  Dist(t, Wrap(c1[t].hash)) < Dist(t, u)
    <3>1. u # o /\ c[u] = Empty BY <1>3, <1>6, <2>7
    <3>2. CASE t = o
      <4>1. Dist(j, H(j)) < Dist(j, u) BY <1>1, <1>3, <2>2, <3>1
      <4>. QED BY <1>6, <2>5, <3>2, <4>1
    <3>3. CASE t # o
      <4>1. c1[t] = c[t] BY <1>6, <2>7, <3>3
      <4>. QED BY <2>2, <2>7, <3>1, <4>1
    <3>. QED BY <3>2, <3>3
  <2>8. ASSUME NEW t \in Slots, c1[t] # Empty, Dist(t, s) <= d
        PROVE  Dist(t, Wrap(c1[t].hash)) < Dist(t, j)
    <3>1. CASE t = o BY <1>6, <2>5, <3>1
    <3>2. CASE t # o
      <4>1. c1[t] = c[t] /\ t # j BY <1>6, <2>8, <3>2
      <4>2. Dist(t, s) # d /\ Dist(t, s) \in Nat BY <1>1, <4>1, DistFacts
      <4>3. Dist(t, s) < d BY <2>8, <4>2 DEF Slots
      <4>. QED BY <2>6, <2>8, <4>1, <4>3
    <3>. QED BY <3>1, <3>2
  <2>9. Dist(j, s) <= d /\ d < Dist(z, s) BY <1>1, <1>2 DEF Slots
  <2>. QED BY <1>5, <2>7, <2>8, <2>9 DEF HolePassed
<1>. QED BY <1>5, <1>9, <1>10, <1>11 DEF Removal, q, c1, j

\* One slot more: the removal ends, or the entry stays, or it moves.
LEMMA RemovalStep ==
    ASSUME NEW c0 \in Tables, NEW v0 \in Values, Named(c0, v0),
           NEW s \in Slots, c0[s] # Empty, NEW z \in Slots, c0[z] = Empty,
           NEW d \in Slots, d # 0, NEW p, Removal(c0, v0, s, z, d - 1, p)
    PROVE  Removal(c0, v0, s, z, d, ShiftOver(p, s, d))
<1> DEFINE j == Wrap(s + d)  e == p.c[j]
           q == [p EXCEPT !.c = [p.c EXCEPT ![p.hole] = e, ![j] = Empty],
                          !.vals[e.value].batch_slot = p.hole, !.hole = j]
<1>1. CASE p.end \/ e = Empty
  <2>1. ShiftOver(p, s, d) = [p EXCEPT !.end = TRUE] BY <1>1 DEF ShiftOver
  <2>. QED BY <1>1, <2>1, RemovalEnds
<1>2. CASE ~p.end /\ e # Empty
  <2>1. /\ Wrap(j - p.hole) = Dist(j, p.hole) /\ Wrap(j - e.hash) = Dist(j, Wrap(e.hash))
    BY <1>2, RemovalAt
  <2>2. ShiftOver(p, s, d) = IF Dist(j, Wrap(e.hash)) >= Dist(j, p.hole) THEN q ELSE p
    BY <1>2, <2>1 DEF ShiftOver
  <2>3. CASE Dist(j, Wrap(e.hash)) >= Dist(j, p.hole)
    <3>1. ShiftOver(p, s, d) = q BY <2>2, <2>3
    <3>2. Removal(c0, v0, s, z, d, q) BY <1>2, <2>3, RemovalMoves
    <3>. QED BY <3>1, <3>2
  <2>4. CASE ~(Dist(j, Wrap(e.hash)) >= Dist(j, p.hole))
    <3>1. ShiftOver(p, s, d) = p BY <2>2, <2>4
    <3>2. j \in Slots BY NextSlot
    <3>3. p.c \in Tables /\ p.hole \in Slots BY <1>2, RemovalAt
    <3>4. Dist(j, Wrap(e.hash)) \in Nat BY <1>2, <3>2, <3>3, HomeFacts
    <3>5. Dist(j, p.hole) \in Nat BY <3>2, <3>3, DistFacts
    <3>6. Dist(j, Wrap(e.hash)) < Dist(j, p.hole) BY <2>4, <3>4, <3>5
    <3>. QED BY <1>2, <3>1, <3>6, RemovalSkips
  <2>. QED BY <2>3, <2>4
<1>. QED BY <1>1, <1>2

\* A step of a removal keeps its type.
LEMMA ShiftOverType ==
    ASSUME NEW p \in Removals, NEW s \in Slots, NEW d \in Slots
    PROVE  ShiftOver(p, s, d) \in Removals
<1> DEFINE j == Wrap(s + d)  e == p.c[j]
<1>1. j \in Slots BY NextSlot
<1>. HIDE DEF j
<1>2. CASE e = Empty \/ p.end BY <1>2 DEF ShiftOver, Removals, j
<1>3. CASE e # Empty /\ ~p.end
  <2> DEFINE c1 == [p.c EXCEPT ![p.hole] = e, ![j] = Empty]
             vals == [p.vals EXCEPT ![e.value].batch_slot = p.hole]
  <2>1. p.c \in Tables /\ p.vals \in Values /\ p.hole \in Slots BY DEF Removals
  <2>2. e \in Entries /\ e.value \in Vals BY <1>1, <1>3, <2>1, EntryFacts
  <2>3. c1 \in Tables BY <1>1, <2>1, <2>2 DEF Tables
  <2>4. vals \in Values
    <3>. HIDE DEF e
    <3>. QED BY <2>1, <2>2 DEF Values
  <2>5. ShiftOver(p, s, d) = p
          \/ ShiftOver(p, s, d) = [p EXCEPT !.c = c1, !.vals[e.value].batch_slot = p.hole, !.hole = j]
    BY <1>3 DEF ShiftOver, j
  <2>6. [p EXCEPT !.c = c1, !.vals[e.value].batch_slot = p.hole, !.hole = j]
          = [p EXCEPT !.c = c1, !.vals = vals, !.hole = j]
    <3>. HIDE DEF c1, e
    <3>. QED BY DEF Removals
  <2>7. [p EXCEPT !.c = c1, !.vals = vals, !.hole = j] \in Removals
    <3>. HIDE DEF c1, vals
    <3>. QED BY <1>1, <2>3, <2>4 DEF Removals
  <2>. QED BY <2>5, <2>6, <2>7
<1>. QED BY <1>2, <1>3

\* The world without the entry that removal p took out.
WithoutEntry(w, p) ==
    qdata_free_agg_hkey(
      [w EXCEPT !.st.cache = p.c, !.vals = p.vals,
                !.st.n_cached = @ - 1, !.st.n_pool_free = @ + 1], 1)

\* What a removal from a table in order has done when it returns.
LEMMA RemoveResult ==
    ASSUME NEW w, NEW s \in Slots, NEW z \in Slots,
           w.st.cache \in Tables, w.vals \in Values,
           w.st.cache[s] # Empty, w.st.cache[z] = Empty,
           Reached(w.st.cache), Named(w.st.cache, w.vals), KeysDiffer(w.st.cache)
    PROVE  \E p \in Removals : /\ HoleOpen(w.st.cache, p) /\ Shifted(w.st.cache, w.vals, s, p)
                               /\ Reached(p.c) /\ qexec_gby_cache_remove(w, s) = WithoutEntry(w, p)
<1>. USE SizeFacts
<1> DEFINE c0 == w.st.cache  v0 == w.vals
           N == Size - 1
           nxt == [q \in Removals \X (1 .. N) |-> ShiftOver(q[1], s, q[2])]
           a == OpenHole(w, s)
           Is(f) == f = [d \in Slots |-> IF d = 0 THEN a ELSE ShiftOver(f[d - 1], s, d)]
<1>1. Removal(c0, v0, s, z, 0, a) BY RemovalBegins
<1>. HIDE DEF a, c0, v0
<1>2. a \in Removals BY <1>1 DEF Removal
<1>3. nxt \in [Removals \X (1 .. N) -> Removals]
  <2>1. ASSUME NEW q \in Removals \X (1 .. N) PROVE ShiftOver(q[1], s, q[2]) \in Removals
    <3>1. q[1] \in Removals /\ q[2] \in Slots BY DEF Slots
    <3>. QED BY <3>1, ShiftOverType
  <2>. QED BY <2>1
<1>4. PICK f : Iterates(f, N, Removals, a, nxt)
  <2>1. N \in Nat OBVIOUS
  <2>. HIDE DEF nxt, N
  <2>. QED BY <1>2, <1>3, <2>1, Recursion
<1>5. ASSUME NEW d \in 1 .. N PROVE f[d] = ShiftOver(f[d - 1], s, d)
  <2>1. f[d - 1] \in Removals BY <1>4 DEF Iterates
  <2>2. <<f[d - 1], d>> \in Removals \X (1 .. N) BY <2>1
  <2>3. f[d] = nxt[<<f[d - 1], d>>] BY <1>4 DEF Iterates
  <2>. QED BY <2>2, <2>3
<1>6. Is(f)
  <2>1. f \in [Slots -> Removals] /\ f[0] = a BY <1>4 DEF Iterates, Slots
  <2>2. \A d \in Slots : f[d] = IF d = 0 THEN a ELSE ShiftOver(f[d - 1], s, d)
    BY <1>5, <2>1 DEF Slots
  <2>. QED BY <2>1, <2>2
<1> DEFINE step == CHOOSE f1 : Is(f1)
<1>7. Is(step)
  <2>. HIDE DEF Is
  <2>. QED BY <1>6
<1>8. qexec_gby_cache_remove(w, s) = WithoutEntry(w, step[N])
  BY DEF qexec_gby_cache_remove, WithoutEntry, a
<1>. HIDE DEF step
<1>9. step[0] = a /\ \A d \in 1 .. N : step[d] = ShiftOver(step[d - 1], s, d)
  BY <1>7 DEF Slots
<1> DEFINE S == {d \in 0 .. N : Removal(c0, v0, s, z, d, step[d])}
<1>10. 0 \in S BY <1>1, <1>9
<1>11. ASSUME NEW d \in 1 .. N, d - 1 \in S PROVE d \in S
  <2>1. Removal(c0, v0, s, z, d - 1, step[d - 1]) BY <1>11
  <2>2. d \in Slots /\ d # 0 BY DEF Slots
  <2>3. Removal(c0, v0, s, z, d, ShiftOver(step[d - 1], s, d))
    BY <2>1, <2>2, RemovalStep DEF c0, v0
  <2>. QED BY <1>9, <2>3
<1>12. N \in S
  <2>1. N \in Nat /\ N \in 0 .. N OBVIOUS
  <2>. HIDE DEF S, N
  <2>. QED BY <1>10, <1>11, <2>1, Induction
<1> DEFINE p == step[N]
<1>13. Removal(c0, v0, s, z, N, p) BY <1>12
<1>. HIDE DEF p
<1>14. p \in Removals /\ HoleOpen(c0, p) /\ Shifted(c0, v0, s, p) BY <1>13 DEF Removal
<1>15. p.end
  <2>1. ~p.end => N < Dist(z, s) BY <1>13 DEF Removal, HolePassed
  <2>2. Dist(z, s) \in Nat /\ Dist(z, s) < Size BY DistFacts
  <2>. QED BY <2>1, <2>2
<1>16. Reached(p.c)
  <2>1. ASSUME NEW t \in Slots, NEW u \in Slots, p.c[t] # Empty, p.c[u] = Empty
        PROVE  Dist(t, Wrap(p.c[t].hash)) < Dist(t, u)
    <3>1. CASE u = p.hole BY <1>13, <1>15, <2>1, <3>1 DEF Removal, HolePassed
    <3>2. CASE u # p.hole BY <1>13, <2>1, <3>2 DEF Removal, HolePassed
    <3>. QED BY <3>1, <3>2
  <2>. QED BY <2>1 DEF Reached
<1>. QED BY <1>8, <1>14, <1>16 DEF c0, v0, p

------------------------------------------------------------------------------
\* The world.

Pends == Seq([row : Nat, ent : Slots])
Evals == Seq([group : Vals, sel : Seq(Int)])
Caches == Tables \cup {NullCache}
States == [cache : Caches, n_cached : Nat, n_pool_free : Nat, off : BOOLEAN, pend : Pends]
Fakes == [eval : Evals, get : Seq(Nat), get_result : Vals,
          n_dump : Nat, n_sync : Nat, n_copy : Nat, n_free_key : Nat]
Contexts == [state : {"HS_ACCEPT_ALL", "HS_REJECT_ALL"}, tuple_count : Nat,
             group_count : Nat, evictions : Nat]
Worlds == [st : States, vals : Values, fk : Fakes, ctx : Contexts, sel : Seq(Int), done : Nat]

\* The entries the cache has.
Contents(w) == {w.st.cache[t] : t \in Occupied(w.st.cache)}

\* The cache in order: probes reach every entry, values name their slots, keys
\* differ, and the counters count.
InOrder(w) ==
    /\ w.st.cache \in Tables
    /\ Reached(w.st.cache) /\ Named(w.st.cache, w.vals) /\ KeysDiffer(w.st.cache)
    /\ w.st.n_cached = Cardinality(Occupied(w.st.cache))
    /\ w.st.n_cached + w.st.n_pool_free = Half

\* What the operations of the cache leave alone.
Frame(w, u) ==
    /\ u.ctx = w.ctx /\ u.sel = w.sel /\ u.done = w.done
    /\ u.st.off = w.st.off /\ u.st.pend = w.st.pend
    /\ u.fk.eval = w.fk.eval /\ u.fk.get_result = w.fk.get_result
    /\ u.fk.n_dump = w.fk.n_dump /\ u.fk.n_sync = w.fk.n_sync

LEMMA SlotsFinite == IsFiniteSet(Slots) /\ Cardinality(Slots) = Size
<1>1. 0 \in Int /\ Size - 1 \in Int BY SizeFacts
<1>2. IsFiniteSet(0 .. Size - 1)
       /\ Cardinality(0 .. Size - 1) = IF 0 > Size - 1 THEN 0 ELSE Size - 1 - 0 + 1
  BY <1>1, FS_Interval
<1>. QED BY <1>2, SizeFacts DEF Slots

\* The occupied slots of a table.
LEMMA OccupiedFacts ==
    ASSUME NEW c \in Tables
    PROVE  /\ IsFiniteSet(Occupied(c)) /\ Cardinality(Occupied(c)) \in Nat
           /\ Occupied(c) = {t \in Slots : c[t] # Empty}
<1>1. Occupied(c) \subseteq Slots BY TableFacts
<1>2. IsFiniteSet(Occupied(c)) BY <1>1, SlotsFinite, FS_Subset
<1>3. Cardinality(Occupied(c)) \in Nat BY <1>2, FS_CardinalityType
<1>. QED BY <1>2, <1>3, TableFacts DEF Occupied

\* A cache in order has a free slot.
LEMMA FreeSlot ==
    ASSUME NEW w \in Worlds, InOrder(w)
    PROVE  /\ w.st.n_cached \in 0 .. Half /\ w.st.n_pool_free \in 0 .. Half
           /\ \E z \in Slots : w.st.cache[z] = Empty
<1>1. w.st.n_cached \in Nat /\ w.st.n_pool_free \in Nat BY DEF Worlds, States
<1>2. w.st.n_cached \in 0 .. Half /\ w.st.n_pool_free \in 0 .. Half
  BY <1>1, SizeFacts DEF InOrder
<1>3. ASSUME \A z \in Slots : w.st.cache[z] # Empty PROVE FALSE
  <2>1. Occupied(w.st.cache) = Slots BY <1>3, OccupiedFacts DEF InOrder
  <2>2. w.st.n_cached = Size BY <2>1, SlotsFinite DEF InOrder
  <2>. QED BY <1>2, <2>2, SizeFacts
<1>. QED BY <1>2, <1>3

\* In a cache in order entries with the same bytes, or the same value, are one.
LEMMA ContentsFacts ==
    ASSUME NEW w \in Worlds, InOrder(w)
    PROVE  /\ Contents(w) \subseteq Entries
           /\ \A e \in Contents(w) : \E t \in Slots : /\ w.st.cache[t] = e /\ e # Empty
                                                      /\ w.vals[e.value].batch_slot = t
           /\ \A t \in Slots : w.st.cache[t] # Empty => w.st.cache[t] \in Contents(w)
           /\ \A e \in Contents(w), x \in Contents(w) :
                e.bytes = x.bytes \/ e.value = x.value => e = x
<1> DEFINE c == w.st.cache
<1>1. c \in Tables /\ Named(c, w.vals) /\ KeysDiffer(c) BY DEF InOrder
<1>2. Occupied(c) = {t \in Slots : c[t] # Empty} BY <1>1, OccupiedFacts
<1>3. Contents(w) = {c[t] : t \in {u \in Slots : c[u] # Empty}} BY <1>2 DEF Contents
<1>. HIDE DEF c
<1>4. Contents(w) \subseteq Entries BY <1>1, <1>3, EntryFacts
<1>5. \A e \in Contents(w) : \E t \in Slots : c[t] = e /\ e # Empty /\ w.vals[e.value].batch_slot = t
  BY <1>1, <1>3 DEF Named
<1>6. ASSUME NEW e \in Contents(w), NEW x \in Contents(w), e.bytes = x.bytes \/ e.value = x.value
      PROVE  e = x
  <2>1. PICK t \in Slots : c[t] = e /\ e # Empty /\ w.vals[e.value].batch_slot = t BY <1>5
  <2>2. PICK u \in Slots : c[u] = x /\ x # Empty /\ w.vals[x.value].batch_slot = u BY <1>5
  <2>3. CASE e.bytes = x.bytes
    <3>1. t = u BY <1>1, <2>1, <2>2, <2>3 DEF KeysDiffer
    <3>. QED BY <2>1, <2>2, <3>1
  <2>4. CASE e.value = x.value BY <2>1, <2>2, <2>4
  <2>. QED BY <1>6, <2>3, <2>4
<1>7. \A t \in Slots : c[t] # Empty => c[t] \in Contents(w) BY <1>3
<1>. QED BY <1>4, <1>5, <1>6, <1>7 DEF c

\* A probe in a cache in order.
LEMMA FindInOrder ==
    ASSUME NEW w \in Worlds, InOrder(w), NEW b \in Nat, NEW h \in Nat
    PROVE  LET f == qexec_gby_cache_find(w.st.cache, b, h)
           IN /\ f # NoSlot => f \in Slots /\ w.st.cache[f] \in Contents(w) /\ w.st.cache[f].bytes = b
              /\ \A e \in Contents(w) : e.bytes = b /\ e.hash = h =>
                   f # NoSlot /\ w.st.cache[f] = e /\ w.vals[e.value].batch_slot = f
<1> DEFINE c == w.st.cache  f == qexec_gby_cache_find(c, b, h)
<1>1. c \in Tables /\ Reached(c) /\ KeysDiffer(c) BY DEF InOrder
<1>2. /\ f = NoSlot \/ (f \in Slots /\ c[f] # Empty /\ c[f].bytes = b)
      /\ \A t \in Slots : c[t] # Empty /\ c[t].bytes = b /\ c[t].hash = h => f = t
  <2>. HIDE DEF c
  <2>. QED BY <1>1, FindFacts
<1>. HIDE DEF f
<1>3. f # NoSlot => f \in Slots /\ c[f] \in Contents(w) /\ c[f].bytes = b
  BY <1>2, ContentsFacts
<1>4. ASSUME NEW e \in Contents(w), e.bytes = b, e.hash = h
      PROVE  f # NoSlot /\ c[f] = e /\ w.vals[e.value].batch_slot = f
  <2>1. PICK t \in Slots : c[t] = e /\ e # Empty /\ w.vals[e.value].batch_slot = t
    BY ContentsFacts
  <2>2. f = t BY <1>2, <1>4, <2>1
  <2>3. t # NoSlot BY DEF Slots, NoSlot
  <2>. QED BY <2>1, <2>2, <2>3
<1>. QED BY <1>3, <1>4 DEF f

\* A value without an entry names no slot.
NoneNamed(w) ==
    \A v \in Vals : (\A e \in Contents(w) : e.value # v) => w.vals[v].batch_slot = NoSlot

\* World u is w without entry e.
Removed(w, e, u) ==
    /\ u \in Worlds /\ InOrder(u) /\ Frame(w, u) /\ Contents(u) = Contents(w) \ {e}
    /\ u.st.n_cached = w.st.n_cached - 1
    /\ u.fk.n_free_key = w.fk.n_free_key + 1 /\ u.fk.n_copy = w.fk.n_copy /\ u.fk.get = w.fk.get
    /\ u.vals[e.value].batch_slot = NoSlot
    /\ \A v \in Vals : (\A x \in Contents(w) : x.value # v) => u.vals[v] = w.vals[v]

\* The fields of the world without the entry.
LEMMA WithoutEntryFields ==
    ASSUME NEW w \in Worlds, NEW p \in Removals, w.st.n_cached >= 1
    PROVE  LET u == WithoutEntry(w, p)
           IN /\ u \in Worlds /\ Frame(w, u) /\ u.st.cache = p.c /\ u.vals = p.vals
              /\ u.st.n_cached = w.st.n_cached - 1 /\ u.st.n_pool_free = w.st.n_pool_free + 1
              /\ u.fk.n_free_key = w.fk.n_free_key + 1 /\ u.fk.n_copy = w.fk.n_copy
              /\ u.fk.get = w.fk.get
<1> DEFINE st == [w.st EXCEPT !.cache = p.c, !.n_cached = @ - 1, !.n_pool_free = @ + 1]
           fk == [w.fk EXCEPT !.n_free_key = @ + 1]
           u == [w EXCEPT !.st = st, !.vals = p.vals, !.fk = fk]
<1>1. w.st \in States /\ w.fk \in Fakes /\ p.c \in Tables /\ p.vals \in Values
  BY DEF Worlds, Removals
<1>2. WithoutEntry(w, p) = u
  BY DEF WithoutEntry, qdata_free_agg_hkey, Worlds
<1>3. /\ st \in States /\ st.cache = p.c /\ st.n_cached = w.st.n_cached - 1
      /\ st.n_pool_free = w.st.n_pool_free + 1 /\ st.off = w.st.off /\ st.pend = w.st.pend
  <2>1. p.c \in Caches BY <1>1 DEF Caches
  <2>2. w.st.n_cached - 1 \in Nat /\ w.st.n_pool_free + 1 \in Nat BY <1>1 DEF States
  <2>. QED BY <1>1, <2>1, <2>2 DEF States
<1>4. /\ fk \in Fakes /\ fk.n_free_key = w.fk.n_free_key + 1 /\ fk.n_copy = w.fk.n_copy
      /\ fk.get = w.fk.get /\ fk.eval = w.fk.eval /\ fk.get_result = w.fk.get_result
      /\ fk.n_dump = w.fk.n_dump /\ fk.n_sync = w.fk.n_sync
  <2>1. w.fk.n_free_key + 1 \in Nat BY <1>1 DEF Fakes
  <2>. QED BY <1>1, <2>1 DEF Fakes
<1>. HIDE DEF st, fk
<1>5. u \in Worlds /\ u.st = st /\ u.vals = p.vals /\ u.fk = fk /\ u.ctx = w.ctx
      /\ u.sel = w.sel /\ u.done = w.done
  BY <1>1, <1>3, <1>4 DEF Worlds
<1>. HIDE DEF u
<1>. QED BY <1>2, <1>3, <1>4, <1>5 DEF Frame

\* Removing the entry of an occupied slot from a cache in order.
LEMMA RemoveInOrder ==
    ASSUME NEW w \in Worlds, InOrder(w), NEW s \in Slots, w.st.cache[s] # Empty
    PROVE  Removed(w, w.st.cache[s], qexec_gby_cache_remove(w, s))
<1> DEFINE c == w.st.cache  u == qexec_gby_cache_remove(w, s)
<1>1. c \in Tables /\ Reached(c) /\ Named(c, w.vals) /\ KeysDiffer(c) BY DEF InOrder
<1>2. w.vals \in Values BY DEF Worlds
<1>3. PICK z \in Slots : c[z] = Empty BY FreeSlot
<1>4. PICK p \in Removals : /\ HoleOpen(c, p) /\ Shifted(c, w.vals, s, p) /\ Reached(p.c)
                            /\ u = WithoutEntry(w, p)
  BY <1>1, <1>2, <1>3, RemoveResult
<1>5. p.c \in Tables /\ p.hole \in Slots BY DEF Removals
<1> DEFINE Oc == Occupied(c)  Op == Occupied(p.c)
<1>6. Oc = {t \in Slots : c[t] # Empty} /\ Op = {t \in Slots : p.c[t] # Empty}
      /\ IsFiniteSet(Oc)
  BY <1>1, <1>5, OccupiedFacts
<1>. HIDE DEF Oc, Op
<1>7. Op = Oc \ {p.hole} /\ p.hole \in Oc BY <1>4, <1>5, <1>6 DEF HoleOpen
<1>8. Cardinality(Op) = Cardinality(Oc) - 1 BY <1>6, <1>7, FS_RemoveElement
<1>9. w.st.n_cached = Cardinality(Oc) /\ w.st.n_cached \in Nat /\ w.st.n_pool_free \in Nat
  BY DEF InOrder, Oc, Worlds, States
<1>10. w.st.n_cached >= 1
  <2>1. Oc # {} BY <1>7
  <2>2. Cardinality(Oc) # 0 BY <1>6, <2>1, FS_EmptySet
  <2>. QED BY <1>9, <2>2
<1>11. /\ u \in Worlds /\ Frame(w, u) /\ u.st.cache = p.c /\ u.vals = p.vals
       /\ u.st.n_cached = w.st.n_cached - 1 /\ u.st.n_pool_free = w.st.n_pool_free + 1
       /\ u.fk.n_free_key = w.fk.n_free_key + 1 /\ u.fk.n_copy = w.fk.n_copy
       /\ u.fk.get = w.fk.get
  BY <1>4, <1>10, WithoutEntryFields
<1>. HIDE DEF u
<1>12. InOrder(u)
  <2>1. Named(p.c, p.vals) /\ KeysDiffer(p.c) BY <1>4 DEF Shifted
  <2>2. u.st.n_cached = Cardinality(Op) BY <1>8, <1>9, <1>11
  <2>3. u.st.n_cached + u.st.n_pool_free = Half
    BY <1>9, <1>10, <1>11, SizeFacts DEF InOrder
  <2>. QED BY <1>4, <1>5, <1>11, <2>1, <2>2, <2>3 DEF InOrder, Op
<1>13. Contents(w) = {c[t] : t \in Oc} /\ Contents(u) = {p.c[t] : t \in Op}
  BY <1>11 DEF Contents, Oc, Op
<1>14. Contents(u) = Contents(w) \ {c[s]}
  <2>. HIDE DEF c
  <2>1. ASSUME NEW e, e \in Contents(u) PROVE e \in Contents(w) /\ e # c[s]
    <3>1. PICK t \in Slots : p.c[t] # Empty /\ e = p.c[t] BY <1>6, <1>13, <2>1
    <3>2. PICK x \in Slots : x # s /\ c[x] # Empty /\ c[x] = e BY <1>4, <3>1 DEF Shifted
    <3>3. c[x] # c[s] BY <1>1, <3>2 DEF KeysDiffer, c
    <3>. QED BY <1>6, <1>13, <3>2, <3>3
  <2>2. ASSUME NEW e, e \in Contents(w), e # c[s] PROVE e \in Contents(u)
    <3>1. PICK x \in Slots : c[x] # Empty /\ c[x] = e BY <1>6, <1>13, <2>2
    <3>2. PICK t \in Slots : p.c[t] # Empty /\ p.c[t] = e BY <1>4, <2>2, <3>1 DEF Shifted
    <3>. QED BY <1>6, <1>13, <3>2
  <2>. QED BY <2>1, <2>2
<1>15. u.vals[c[s].value].batch_slot = NoSlot BY <1>4, <1>11 DEF Shifted
<1>16. ASSUME NEW v \in Vals, \A x \in Contents(w) : x.value # v PROVE u.vals[v] = w.vals[v]
  <2>1. \A t \in Slots : ~EntryOf(c, t, v) BY <1>6, <1>13, <1>16 DEF EntryOf
  <2>. QED BY <1>4, <1>11, <2>1 DEF Shifted
<1>. QED BY <1>11, <1>12, <1>14, <1>15, <1>16 DEF Removed, u

\* Removing keeps the values without an entry from naming a slot.
LEMMA RemovedNoneNamed ==
    ASSUME NEW w \in Worlds, InOrder(w), NoneNamed(w), NEW e \in Contents(w), NEW u,
           Removed(w, e, u)
    PROVE  NoneNamed(u)
<1>1. ASSUME NEW v \in Vals, \A x \in Contents(u) : x.value # v
      PROVE  u.vals[v].batch_slot = NoSlot
  <2>1. CASE v = e.value BY <2>1 DEF Removed
  <2>2. CASE v # e.value
    <3>1. \A x \in Contents(w) : x.value # v BY <1>1, <2>2 DEF Removed
    <3>. QED BY <3>1 DEF Removed, NoneNamed
  <2>. QED BY <2>1, <2>2
<1>. QED BY <1>1 DEF NoneNamed

\* An empty table is in order.
LEMMA EmptyInOrder ==
    ASSUME NEW u, u.st.cache = [s \in Slots |-> Empty], u.st.n_cached = 0, u.st.n_pool_free = Half
    PROVE  InOrder(u) /\ Contents(u) = {}
<1> DEFINE c == [s \in Slots |-> Empty]
<1>1. c \in Tables /\ \A t \in Slots : c[t] = Empty BY DEF Tables
<1>. HIDE DEF c
<1>2. u.st.cache = c BY DEF c
<1>3. Reached(c) /\ Named(c, u.vals) /\ KeysDiffer(c) BY <1>1 DEF Reached, Named, KeysDiffer
<1>4. Occupied(c) = {} BY <1>1, OccupiedFacts
<1>5. Cardinality(Occupied(c)) = 0 BY <1>4, FS_EmptySet
<1>. QED BY <1>1, <1>2, <1>3, <1>4, <1>5, SizeFacts DEF InOrder, Contents

\* The pool's reset empties the table and changes nothing else.
LEMMA ResetInOrder ==
    ASSUME NEW w \in Worlds
    PROVE  LET u == qexec_gby_pool_reset(w)
           IN /\ u \in Worlds /\ InOrder(u) /\ Contents(u) = {} /\ u.st.n_cached = 0
              /\ Frame(w, u) /\ u.vals = w.vals /\ u.fk = w.fk
<1> DEFINE c == [s \in Slots |-> Empty]
           st == [w.st EXCEPT !.cache = c, !.n_cached = 0, !.n_pool_free = Half]
           u == [w EXCEPT !.st = st]
<1>1. w.st \in States BY DEF Worlds
<1>2. qexec_gby_pool_reset(w) = u BY DEF qexec_gby_pool_reset, Worlds
<1>3. c \in Caches BY DEF Tables, Caches
<1>. HIDE DEF c
<1>4. /\ st \in States /\ st.cache = c /\ st.n_cached = 0 /\ st.n_pool_free = Half
      /\ st.off = w.st.off /\ st.pend = w.st.pend
  BY <1>1, <1>3, SizeFacts DEF States
<1>. HIDE DEF st
<1>5. u \in Worlds /\ u.st = st /\ u.vals = w.vals /\ u.fk = w.fk /\ u.ctx = w.ctx
      /\ u.sel = w.sel /\ u.done = w.done
  BY <1>4 DEF Worlds
<1>. HIDE DEF u
<1>6. InOrder(u) /\ Contents(u) = {} BY <1>4, <1>5, EmptyInOrder DEF c
<1>. QED BY <1>2, <1>4, <1>5, <1>6 DEF Frame

\* A clear empties the table and frees its keys; the values forget their slots.
Cleared(w, u) ==
    /\ u \in Worlds /\ InOrder(u) /\ Contents(u) = {} /\ u.st.n_cached = 0
    /\ Frame(w, u) /\ u.fk.n_copy = w.fk.n_copy /\ u.fk.get = w.fk.get
    /\ u.fk.n_free_key = w.fk.n_free_key + w.st.n_cached
    /\ \A v \in Vals : u.vals[v].tuple_count = w.vals[v].tuple_count
    /\ NoneNamed(w) => NoneNamed(u)

LEMMA ClearInOrder ==
    ASSUME NEW w \in Worlds, w.st.cache \in Tables
    PROVE  Cleared(w, qexec_gby_cache_clear(w))
<1> DEFINE r == qexec_gby_pool_reset(w)
           gone == {w.st.cache[s].value : s \in Occupied(w.st.cache)}
           vals == [v \in Vals |-> IF v \in gone THEN [r.vals[v] EXCEPT !.batch_slot = NoSlot]
                                                 ELSE r.vals[v]]
           fk == [r.fk EXCEPT !.n_free_key = @ + w.st.n_cached]
           u == [r EXCEPT !.vals = vals, !.fk = fk]
<1>1. /\ r \in Worlds /\ InOrder(r) /\ Contents(r) = {} /\ r.st.n_cached = 0
      /\ Frame(w, r) /\ r.vals = w.vals /\ r.fk = w.fk
  BY ResetInOrder
<1>2. w.st.cache # NullCache BY TableFacts
<1>3. qexec_gby_cache_clear(w) = u
  <2>1. qexec_gby_cache_clear(w) = qdata_free_agg_hkey([r EXCEPT !.vals = vals], w.st.n_cached)
    BY <1>2 DEF qexec_gby_cache_clear
  <2>. HIDE DEF r, vals
  <2>. QED BY <1>1, <2>1 DEF qdata_free_agg_hkey, Worlds
<1>. HIDE DEF r, gone
<1>4. w.vals \in Values /\ w.fk \in Fakes /\ w.st.n_cached \in Nat BY DEF Worlds, States
<1>5. /\ vals \in Values
      /\ \A v \in Vals : /\ vals[v].tuple_count = w.vals[v].tuple_count
                         /\ v \in gone => vals[v].batch_slot = NoSlot
                         /\ v \notin gone => vals[v] = w.vals[v]
  BY <1>1, <1>4 DEF Values, NoSlot
<1>6. /\ fk \in Fakes /\ fk.n_free_key = w.fk.n_free_key + w.st.n_cached
      /\ fk.n_copy = w.fk.n_copy /\ fk.get = w.fk.get /\ fk.eval = w.fk.eval
      /\ fk.get_result = w.fk.get_result /\ fk.n_dump = w.fk.n_dump /\ fk.n_sync = w.fk.n_sync
  <2>1. w.fk.n_free_key + w.st.n_cached \in Nat BY <1>4 DEF Fakes
  <2>. QED BY <1>1, <1>4, <2>1 DEF Fakes
<1>. HIDE DEF vals, fk
<1>7. u \in Worlds /\ u.st = r.st /\ u.vals = vals /\ u.fk = fk /\ u.ctx = r.ctx
      /\ u.sel = r.sel /\ u.done = r.done
  BY <1>1, <1>5, <1>6 DEF Worlds
<1>. HIDE DEF u
<1>8. InOrder(u) /\ Contents(u) = {}
  <2>1. u.st.cache \in Tables /\ Occupied(u.st.cache) = {} BY <1>1, <1>7 DEF InOrder, Contents
  <2>2. \A t \in Slots : u.st.cache[t] = Empty BY <2>1, OccupiedFacts
  <2>3. Named(u.st.cache, u.vals) BY <2>2 DEF Named
  <2>. QED BY <1>1, <1>7, <2>3 DEF InOrder, Contents
<1>9. Frame(w, u) BY <1>1, <1>6, <1>7 DEF Frame
<1>10. ASSUME NoneNamed(w), NEW v \in Vals PROVE u.vals[v].batch_slot = NoSlot
  <2>1. CASE v \in gone BY <1>5, <1>7, <2>1
  <2>2. CASE v \notin gone
    <3>1. \A e \in Contents(w) : e.value # v BY <2>2 DEF Contents, gone
    <3>. QED BY <1>5, <1>7, <1>10, <2>2, <3>1 DEF NoneNamed
  <2>. QED BY <2>1, <2>2
<1>11. NoneNamed(w) => NoneNamed(u) BY <1>10 DEF NoneNamed
<1>. QED BY <1>1, <1>3, <1>5, <1>6, <1>7, <1>8, <1>9, <1>11 DEF Cleared

\* World u is w with entry e in slot s.
Placed(w, s, e, u) ==
    /\ u \in Worlds /\ InOrder(u) /\ Frame(w, u) /\ u.fk = w.fk
    /\ Contents(u) = Contents(w) \cup {e} /\ u.st.n_cached = w.st.n_cached + 1
    /\ u.st.cache[s] = e /\ \A t \in Slots : t # s => u.st.cache[t] = w.st.cache[t]
    /\ u.vals[e.value].batch_slot = s
    /\ \A v \in Vals : /\ u.vals[v].tuple_count = w.vals[v].tuple_count
                       /\ v # e.value => u.vals[v] = w.vals[v]
    /\ NoneNamed(w) => NoneNamed(u)

\* An entry goes to a free slot which its probe reaches.
LEMMA PlaceInOrder ==
    ASSUME NEW w \in Worlds, InOrder(w), w.st.n_cached < Half,
           NEW s \in Slots, w.st.cache[s] = Empty, NEW e \in Entries,
           \A u \in Slots : w.st.cache[u] = Empty /\ u # s => Dist(s, Wrap(e.hash)) < Dist(s, u),
           \A x \in Contents(w) : x.bytes # e.bytes /\ x.value # e.value
    PROVE  Placed(w, s, e, PlaceAt(w, s, e))
<1> DEFINE c0 == w.st.cache
           c == [c0 EXCEPT ![s] = e]
           st == [w.st EXCEPT !.cache = c, !.n_cached = @ + 1, !.n_pool_free = @ - 1]
           vals == [w.vals EXCEPT ![e.value].batch_slot = s]
           u == [w EXCEPT !.st = st, !.vals = vals]
<1>1. w.st \in States /\ w.vals \in Values /\ w.st.n_cached \in Nat /\ w.st.n_pool_free \in Nat
  BY DEF Worlds, States
<1>2. PlaceAt(w, s, e) = u
  BY DEF PlaceAt, Worlds, States
<1>3. c0 \in Tables /\ Reached(c0) /\ Named(c0, w.vals) /\ KeysDiffer(c0) BY DEF InOrder
<1>4. e.value \in Vals /\ e # Empty /\ e.bytes \in Nat /\ e.hash \in Nat
  BY EntryFacts DEF Entries
<1>5. c \in Tables /\ c[s] = e /\ \A t \in Slots : t # s => c[t] = c0[t]
  <2>. HIDE DEF c0
  <2>. QED BY <1>3 DEF Tables
<1>. HIDE DEF c0, c
<1>6. /\ st \in States /\ st.cache = c /\ st.n_cached = w.st.n_cached + 1
      /\ st.n_pool_free = w.st.n_pool_free - 1 /\ st.off = w.st.off /\ st.pend = w.st.pend
  <2>1. w.st.n_pool_free - 1 \in Nat /\ w.st.n_cached + 1 \in Nat
    BY <1>1, SizeFacts DEF InOrder
  <2>2. c \in Caches BY <1>5 DEF Caches
  <2>. QED BY <1>1, <2>1, <2>2 DEF States
<1>7. /\ vals \in Values /\ vals[e.value].batch_slot = s
      /\ \A v \in Vals : /\ vals[v].tuple_count = w.vals[v].tuple_count
                         /\ v # e.value => vals[v] = w.vals[v]
  BY <1>1, <1>4 DEF Values
<1>. HIDE DEF st, vals
<1>8. u \in Worlds /\ u.st = st /\ u.vals = vals /\ u.fk = w.fk /\ u.ctx = w.ctx
      /\ u.sel = w.sel /\ u.done = w.done
  BY <1>6, <1>7 DEF Worlds
<1>. HIDE DEF u
<1>9. Frame(w, u) BY <1>6, <1>8 DEF Frame
<1> DEFINE Oc == Occupied(c0)  On == Occupied(c)
<1>10. Oc = {t \in Slots : c0[t] # Empty} /\ On = {t \in Slots : c[t] # Empty} /\ IsFiniteSet(Oc)
  BY <1>3, <1>5, OccupiedFacts
<1>11. Contents(w) = {c0[t] : t \in Oc} /\ Contents(u) = {c[t] : t \in On}
  BY <1>6, <1>8 DEF Contents, c0
<1>12. w.st.n_cached = Cardinality(Oc) BY DEF InOrder, c0
<1>. HIDE DEF Oc, On
<1>13. On = Oc \cup {s} /\ s \notin Oc BY <1>4, <1>5, <1>10 DEF c0
<1>14. Cardinality(On) = Cardinality(Oc) + 1 BY <1>10, <1>13, FS_AddElement
<1>15. Contents(u) = Contents(w) \cup {e}
  <2>1. \A t \in Oc : t \in Slots /\ t # s /\ c[t] = c0[t] BY <1>5, <1>10, <1>13
  <2>2. ASSUME NEW x, x \in Contents(u) PROVE x \in Contents(w) \cup {e}
    <3>1. PICK t \in On : x = c[t] BY <1>11, <2>2
    <3>2. CASE t = s BY <1>5, <3>1, <3>2
    <3>3. CASE t # s BY <1>11, <1>13, <2>1, <3>1, <3>3
    <3>. QED BY <3>2, <3>3
  <2>3. ASSUME NEW x, x \in Contents(w) PROVE x \in Contents(u)
    <3>1. PICK t \in Oc : x = c0[t] BY <1>11, <2>3
    <3>. QED BY <1>11, <1>13, <2>1, <3>1
  <2>4. e \in Contents(u) BY <1>5, <1>11, <1>13
  <2>. QED BY <2>2, <2>3, <2>4
<1>16. \A t \in Slots : c0[t] # Empty => c0[t].bytes # e.bytes /\ c0[t].value # e.value
  BY <1>10, <1>11
<1>17. Reached(c)
  <2>1. ASSUME NEW t \in Slots, NEW x \in Slots, c[t] # Empty, c[x] = Empty
        PROVE  Dist(t, Wrap(c[t].hash)) < Dist(t, x)
    <3>1. x # s /\ c0[x] = Empty BY <1>4, <1>5, <2>1
    <3>2. CASE t = s BY <1>5, <3>1, <3>2 DEF c0
    <3>3. CASE t # s BY <1>3, <1>5, <2>1, <3>1, <3>3 DEF Reached
    <3>. QED BY <3>2, <3>3
  <2>. QED BY <2>1 DEF Reached
<1>18. Named(c, vals)
  <2>1. ASSUME NEW t \in Slots, c[t] # Empty PROVE vals[c[t].value].batch_slot = t
    <3>1. CASE t = s BY <1>5, <1>7, <3>1
    <3>2. CASE t # s
      <4>1. c[t] = c0[t] /\ c0[t].value \in Vals /\ c0[t].value # e.value
        BY <1>3, <1>5, <1>16, <2>1, <3>2, EntryFacts
      <4>. QED BY <1>3, <1>7, <2>1, <4>1 DEF Named
    <3>. QED BY <3>1, <3>2
  <2>. QED BY <2>1 DEF Named
<1>19. KeysDiffer(c)
  BY <1>3, <1>5, <1>16 DEF KeysDiffer
<1>20. InOrder(u)
  <2>1. u.st.n_cached = Cardinality(On) BY <1>6, <1>8, <1>12, <1>14
  <2>2. u.st.n_cached + u.st.n_pool_free = Half
    BY <1>1, <1>6, <1>8, SizeFacts DEF InOrder
  <2>. QED BY <1>5, <1>6, <1>8, <1>17, <1>18, <1>19, <2>1, <2>2 DEF InOrder, On
<1>21. NoneNamed(w) => NoneNamed(u) BY <1>7, <1>8, <1>15 DEF NoneNamed
<1>. QED BY <1>2, <1>5, <1>6, <1>7, <1>8, <1>9, <1>15, <1>20, <1>21 DEF Placed, c0

\* A call of the fake mht_get changes its record only.
LEMMA GetFields ==
    ASSUME NEW w \in Worlds, NEW b \in Nat
    PROVE  LET u == mht_get(w, b)
           IN /\ u \in Worlds /\ u.st = w.st /\ u.vals = w.vals /\ u.ctx = w.ctx /\ u.sel = w.sel
              /\ u.done = w.done /\ u.fk = [w.fk EXCEPT !.get = Append(@, b)] /\ u.fk \in Fakes
              /\ u.fk.get = Append(w.fk.get, b) /\ u.fk.n_copy = w.fk.n_copy
              /\ u.fk.n_free_key = w.fk.n_free_key /\ Frame(w, u)
<1> DEFINE fk == [w.fk EXCEPT !.get = Append(@, b)]  u == [w EXCEPT !.fk = fk]
<1>1. w.fk \in Fakes BY DEF Worlds
<1>2. mht_get(w, b) = u BY DEF mht_get, Worlds
<1>3. Append(w.fk.get, b) \in Seq(Nat) BY <1>1 DEF Fakes
<1>4. /\ fk \in Fakes /\ fk.get = Append(w.fk.get, b) /\ fk.n_copy = w.fk.n_copy
      /\ fk.n_free_key = w.fk.n_free_key /\ fk.eval = w.fk.eval
      /\ fk.get_result = w.fk.get_result /\ fk.n_dump = w.fk.n_dump /\ fk.n_sync = w.fk.n_sync
  BY <1>1, <1>3 DEF Fakes
<1>. HIDE DEF fk
<1>5. u \in Worlds /\ u.st = w.st /\ u.vals = w.vals /\ u.ctx = w.ctx /\ u.sel = w.sel
      /\ u.done = w.done /\ u.fk = fk
  BY <1>4 DEF Worlds
<1>. HIDE DEF u
<1>. QED BY <1>2, <1>4, <1>5 DEF Frame, fk

LEMMA CopyFields ==
    ASSUME NEW w \in Worlds
    PROVE  LET u == qdata_copy_agg_hkey(w)
           IN /\ u \in Worlds /\ u.st = w.st /\ u.vals = w.vals /\ Frame(w, u)
              /\ u.fk.n_copy = w.fk.n_copy + 1 /\ u.fk.n_free_key = w.fk.n_free_key
<1> DEFINE fk == [w.fk EXCEPT !.n_copy = @ + 1]  u == [w EXCEPT !.fk = fk]
<1>1. w.fk \in Fakes /\ w.fk.n_copy + 1 \in Nat BY DEF Worlds, Fakes
<1>2. qdata_copy_agg_hkey(w) = u BY DEF qdata_copy_agg_hkey, Worlds
<1>3. /\ fk \in Fakes /\ fk.n_copy = w.fk.n_copy + 1
      /\ fk.n_free_key = w.fk.n_free_key /\ fk.eval = w.fk.eval
      /\ fk.get_result = w.fk.get_result /\ fk.n_dump = w.fk.n_dump /\ fk.n_sync = w.fk.n_sync
  BY <1>1 DEF Fakes
<1>. HIDE DEF fk
<1>4. u \in Worlds /\ u.st = w.st /\ u.vals = w.vals /\ u.ctx = w.ctx /\ u.sel = w.sel
      /\ u.done = w.done /\ u.fk = fk
  BY <1>3 DEF Worlds
<1>. HIDE DEF u
<1>. QED BY <1>2, <1>3, <1>4 DEF Frame

\* The same table and values are as much in order.
LEMMA SameTable ==
    ASSUME NEW w, NEW u, u.st = w.st, u.vals = w.vals
    PROVE  /\ InOrder(u) <=> InOrder(w)
           /\ Contents(u) = Contents(w) /\ (NoneNamed(u) <=> NoneNamed(w))
BY DEF InOrder, Contents, NoneNamed

\* World u has the entry of b added to w, after a start over if w was full.
Added(w, b, h, g, u) ==
    LET full == w.st.n_cached >= Half
    IN /\ u \in Worlds /\ InOrder(u) /\ NoneNamed(u) /\ Frame(w, u)
       /\ Contents(u) = (IF full THEN {} ELSE Contents(w))
                          \cup {[bytes |-> b, hash |-> h, value |-> g]}
       /\ u.st.n_cached = IF full THEN 1 ELSE w.st.n_cached + 1
       /\ u.fk.n_copy = w.fk.n_copy + 1
       /\ u.fk.n_free_key = w.fk.n_free_key + (IF full THEN w.st.n_cached ELSE 0)

\* The end of an add: a start over if the cache is full, then the new entry.
AddTo(w, b, h, g) ==
    LET room == IF w.st.n_cached >= Half THEN qexec_gby_cache_clear(w) ELSE w
    IN qdata_copy_agg_hkey(
         PlaceAt(room, FirstFree(room.st.cache, h), [bytes |-> b, hash |-> h, value |-> g]))

LEMMA AddToInOrder ==
    ASSUME NEW w \in Worlds, InOrder(w), NoneNamed(w),
           NEW b \in Nat, NEW h \in Nat, NEW g \in Vals,
           \A x \in Contents(w) : x.bytes # b /\ x.value # g
    PROVE  Added(w, b, h, g, AddTo(w, b, h, g))
<1> DEFINE full == w.st.n_cached >= Half
           room == IF full THEN qexec_gby_cache_clear(w) ELSE w
           e == [bytes |-> b, hash |-> h, value |-> g]
           s == FirstFree(room.st.cache, h)
           pl == PlaceAt(room, s, e)
           u == qdata_copy_agg_hkey(pl)
<1>1. w.st.cache \in Tables /\ w.st.n_cached \in Nat /\ w.fk.n_free_key \in Nat
  BY DEF InOrder, Worlds, States, Fakes
<1>2. /\ room \in Worlds /\ InOrder(room) /\ NoneNamed(room) /\ Frame(w, room)
      /\ Contents(room) = IF full THEN {} ELSE Contents(w)
      /\ room.st.n_cached = IF full THEN 0 ELSE w.st.n_cached
      /\ room.fk.n_copy = w.fk.n_copy
      /\ room.fk.n_free_key = w.fk.n_free_key + (IF full THEN w.st.n_cached ELSE 0)
  <2>1. CASE full
    <3>1. Cleared(w, room) BY <1>1, <2>1, ClearInOrder
    <3>. HIDE DEF room
    <3>. QED BY <2>1, <3>1 DEF Cleared
  <2>2. CASE ~full
    <3>1. room = w BY <2>2
    <3>2. Frame(w, w) BY DEF Frame
    <3>. HIDE DEF room
    <3>. QED BY <1>1, <2>2, <3>1, <3>2
  <2>. QED BY <2>1, <2>2
<1>3. room.st.n_cached < Half BY <1>1, <1>2, SizeFacts
<1>4. e \in Entries /\ e.bytes = b /\ e.hash = h /\ e.value = g BY DEF Entries
<1>. HIDE DEF room, e
<1>5. PICK z \in Slots : room.st.cache[z] = Empty BY <1>2, FreeSlot
<1>6. room.st.cache \in Tables BY <1>2 DEF InOrder
<1>7. /\ s \in Slots /\ room.st.cache[s] = Empty
      /\ \A t \in Slots : room.st.cache[t] = Empty /\ t # s => Dist(s, Wrap(e.hash)) < Dist(s, t)
  BY <1>4, <1>5, <1>6, FirstFreeFacts
<1>. HIDE DEF s, full
<1>8. \A x \in Contents(room) : x.bytes # e.bytes /\ x.value # e.value BY <1>2, <1>4
<1>9. Placed(room, s, e, pl) BY <1>2, <1>3, <1>4, <1>7, <1>8, PlaceInOrder
<1>. HIDE DEF pl
<1>10. /\ pl \in Worlds /\ InOrder(pl) /\ Frame(room, pl) /\ pl.fk = room.fk
       /\ Contents(pl) = Contents(room) \cup {e} /\ pl.st.n_cached = room.st.n_cached + 1
       /\ NoneNamed(pl)
  BY <1>2, <1>9 DEF Placed
<1>11. /\ u \in Worlds /\ u.st = pl.st /\ u.vals = pl.vals /\ Frame(pl, u)
       /\ u.fk.n_copy = pl.fk.n_copy + 1 /\ u.fk.n_free_key = pl.fk.n_free_key
  BY <1>10, CopyFields
<1>12. AddTo(w, b, h, g) = u BY DEF AddTo, u, pl, s, room, e, full
<1>. HIDE DEF u
<1>13. InOrder(u) /\ NoneNamed(u) /\ Contents(u) = Contents(pl) BY <1>10, <1>11, SameTable
<1>14. Frame(w, u) BY <1>2, <1>10, <1>11 DEF Frame
<1>15. u.st.n_cached = IF full THEN 1 ELSE w.st.n_cached + 1 BY <1>1, <1>2, <1>10, <1>11
<1>16. Contents(u) = (IF full THEN {} ELSE Contents(w)) \cup {e} BY <1>2, <1>10, <1>13
<1>17. u.fk.n_copy = w.fk.n_copy + 1
       /\ u.fk.n_free_key = w.fk.n_free_key + (IF full THEN w.st.n_cached ELSE 0)
  BY <1>2, <1>10, <1>11
<1>. QED BY <1>11, <1>12, <1>13, <1>14, <1>15, <1>16, <1>17 DEF Added, e, full

\* What an add starts from: the table of the cache, or a new one.
Base(w) == IF w.st.cache = NullCache THEN qexec_gby_pool_reset(w) ELSE w

\* An add for a group without an entry.
LEMMA AddNew ==
    ASSUME NEW w \in Worlds, w.st.cache = NullCache \/ InOrder(w),
           w.st.cache = NullCache => w.st.n_cached = 0, NoneNamed(w),
           NEW b \in Nat, NEW h \in Nat,
           \A x \in Contents(w) : x.bytes # b /\ x.value # w.fk.get_result
    PROVE  Added(w, b, h, w.fk.get_result, qexec_gby_cache_add(w, b, h))
<1> DEFINE r == Base(w)  got == mht_get(r, b)  g == got.fk.get_result
           old == got.vals[g].batch_slot
           one == IF old # NoSlot THEN qexec_gby_cache_remove(got, old) ELSE got
<1>1. /\ r \in Worlds /\ InOrder(r) /\ NoneNamed(r) /\ Contents(r) = Contents(w)
      /\ r.st.n_cached = w.st.n_cached /\ Frame(w, r) /\ r.fk = w.fk
  <2>1. CASE w.st.cache = NullCache
    <3>1. Contents(w) = {} BY <2>1 DEF Contents, Occupied, NullCache
    <3>2. r = qexec_gby_pool_reset(w) BY <2>1 DEF Base
    <3>. HIDE DEF r
    <3>3. /\ r \in Worlds /\ InOrder(r) /\ Contents(r) = {} /\ r.st.n_cached = 0
          /\ Frame(w, r) /\ r.vals = w.vals /\ r.fk = w.fk
      BY <3>2, ResetInOrder
    <3>4. NoneNamed(r) BY <3>1, <3>3 DEF NoneNamed
    <3>. QED BY <2>1, <3>1, <3>3, <3>4
  <2>2. CASE w.st.cache # NullCache
    <3>1. r = w BY <2>2 DEF Base
    <3>2. Frame(w, w) BY DEF Frame
    <3>. QED BY <2>2, <3>1, <3>2
  <2>. QED BY <2>1, <2>2
<1>. HIDE DEF r
<1>2. /\ got \in Worlds /\ got.st = r.st /\ got.vals = r.vals /\ Frame(r, got)
      /\ got.fk.n_copy = r.fk.n_copy /\ got.fk.n_free_key = r.fk.n_free_key
  BY <1>1, GetFields
<1>3. qexec_gby_cache_add(w, b, h) = AddTo(one, b, h, g)
  BY DEF qexec_gby_cache_add, AddTo, r, Base
<1>. HIDE DEF got
<1>4. InOrder(got) /\ NoneNamed(got) /\ Contents(got) = Contents(w) BY <1>1, <1>2, SameTable
<1>5. g = w.fk.get_result /\ g \in Vals BY <1>1, <1>2 DEF Frame, Worlds, Fakes
<1>6. old = NoSlot BY <1>4, <1>5 DEF NoneNamed
<1>7. one = got BY <1>6
<1>. HIDE DEF one, old
<1>8. Added(got, b, h, g, AddTo(got, b, h, g)) BY <1>2, <1>4, <1>5, AddToInOrder
<1> DEFINE u == AddTo(got, b, h, g)
<1>. HIDE DEF u
<1>9. Added(w, b, h, g, u)
  <2>1. got.st.n_cached = w.st.n_cached /\ Frame(w, got) BY <1>1, <1>2 DEF Frame
  <2>2. Frame(w, u) BY <1>8, <2>1 DEF Added, Frame, u
  <2>. QED BY <1>1, <1>2, <1>4, <1>8, <2>1, <2>2 DEF Added, u
<1>. QED BY <1>3, <1>5, <1>7, <1>9 DEF u

\* An add for a group that has an entry under other bytes, the only one.
LEMMA AddAgain ==
    ASSUME NEW w \in Worlds, InOrder(w), NoneNamed(w), NEW b \in Nat, NEW h \in Nat,
           NEW e \in Contents(w), e.value = w.fk.get_result,
           \A x \in Contents(w) : x.bytes # b
    PROVE  LET u == qexec_gby_cache_add(w, b, h)
           IN /\ u \in Worlds /\ InOrder(u) /\ NoneNamed(u) /\ Frame(w, u)
              /\ Contents(u) = (Contents(w) \ {e})
                                 \cup {[bytes |-> b, hash |-> h, value |-> w.fk.get_result]}
              /\ u.st.n_cached = w.st.n_cached
              /\ u.fk.n_copy = w.fk.n_copy + 1 /\ u.fk.n_free_key = w.fk.n_free_key + 1
<1> DEFINE got == mht_get(w, b)  g == got.fk.get_result
           old == got.vals[g].batch_slot
           one == IF old # NoSlot THEN qexec_gby_cache_remove(got, old) ELSE got
           u == AddTo(one, b, h, g)
<1>1. w.st.cache # NullCache BY TableFacts DEF InOrder
<1>2. /\ got \in Worlds /\ got.st = w.st /\ got.vals = w.vals /\ Frame(w, got)
      /\ got.fk.n_copy = w.fk.n_copy /\ got.fk.n_free_key = w.fk.n_free_key
  BY GetFields
<1>3. qexec_gby_cache_add(w, b, h) = u
  BY <1>1 DEF qexec_gby_cache_add, AddTo
<1>. HIDE DEF got
<1>4. InOrder(got) /\ NoneNamed(got) /\ Contents(got) = Contents(w) BY <1>2, SameTable
<1>5. g = w.fk.get_result /\ g \in Vals BY <1>2 DEF Frame, Worlds, Fakes
<1>6. PICK t \in Slots : w.st.cache[t] = e /\ e # Empty /\ w.vals[e.value].batch_slot = t
  BY ContentsFacts
<1>7. old = t /\ t # NoSlot BY <1>2, <1>5, <1>6 DEF Slots, NoSlot
<1>8. one = qexec_gby_cache_remove(got, t) BY <1>7
<1>. HIDE DEF one, old
<1>9. Removed(got, e, one) BY <1>2, <1>4, <1>6, <1>8, RemoveInOrder
<1>10. /\ one \in Worlds /\ InOrder(one) /\ Frame(got, one) /\ Contents(one) = Contents(w) \ {e}
       /\ one.st.n_cached = w.st.n_cached - 1 /\ one.fk.n_copy = w.fk.n_copy
       /\ one.fk.n_free_key = w.fk.n_free_key + 1
  BY <1>2, <1>4, <1>9 DEF Removed
<1>11. NoneNamed(one) BY <1>2, <1>4, <1>9, RemovedNoneNamed
<1>12. \A x \in Contents(one) : x.bytes # b /\ x.value # g
  BY <1>5, <1>10, ContentsFacts
<1>13. Added(one, b, h, g, u) BY <1>5, <1>10, <1>11, <1>12, AddToInOrder
<1>. HIDE DEF u, g
<1>14. w.st.n_cached \in 0 .. Half BY FreeSlot
<1>15. ~(one.st.n_cached >= Half) BY <1>10, <1>14, SizeFacts
<1>16. /\ u \in Worlds /\ InOrder(u) /\ NoneNamed(u) /\ Frame(one, u)
       /\ Contents(u) = (Contents(w) \ {e}) \cup {[bytes |-> b, hash |-> h, value |-> g]}
       /\ u.st.n_cached = one.st.n_cached + 1
       /\ u.fk.n_copy = w.fk.n_copy + 1 /\ u.fk.n_free_key = one.fk.n_free_key + 0
  BY <1>10, <1>13, <1>15 DEF Added
<1>17. Frame(w, u) BY <1>2, <1>10, <1>16 DEF Frame
<1>18. w.fk.n_free_key \in Nat BY DEF Worlds, Fakes
<1>19. u.st.n_cached = w.st.n_cached /\ u.fk.n_free_key = w.fk.n_free_key + 1
  BY <1>10, <1>14, <1>16, <1>18, SizeFacts
<1>. QED BY <1>3, <1>5, <1>16, <1>17, <1>19

------------------------------------------------------------------------------
\* An eviction.

Notes == Seq([value : Vals, slot : Slots])

\* The entries of groups that the first d notes do not name.
NotNoted(w, note, d) == {e \in Contents(w) : \A k \in 1 .. d : note[k].value # e.value}

\* The world after the first d notes.
Dropped(w, note, d, u) ==
    u \in Worlds /\ InOrder(u) /\ Frame(w, u) /\ Contents(u) = NotNoted(w, note, d)

\* Every note tells a different entry of the cache.
AllTold(w, note) ==
    /\ \A k \in 1 .. Len(note) : EntryOf(w.st.cache, note[k].slot, note[k].value)
    /\ \A k, l \in 1 .. Len(note) : note[k].value = note[l].value => k = l

LEMMA DropOne ==
    ASSUME NEW w \in Worlds, InOrder(w), NEW note \in Notes, AllTold(w, note),
           NEW d \in 1 .. Len(note), NEW u, Dropped(w, note, d - 1, u)
    PROVE  Dropped(w, note, d, DropNoted(w, u, note[d]))
<1> DEFINE v == note[d].value  t == note[d].slot  e == w.st.cache[t]
           s == CHOOSE x \in Slots : EntryOf(u.st.cache, x, v)
           r == qexec_gby_cache_remove(u, s)
<1>1. v \in Vals /\ t \in Slots
  <2> DEFINE R == [value : Vals, slot : Slots]
  <2>1. note \in Seq(R) BY DEF Notes
  <2>2. note[d] \in R
    <3>. HIDE DEF R
    <3>. QED BY ONLY <2>1, d \in 1 .. Len(note)
  <2>. QED BY <2>2
<1>2. EntryOf(w.st.cache, t, v) BY DEF AllTold
<1>3. DropNoted(w, u, note[d]) = r BY <1>2 DEF DropNoted
<1>4. e # Empty /\ e.value = v /\ e \in Contents(w) BY <1>1, <1>2, ContentsFacts DEF EntryOf
<1>5. \A k \in 1 .. d - 1 : note[k].value # v
  <2>1. ASSUME NEW k \in 1 .. d - 1 PROVE note[k].value # v
    <3>1. Len(note) \in Nat BY DEF Notes
    <3>2. k \in 1 .. Len(note) /\ k # d BY <3>1
    <3>. QED BY <3>2 DEF AllTold
  <2>. QED BY <2>1
<1>. HIDE DEF e, v, t
<1>6. u \in Worlds /\ InOrder(u) /\ Frame(w, u) /\ Contents(u) = NotNoted(w, note, d - 1)
  BY DEF Dropped
<1>7. e \in Contents(u) BY <1>4, <1>5, <1>6 DEF NotNoted
<1>8. PICK x \in Slots : u.st.cache[x] = e /\ e # Empty BY <1>6, <1>7, ContentsFacts
<1>9. EntryOf(u.st.cache, x, v) BY <1>4, <1>8 DEF EntryOf
<1>10. s \in Slots /\ EntryOf(u.st.cache, s, v) BY <1>9
<1>. HIDE DEF s
<1>11. u.st.cache[s] = e
  <2>1. u.st.cache[s] # Empty /\ u.st.cache[s].value = v BY <1>10 DEF EntryOf
  <2>2. u.st.cache[s] \in Contents(u) BY <1>6, <1>10, <2>1, ContentsFacts
  <2>. QED BY <1>4, <1>6, <1>7, <2>1, <2>2, ContentsFacts
<1>12. Removed(u, e, r) BY <1>6, <1>8, <1>10, <1>11, RemoveInOrder
<1>. HIDE DEF r
<1>13. r \in Worlds /\ InOrder(r) /\ Frame(u, r) /\ Contents(r) = Contents(u) \ {e}
  BY <1>12 DEF Removed
<1>14. Frame(w, r) BY <1>6, <1>13 DEF Frame
<1>15. Contents(r) = NotNoted(w, note, d)
  <2>1. ASSUME NEW y \in Contents(w)
        PROVE  (\A k \in 1 .. d : note[k].value # y.value)
                 <=> (\A k \in 1 .. d - 1 : note[k].value # y.value) /\ y # e
    <3>1. y.value = v <=> y = e BY <1>4, ContentsFacts
    <3>2. \A k \in 1 .. d : k \in 1 .. d - 1 \/ k = d OBVIOUS
    <3>3. \A k \in 1 .. d - 1 : k \in 1 .. d OBVIOUS
    <3>4. d \in 1 .. d OBVIOUS
    <3>. QED BY <3>1, <3>2, <3>3, <3>4 DEF v
  <2>. QED BY <1>6, <1>13, <2>1 DEF NotNoted
<1>. QED BY <1>3, <1>13, <1>14, <1>15 DEF Dropped

LEMMA EvictedInOrder ==
    ASSUME NEW w \in Worlds, InOrder(w), NEW note \in Notes, AllTold(w, note)
    PROVE  Dropped(w, note, Len(note), qexec_gby_cache_evicted(w, note))
<1> DEFINE N == Len(note)
           I == [d \in 0 .. N |-> {u \in Worlds : Dropped(w, note, d, u)}]
           nxt == [q \in Worlds \X (1 .. N) |-> DropNoted(w, q[1], note[q[2]])]
           Is(f) == f = [i \in 0 .. N |-> IF i = 0 THEN w ELSE DropNoted(w, f[i - 1], note[i])]
           drop == CHOOSE f : Is(f)
<1>1. N \in Nat BY DEF Notes
<1>2. I \in [0 .. N -> SUBSET Worlds] OBVIOUS
<1>3. w \in I[0]
  <2>1. Frame(w, w) BY DEF Frame
  <2>2. NotNoted(w, note, 0) = Contents(w) BY DEF NotNoted
  <2>3. Dropped(w, note, 0, w) BY <2>1, <2>2 DEF Dropped
  <2>. QED BY <1>1, <2>3
<1>. HIDE DEF N
<1>4. ASSUME NEW d \in 1 .. N, NEW x \in I[d - 1] PROVE nxt[<<x, d>>] \in I[d]
  <2>1. d - 1 \in 0 .. N /\ d \in 0 .. N BY <1>1
  <2>2. x \in Worlds /\ Dropped(w, note, d - 1, x) BY <2>1
  <2>3. <<x, d>> \in Worlds \X (1 .. N) BY <2>2
  <2>4. nxt[<<x, d>>] = DropNoted(w, x, note[d]) BY <2>3
  <2>5. Dropped(w, note, d, DropNoted(w, x, note[d])) BY <2>2, DropOne DEF N
  <2>6. DropNoted(w, x, note[d]) \in Worlds BY <2>5 DEF Dropped
  <2>. QED BY <2>1, <2>4, <2>5, <2>6
<1>5. PICK f : Iterates(f, N, Worlds, w, nxt) /\ \A d \in 0 .. N : f[d] \in I[d]
  <2>. HIDE DEF I, nxt
  <2>. QED BY <1>1, <1>2, <1>3, <1>4, RecursionWithin
<1>6. ASSUME NEW g, Is(g) PROVE g[N] \in I[N]
  <2>1. \A i \in 0 .. N : g[i] = IF i = 0 THEN w ELSE DropNoted(w, g[i - 1], note[i]) BY <1>6
  <2> DEFINE S == {d \in 0 .. N : g[d] \in I[d]}
  <2>2. 0 \in S BY <1>1, <1>3, <2>1
  <2>3. ASSUME NEW d \in 1 .. N, d - 1 \in S PROVE d \in S
    <3>1. d \in 0 .. N /\ d # 0 /\ g[d - 1] \in I[d - 1] /\ d - 1 \in 0 .. N BY <1>1, <2>3
    <3>2. g[d] = DropNoted(w, g[d - 1], note[d]) BY <2>1, <3>1
    <3>3. g[d - 1] \in Worlds BY <3>1
    <3>4. nxt[<<g[d - 1], d>>] = DropNoted(w, g[d - 1], note[d]) BY <3>3
    <3>5. g[d] \in I[d]
      <4>. HIDE DEF I, nxt
      <4>. QED BY <1>4, <3>1, <3>2, <3>4
    <3>. QED BY <3>1, <3>5
  <2>4. N \in S
    <3>. HIDE DEF S
    <3>1. N \in 0 .. N BY <1>1
    <3>. QED BY <1>1, <2>2, <2>3, <3>1, Induction
  <2>. QED BY <2>4
<1>7. Is(f)
  <2>1. f \in [0 .. N -> Worlds] /\ f[0] = w BY <1>5 DEF Iterates
  <2>2. ASSUME NEW d \in 1 .. N PROVE f[d] = DropNoted(w, f[d - 1], note[d])
    <3>1. f[d - 1] \in Worlds
      <4>1. d - 1 \in 0 .. N BY <1>1
      <4>. QED BY <2>1, <4>1
    <3>3. f[d] = nxt[<<f[d - 1], d>>]
      <4>. HIDE DEF nxt
      <4>. QED BY <1>5 DEF Iterates
    <3>2. <<f[d - 1], d>> \in Worlds \X (1 .. N) BY <3>1
    <3>. QED BY <3>2, <3>3
  <2>. QED BY <1>1, <2>1, <2>2
<1>8. Is(drop)
  <2>. HIDE DEF Is
  <2>. QED BY <1>7
<1>9. qexec_gby_cache_evicted(w, note) = drop[N] BY DEF qexec_gby_cache_evicted, N
<1>10. drop[N] \in I[N]
  <2>. HIDE DEF Is, I, drop
  <2>. QED BY <1>6, <1>8
<1>. HIDE DEF drop
<1>11. Dropped(w, note, N, drop[N]) BY <1>1, <1>10
<1>. QED BY <1>9, <1>11 DEF N

------------------------------------------------------------------------------
\* The flush.

\* A pending row.
LEMMA PendAt ==
    ASSUME NEW p \in Pends, NEW t \in 1 .. Len(p)
    PROVE  p[t].row \in Nat /\ p[t].ent \in Slots
<1> DEFINE R == [row : Nat, ent : Slots]
<1>1. p \in Seq(R) BY DEF Pends
<1>2. p[t] \in R
  <2>. HIDE DEF R
  <2>. QED BY ONLY <1>1, t \in 1 .. Len(p)
<1>. QED BY <1>2

\* The rows of slot s among the first t pending ones, for every t.
RowsUpto(p, s, f) ==
    /\ f \in [0 .. Len(p) -> Seq(Nat)] /\ f[0] = <<>>
    /\ \A t \in 1 .. Len(p) :
         f[t] = IF p[t].ent = s THEN Append(f[t - 1], p[t].row) ELSE f[t - 1]

LEMMA RowsOfAt ==
    ASSUME NEW p \in Pends, NEW s
    PROVE  \E f : RowsUpto(p, s, f) /\ RowsOf(p, s) = f[Len(p)]
<1> DEFINE N == Len(p)
           nx(x, t) == IF p[t].ent = s THEN Append(x, p[t].row) ELSE x
           nxt == [q \in Seq(Nat) \X (1 .. N) |-> nx(q[1], q[2])]
           none == <<>>
           Is(f) == f = [t \in 0 .. N |-> IF t = 0 THEN none ELSE nx(f[t - 1], t)]
           rows == CHOOSE f : Is(f)
<1>1. N \in Nat BY DEF Pends
<1>2. ASSUME NEW x \in Seq(Nat), NEW t \in 1 .. N PROVE nx(x, t) \in Seq(Nat)
  <2>1. p[t].row \in Nat BY PendAt
  <2>. QED BY <2>1
<1>3. nxt \in [Seq(Nat) \X (1 .. N) -> Seq(Nat)]
  <2>. HIDE DEF nx
  <2>. QED BY <1>2
<1>4. RowsOf(p, s) = rows[N] BY DEF RowsOf
<1>. HIDE DEF N
<1>5. PICK f : Iterates(f, N, Seq(Nat), <<>>, nxt)
  <2> DEFINE X == Seq(Nat)  a == <<>>
  <2>1. a \in X OBVIOUS
  <2>2. nxt \in [X \X (1 .. N) -> X] BY <1>3
  <2>3. \E f : Iterates(f, N, X, a, nxt)
    <3>. HIDE DEF nxt, X, a
    <3>. QED BY <1>1, <2>1, <2>2, Recursion
  <2>. QED BY <2>3
<1>6. f \in [0 .. N -> Seq(Nat)] /\ f[0] = <<>> BY <1>5 DEF Iterates
<1>7. ASSUME NEW t \in 1 .. N PROVE f[t] = nx(f[t - 1], t)
  <2>1. f[t - 1] \in Seq(Nat) BY <1>1, <1>6
  <2>2. f[t] = nxt[<<f[t - 1], t>>]
    <3>. HIDE DEF nxt
    <3>. QED BY <1>5 DEF Iterates
  <2>3. <<f[t - 1], t>> \in Seq(Nat) \X (1 .. N) BY <2>1
  <2>. HIDE DEF nx
  <2>. QED BY <2>2, <2>3
<1>8. none \in Seq(Nat) OBVIOUS
<1>. HIDE DEF nx, none
<1>16. Is(f)
  <2>1. \A t \in 0 .. N : f[t] = IF t = 0 THEN none ELSE nx(f[t - 1], t)
    BY <1>1, <1>6, <1>7 DEF none
  <2>. QED BY <1>6, <2>1
<1>9. Is(rows)
  <2>. HIDE DEF Is
  <2>. QED BY <1>16
<1>. HIDE DEF rows
<1>10. rows[0] = none /\ \A t \in 1 .. N : rows[t] = nx(rows[t - 1], t) BY <1>1, <1>9
<1> DEFINE S == {t \in 0 .. N : rows[t] \in Seq(Nat)}
<1>11. 0 \in S BY <1>1, <1>8, <1>10
<1>12. ASSUME NEW t \in 1 .. N, t - 1 \in S PROVE t \in S
  <2>1. rows[t - 1] \in Seq(Nat) BY <1>12
  <2>2. nx(rows[t - 1], t) \in Seq(Nat) BY <1>2, <2>1
  <2>3. rows[t] = nx(rows[t - 1], t) BY <1>10
  <2>. QED BY <1>1, <2>2, <2>3
<1>13. \A t \in 0 .. N : t \in S
  <2>. HIDE DEF S
  <2>. QED BY <1>1, <1>11, <1>12, Induction
<1>14. rows \in [0 .. N -> Seq(Nat)]
  <2>1. \A t \in 0 .. N : rows[t] \in Seq(Nat) BY <1>13
  <2>2. rows = [t \in 0 .. N |-> rows[t]] BY <1>9
  <2>. QED BY <2>1, <2>2
<1>15. RowsUpto(p, s, rows)
  <2>1. \A t \in 1 .. N : rows[t] = IF p[t].ent = s THEN Append(rows[t - 1], p[t].row) ELSE rows[t - 1]
    BY <1>10 DEF nx
  <2>. QED BY <1>10, <1>14, <2>1 DEF RowsUpto, N, none
<1>. QED BY <1>4, <1>15 DEF N

\* The rows of a slot with pending rows begin with the first of them.
LEMMA RowsOfFirst ==
    ASSUME NEW p \in Pends, NEW m \in 1 .. Len(p), FirstOfGroup(p, m)
    PROVE  /\ RowsOf(p, p[m].ent) \in Seq(Nat) /\ RowsOf(p, p[m].ent) # <<>>
           /\ RowsOf(p, p[m].ent)[1] = p[m].row
<1> DEFINE N == Len(p)  s == p[m].ent
<1>1. N \in Nat BY DEF Pends
<1>. HIDE DEF N
<1>2. PICK f : RowsUpto(p, s, f) /\ RowsOf(p, s) = f[N] BY RowsOfAt DEF N
<1>3. f \in [0 .. N -> Seq(Nat)] /\ f[0] = <<>> BY <1>2 DEF RowsUpto, N
<1>4. \A t \in 1 .. N : f[t] = IF p[t].ent = s THEN Append(f[t - 1], p[t].row) ELSE f[t - 1]
  BY <1>2 DEF RowsUpto, N
<1>5. m \in 1 .. N /\ p[m].row \in Nat BY PendAt DEF N
<1> DEFINE S == {t \in 0 .. N : /\ t < m => f[t] = <<>>
                                /\ t >= m => f[t] # <<>> /\ f[t][1] = p[m].row}
<1>6. 0 \in S BY <1>1, <1>3, <1>5
<1>7. ASSUME NEW t \in 1 .. N, t - 1 \in S PROVE t \in S
  <2>1. t - 1 \in 0 .. N /\ t \in 0 .. N /\ f[t - 1] \in Seq(Nat) BY <1>1, <1>3
  <2>2. f[t] = IF p[t].ent = s THEN Append(f[t - 1], p[t].row) ELSE f[t - 1] BY <1>4
  <2>3. p[t].row \in Nat BY PendAt DEF N
  <2>4. CASE t < m
    <3>1. p[t].ent # s BY <2>4, <1>5 DEF FirstOfGroup
    <3>2. t - 1 < m BY <2>4, <1>5
    <3>3. f[t - 1] = <<>> BY <1>7, <3>2
    <3>. QED BY <2>1, <2>2, <2>4, <3>1, <3>3, <1>5
  <2>5. CASE t = m
    <3>1. t - 1 < m BY <2>5, <1>5
    <3>2. f[t - 1] = <<>> BY <1>7, <3>1
    <3>3. f[t] = Append(<<>>, p[m].row) BY <2>2, <2>5, <3>2
    <3>4. f[t] # <<>> /\ f[t][1] = p[m].row BY <3>3, <1>5
    <3>. QED BY <2>1, <2>5, <3>4, <1>5
  <2>6. CASE t > m
    <3>1. t - 1 >= m BY <2>6, <1>5
    <3>2. f[t - 1] # <<>> /\ f[t - 1][1] = p[m].row BY <1>7, <3>1
    <3>3. f[t] # <<>> /\ f[t][1] = p[m].row
      <4>1. CASE p[t].ent = s
        <5>1. f[t] = Append(f[t - 1], p[t].row) BY <2>2, <4>1
        <5>2. Len(f[t - 1]) >= 1 BY <2>1, <3>2
        <5>. QED BY <2>1, <2>3, <3>2, <5>1, <5>2
      <4>2. CASE p[t].ent # s BY <2>2, <3>2, <4>2
      <4>. QED BY <4>1, <4>2
    <3>. QED BY <2>1, <2>6, <3>3, <1>5
  <2>. QED BY <2>4, <2>5, <2>6, <1>5
<1>8. N \in S
  <2>1. N \in 0 .. N BY <1>1
  <2>. HIDE DEF S
  <2>. QED BY <1>1, <1>6, <1>7, <2>1, Induction
<1>9. f[N] \in Seq(Nat) /\ f[N] # <<>> /\ f[N][1] = p[m].row BY <1>1, <1>3, <1>5, <1>8
<1>. QED BY <1>2, <1>9

\* pos lists the numbers of T in increasing order.
Listed(pos, T) ==
    /\ pos \in Seq(Nat)
    /\ \A k \in 1 .. Len(pos) : pos[k] \in T
    /\ \A x \in T : \E k \in 1 .. Len(pos) : pos[k] = x
    /\ \A k, l \in 1 .. Len(pos) : k < l => pos[k] < pos[l]

LEMMA ListedNext ==
    ASSUME NEW pos, NEW T, Listed(pos, T), NEW t \in Nat, \A x \in T : x < t
    PROVE  Listed(Append(pos, t), T \cup {t})
<1> DEFINE n == Len(pos)  q == Append(pos, t)
<1>1. pos \in Seq(Nat) /\ n \in Nat BY DEF Listed
<1>2. q \in Seq(Nat) /\ Len(q) = n + 1 /\ q[n + 1] = t /\ \A k \in 1 .. n : q[k] = pos[k]
  BY <1>1
<1>. HIDE DEF q
<1>3. \A k \in 1 .. n + 1 : k \in 1 .. n \/ k = n + 1 BY <1>1
<1>4. \A k \in 1 .. n + 1 : q[k] \in T \cup {t} BY <1>2, <1>3 DEF Listed
<1>5. ASSUME NEW x \in T \cup {t} PROVE \E k \in 1 .. n + 1 : q[k] = x
  <2>1. CASE x = t
    <3>1. n + 1 \in 1 .. n + 1 BY <1>1
    <3>. QED BY <1>2, <2>1, <3>1
  <2>2. CASE x \in T
    <3>1. PICK k \in 1 .. n : pos[k] = x BY <2>2 DEF Listed
    <3>2. k \in 1 .. n + 1 BY <1>1
    <3>. QED BY <1>2, <3>1, <3>2
  <2>. QED BY <2>1, <2>2
<1>6. ASSUME NEW k \in 1 .. n + 1, NEW l \in 1 .. n + 1, k < l PROVE q[k] < q[l]
  <2>1. k \in 1 .. n BY <1>1, <1>6
  <2>2. CASE l = n + 1 BY <1>2, <2>1, <2>2 DEF Listed
  <2>3. CASE l # n + 1
    <3>1. l \in 1 .. n BY <1>1, <2>3
    <3>. QED BY <1>2, <1>6, <2>1, <3>1 DEF Listed
  <2>. QED BY <2>2, <2>3
<1>. QED BY <1>2, <1>4, <1>5, <1>6 DEF Listed, q

\* The group of pending row t, and the first and the last rows of groups up to t.
GroupAt(w, p, t) == w.st.cache[p[t].ent].value
Firsts(p, t) == {x \in 1 .. t : FirstOfGroup(p, x)}
Lasts(p, t) == {x \in 1 .. t : LastOfGroup(p, x)}

\* Every pending row is of an entry of the cache.
PendsCached(w, p) == p \in Pends /\ \A t \in 1 .. Len(p) : w.st.cache[p[t].ent] # Empty

\* The call for the group of pending row x.
CallFor(w, p, x) == [group |-> GroupAt(w, p, x), sel |-> RowsOf(p, p[x].ent)]

\* The groups of the first t rows have had their batch call.
Evaluated(w, p, t, u) ==
    /\ u \in Worlds /\ u.st = w.st /\ u.ctx = w.ctx /\ u.done = w.done
    /\ u.fk.get = w.fk.get /\ u.fk.get_result = w.fk.get_result
    /\ u.fk.n_dump = w.fk.n_dump /\ u.fk.n_sync = w.fk.n_sync
    /\ u.fk.n_copy = w.fk.n_copy /\ u.fk.n_free_key = w.fk.n_free_key
    /\ \A v \in Vals :
         /\ u.vals[v].batch_slot = w.vals[v].batch_slot
         /\ u.vals[v].tuple_count =
              w.vals[v].tuple_count + (IF \E x \in 1 .. t : GroupAt(w, p, x) = v
                                       THEN Len(RowsOf(p, w.vals[v].batch_slot)) ELSE 0)
    /\ \E pos : /\ Listed(pos, Firsts(p, t)) /\ Len(u.fk.eval) = Len(pos)
                /\ \A k \in 1 .. Len(pos) : u.fk.eval[k] = CallFor(w, p, pos[k])

\* From w to u one batch call was made, with the rows of slot s for group g.
Called(w, p, s, g, u) ==
    /\ u \in Worlds /\ u.st = w.st /\ u.ctx = w.ctx /\ u.done = w.done
    /\ u.fk.get = w.fk.get /\ u.fk.get_result = w.fk.get_result
    /\ u.fk.n_dump = w.fk.n_dump /\ u.fk.n_sync = w.fk.n_sync
    /\ u.fk.n_copy = w.fk.n_copy /\ u.fk.n_free_key = w.fk.n_free_key
    /\ u.fk.eval = Append(w.fk.eval, [group |-> g, sel |-> RowsOf(p, s)])
    /\ \A v \in Vals : v # g => u.vals[v] = w.vals[v]
    /\ u.vals[g].batch_slot = w.vals[g].batch_slot
    /\ u.vals[g].tuple_count = w.vals[g].tuple_count + Len(RowsOf(p, s))

\* The fields a batch call changes.
LEMMA EvalGroupFields ==
    ASSUME NEW w \in Worlds, NEW p, NEW s, w.st.cache[s].value \in Vals,
           RowsOf(p, s) \in Seq(Nat)
    PROVE  Called(w, p, s, w.st.cache[s].value, EvalGroup(w, p, s))
<1> DEFINE g == w.st.cache[s].value  r == RowsOf(p, s)
           call == [group |-> g, sel |-> r]
           vals == [w.vals EXCEPT ![g].tuple_count = @ + Len(r)]
           fk == [w.fk EXCEPT !.eval = Append(@, call)]
           u == [w EXCEPT !.sel = r, !.vals = vals, !.fk = fk]
<1>1. EvalGroup(w, p, s) = u
  BY DEF EvalGroup, qdata_evaluate_aggregate_batch, Worlds
<1>2. w.vals \in Values /\ w.fk \in Fakes BY DEF Worlds
<1>3. r \in Seq(Int) /\ Len(r) \in Nat OBVIOUS
<1>. HIDE DEF g, r
<1>4. call \in [group : Vals, sel : Seq(Int)] BY <1>3 DEF g
<1>5. Append(w.fk.eval, call) \in Evals BY <1>2, <1>4 DEF Fakes, Evals
<1>. HIDE DEF call
<1>6. /\ vals \in Values /\ \A v \in Vals : v # g => vals[v] = w.vals[v]
      /\ vals[g].batch_slot = w.vals[g].batch_slot
      /\ vals[g].tuple_count = w.vals[g].tuple_count + Len(r)
  <2>1. g \in Vals BY DEF g
  <2>2. w.vals[g].tuple_count + Len(r) \in Nat BY <1>2, <1>3, <2>1 DEF Values
  <2>. QED BY <1>2, <2>1, <2>2 DEF Values
<1>7. /\ fk \in Fakes /\ fk.eval = Append(w.fk.eval, call)
      /\ fk.get = w.fk.get /\ fk.get_result = w.fk.get_result
      /\ fk.n_dump = w.fk.n_dump /\ fk.n_sync = w.fk.n_sync
      /\ fk.n_copy = w.fk.n_copy /\ fk.n_free_key = w.fk.n_free_key
  BY <1>2, <1>5 DEF Fakes
<1>. HIDE DEF vals, fk
<1>8. u \in Worlds /\ u.st = w.st /\ u.ctx = w.ctx /\ u.done = w.done /\ u.fk = fk /\ u.vals = vals
  BY <1>3, <1>6, <1>7 DEF Worlds
<1>. HIDE DEF u
<1>. QED BY <1>1, <1>6, <1>7, <1>8 DEF g, r, call, Called

\* The first rows of groups up to the next row.
LEMMA FirstsNext ==
    ASSUME NEW p, NEW t \in Nat \ {0}
    PROVE  Firsts(p, t) = IF FirstOfGroup(p, t) THEN Firsts(p, t - 1) \cup {t} ELSE Firsts(p, t - 1)
<1>1. \A x : x \in 1 .. t <=> x \in 1 .. t - 1 \/ x = t OBVIOUS
<1>. QED BY <1>1 DEF Firsts

LEMMA EvaluatedNext ==
    ASSUME NEW w \in Worlds, InOrder(w), NEW p, PendsCached(w, p), NEW t \in 1 .. Len(p), NEW u,
           Evaluated(w, p, t - 1, u)
    PROVE  Evaluated(w, p, t, IF FirstOfGroup(p, t) THEN EvalGroup(u, p, p[t].ent) ELSE u)
<1> DEFINE s == p[t].ent  g == w.st.cache[s].value
           Had(v, m) == \E x \in 1 .. m : GroupAt(w, p, x) = v
<1>0. p \in Pends BY DEF PendsCached
<1>1. Len(p) \in Nat /\ t \in Nat \ {0} /\ s \in Slots
  <2>1. Len(p) \in Nat BY <1>0 DEF Pends
  <2>2. t \in Nat \ {0} BY <2>1
  <2>3. s \in Slots BY <1>0, PendAt
  <2>. QED BY <2>1, <2>2, <2>3
<1>2. w.st.cache[s] # Empty /\ g \in Vals
  <2>1. w.st.cache \in Tables BY DEF InOrder
  <2>. QED BY <1>1, <2>1, EntryFacts DEF PendsCached
<1>3. w.vals[g].batch_slot = s BY <1>1, <1>2 DEF InOrder, Named
<1>4. \A x \in 1 .. t : x \in 1 .. t - 1 \/ x = t BY <1>1
<1>5. \A x \in 1 .. t - 1 : x \in 1 .. t /\ x \in 1 .. Len(p) BY <1>1
<1>6. g = GroupAt(w, p, t) BY DEF GroupAt
<1>7. \A x \in 1 .. t - 1 : GroupAt(w, p, x) = g <=> p[x].ent = s
  <2>1. ASSUME NEW x \in 1 .. t - 1, GroupAt(w, p, x) = g PROVE p[x].ent = s
    <3>1. x \in 1 .. Len(p) /\ p \in Pends BY <1>5 DEF PendsCached
    <3>2. p[x].ent \in Slots /\ w.st.cache[p[x].ent] # Empty BY <3>1, PendAt DEF PendsCached
    <3>3. w.vals[GroupAt(w, p, x)].batch_slot = p[x].ent BY <3>2 DEF InOrder, Named, GroupAt
    <3>. QED BY <1>3, <2>1, <3>3
  <2>. QED BY <2>1 DEF GroupAt
<1>8. \A v : Had(v, t) <=> Had(v, t - 1) \/ v = g
  <2>1. t \in 1 .. t BY <1>1
  <2>. QED BY <1>4, <1>5, <1>6, <2>1
<1>9. CASE FirstOfGroup(p, t)
  <2> DEFINE r == EvalGroup(u, p, s)
  <2>1. RowsOf(p, s) \in Seq(Nat) BY <1>9, RowsOfFirst DEF PendsCached
  <2>2. u \in Worlds /\ u.st = w.st BY DEF Evaluated
  <2>3. Called(u, p, s, g, r)
    <3>1. u.st.cache[s].value = g /\ u.st.cache[s].value \in Vals BY <1>2, <2>2
    <3>2. Called(u, p, s, u.st.cache[s].value, EvalGroup(u, p, s))
      BY <2>1, <2>2, <3>1, EvalGroupFields
    <3>. QED BY <3>1, <3>2
  <2>. HIDE DEF r
  <2>4. ~Had(g, t - 1) BY <1>7, <1>9 DEF FirstOfGroup
  <2>5. ASSUME NEW v \in Vals
        PROVE  /\ r.vals[v].batch_slot = w.vals[v].batch_slot
               /\ r.vals[v].tuple_count =
                    w.vals[v].tuple_count + (IF Had(v, t) THEN Len(RowsOf(p, w.vals[v].batch_slot)) ELSE 0)
    <3>0. /\ u.vals[v].batch_slot = w.vals[v].batch_slot
          /\ u.vals[v].tuple_count =
               w.vals[v].tuple_count + (IF Had(v, t - 1) THEN Len(RowsOf(p, w.vals[v].batch_slot)) ELSE 0)
      BY DEF Evaluated
    <3>1. CASE v = g
      <4>1. w.vals[v].tuple_count \in Nat BY DEF Worlds, Values
      <4>0. ~Had(v, t - 1) BY <2>4, <3>1
      <4>2. u.vals[v].tuple_count = w.vals[v].tuple_count
        <5>. HIDE DEF Had
        <5>1. u.vals[v].tuple_count = w.vals[v].tuple_count + 0 BY <4>0, <3>0
        <5>. QED BY <4>1, <5>1
      <4>. QED BY <1>3, <1>8, <2>3, <3>0, <3>1, <4>2 DEF Called
    <3>2. CASE v # g
      <4>1. Had(v, t) <=> Had(v, t - 1) BY <1>8, <3>2
      <4>. HIDE DEF Had
      <4>. QED BY <2>3, <3>0, <3>2, <4>1 DEF Called
    <3>. QED BY <3>1, <3>2
  <2>6. PICK pos : /\ Listed(pos, Firsts(p, t - 1)) /\ Len(u.fk.eval) = Len(pos)
                   /\ \A k \in 1 .. Len(pos) : u.fk.eval[k] = CallFor(w, p, pos[k])
    BY DEF Evaluated
  <2> DEFINE q == Append(pos, t)
  <2>7. Listed(q, Firsts(p, t))
    <3>1. \A x \in Firsts(p, t - 1) : x < t BY <1>1 DEF Firsts
    <3>2. Firsts(p, t) = Firsts(p, t - 1) \cup {t} BY <1>1, <1>9, FirstsNext
    <3>. QED BY <1>1, <2>6, <3>1, <3>2, ListedNext
  <2>8. Len(r.fk.eval) = Len(q) /\ \A k \in 1 .. Len(q) : r.fk.eval[k] = CallFor(w, p, q[k])
    <3> DEFINE n == Len(pos)  call == [group |-> g, sel |-> RowsOf(p, s)]
    <3>1. n \in Nat /\ pos \in Seq(Nat) BY <2>6 DEF Listed
    <3>2. Len(q) = n + 1 /\ q[n + 1] = t /\ \A k \in 1 .. n : q[k] = pos[k] BY <1>1, <3>1
    <3>3. u.fk.eval \in Evals BY <2>2 DEF Worlds, Fakes
    <3>4. call = CallFor(w, p, t) BY <1>6 DEF CallFor
    <3>. HIDE DEF call, q
    <3>5. Len(r.fk.eval) = n + 1 /\ r.fk.eval[n + 1] = call
          /\ \A k \in 1 .. n : r.fk.eval[k] = u.fk.eval[k]
      <4>1. r.fk.eval = Append(u.fk.eval, call) BY <2>3 DEF call, Called
      <4>. QED BY <2>6, <3>1, <3>3, <4>1 DEF Evals
    <3>6. \A k \in 1 .. n + 1 : k \in 1 .. n \/ k = n + 1 BY <3>1
    <3>. QED BY <2>6, <3>2, <3>4, <3>5, <3>6
  <2>9. Evaluated(w, p, t, r)
    <3>. HIDE DEF q
    <3>. QED BY <2>3, <2>5, <2>7, <2>8 DEF Evaluated, Called
  <2>. QED BY <1>9, <2>9 DEF r
<1>10. CASE ~FirstOfGroup(p, t)
  <2>1. Had(g, t - 1) BY <1>7, <1>10 DEF FirstOfGroup
  <2>2. \A v : Had(v, t) <=> Had(v, t - 1) BY <1>8, <2>1
  <2>3. Firsts(p, t) = Firsts(p, t - 1) BY <1>1, <1>10, FirstsNext
  <2>4. \A v \in Vals : /\ u.vals[v].batch_slot = w.vals[v].batch_slot
                        /\ u.vals[v].tuple_count = w.vals[v].tuple_count
                             + (IF Had(v, t - 1) THEN Len(RowsOf(p, w.vals[v].batch_slot)) ELSE 0)
    BY DEF Evaluated
  <2>5. \A v \in Vals : /\ u.vals[v].batch_slot = w.vals[v].batch_slot
                        /\ u.vals[v].tuple_count = w.vals[v].tuple_count
                             + (IF Had(v, t) THEN Len(RowsOf(p, w.vals[v].batch_slot)) ELSE 0)
    <3>. HIDE DEF Had
    <3>. QED BY <2>2, <2>4
  <2>6. Evaluated(w, p, t, u) BY <2>3, <2>5 DEF Evaluated
  <2>. QED BY <1>10, <2>6
<1>. QED BY <1>9, <1>10

LEMMA EvalGroupsFacts ==
    ASSUME NEW w \in Worlds, InOrder(w), NEW p, PendsCached(w, p), w.fk.eval = <<>>
    PROVE  Evaluated(w, p, Len(p), EvalGroups(w, p))
<1> DEFINE N == Len(p)
           nx(u, t) == IF FirstOfGroup(p, t) THEN EvalGroup(u, p, p[t].ent) ELSE u
           I == [d \in 0 .. N |-> {u \in Worlds : Evaluated(w, p, d, u)}]
           nxt == [q \in Worlds \X (1 .. N) |-> nx(q[1], q[2])]
           Is(f) == f = [t \in 0 .. N |-> IF t = 0 THEN w ELSE nx(f[t - 1], t)]
           eval == CHOOSE f : Is(f)
<1>1. N \in Nat BY DEF PendsCached, Pends
<1>2. I \in [0 .. N -> SUBSET Worlds] OBVIOUS
<1>3. EvalGroups(w, p) = eval[N] BY DEF EvalGroups
<1>4. Evaluated(w, p, 0, w)
  <2>1. Listed(<<>>, {}) BY DEF Listed
  <2>2. Firsts(p, 0) = {} BY DEF Firsts
  <2>3. \A v \in Vals : w.vals[v].tuple_count + 0 = w.vals[v].tuple_count BY DEF Worlds, Values
  <2>4. \A v : ~\E x \in 1 .. 0 : GroupAt(w, p, x) = v OBVIOUS
  <2>5. \E pos : /\ Listed(pos, Firsts(p, 0)) /\ Len(w.fk.eval) = Len(pos)
                 /\ \A k \in 1 .. Len(pos) : w.fk.eval[k] = CallFor(w, p, pos[k])
    <3> DEFINE none == <<>>
    <3>1. Listed(none, Firsts(p, 0)) BY <2>1, <2>2
    <3>2. Len(w.fk.eval) = Len(none) OBVIOUS
    <3>3. 1 .. Len(none) = {} OBVIOUS
    <3>. HIDE DEF none
    <3>4. \A k \in 1 .. Len(none) : w.fk.eval[k] = CallFor(w, p, none[k]) BY <3>3
    <3>. QED BY <3>1, <3>2, <3>4
  <2>. QED BY <2>3, <2>4, <2>5 DEF Evaluated
<1>5. w \in I[0] BY <1>1, <1>4
<1>. HIDE DEF N
<1>6. ASSUME NEW d \in 1 .. N, NEW x \in I[d - 1] PROVE nx(x, d) \in I[d]
  <2>1. d - 1 \in 0 .. N /\ d \in 0 .. N BY <1>1
  <2>2. Evaluated(w, p, d - 1, x) BY <2>1
  <2>3. Evaluated(w, p, d, nx(x, d)) BY <2>2, EvaluatedNext DEF N
  <2>4. nx(x, d) \in Worlds BY <2>3 DEF Evaluated
  <2>. HIDE DEF nx
  <2>. QED BY <2>1, <2>3, <2>4
<1>. HIDE DEF nx
<1>7. ASSUME NEW d \in 1 .. N, NEW x \in I[d - 1] PROVE nxt[<<x, d>>] = nx(x, d)
  <2>1. x \in Worlds BY <1>1
  <2>. QED BY <2>1
<1>8. PICK f : Iterates(f, N, Worlds, w, nxt) /\ \A d \in 0 .. N : f[d] \in I[d]
  <2>1. \A d \in 1 .. N : \A x \in I[d - 1] : nxt[<<x, d>>] \in I[d] BY <1>6, <1>7
  <2>. HIDE DEF I, nxt
  <2>. QED BY <1>1, <1>2, <1>5, <2>1, RecursionWithin
<1>9. Is(f)
  <2>1. f \in [0 .. N -> Worlds] /\ f[0] = w BY <1>8 DEF Iterates
  <2>2. ASSUME NEW d \in 1 .. N PROVE f[d] = nx(f[d - 1], d)
    <3>. HIDE DEF nxt, I
    <3>1. d - 1 \in 0 .. N BY <1>1
    <3>2. f[d - 1] \in I[d - 1] BY <1>8, <3>1
    <3>3. f[d] = nxt[<<f[d - 1], d>>] BY <1>8 DEF Iterates
    <3>. QED BY <1>7, <3>2, <3>3
  <2>. QED BY <1>1, <2>1, <2>2
<1>10. Is(eval)
  <2>. HIDE DEF Is
  <2>. QED BY <1>9
<1>. HIDE DEF eval
<1> DEFINE S == {d \in 0 .. N : eval[d] \in I[d]}
<1>11. \A t \in 0 .. N : eval[t] = IF t = 0 THEN w ELSE nx(eval[t - 1], t) BY <1>10
<1>. HIDE DEF I
<1>12. 0 \in S BY <1>1, <1>5, <1>11
<1>13. ASSUME NEW d \in 1 .. N, d - 1 \in S PROVE d \in S
  <2>1. d \in 0 .. N /\ d # 0 /\ eval[d - 1] \in I[d - 1] BY <1>1, <1>13
  <2>2. eval[d] = nx(eval[d - 1], d) BY <1>11, <2>1
  <2>. QED BY <1>6, <2>1, <2>2
<1>14. N \in S
  <2>1. N \in 0 .. N BY <1>1
  <2>. HIDE DEF S
  <2>. QED BY <1>1, <1>12, <1>13, <2>1, Induction
<1>15. eval[N] \in I[N] BY <1>14
<1>16. Evaluated(w, p, N, eval[N]) BY <1>1, <1>15 DEF I
<1>. QED BY <1>3, <1>16 DEF N

\* The groups whose last row is among the first t rows have been touched.
Touched(w, p, t, u) ==
    /\ u \in Worlds /\ u.st = w.st /\ u.vals = w.vals /\ Frame(w, u)
    /\ u.fk.n_copy = w.fk.n_copy /\ u.fk.n_free_key = w.fk.n_free_key
    /\ \E pos : /\ Listed(pos, Lasts(p, t)) /\ Len(u.fk.get) = Len(pos)
                /\ \A k \in 1 .. Len(pos) : u.fk.get[k] = w.st.cache[p[pos[k]].ent].bytes

\* The last rows of groups up to the next row.
LEMMA LastsNext ==
    ASSUME NEW p, NEW t \in Nat \ {0}
    PROVE  Lasts(p, t) = IF LastOfGroup(p, t) THEN Lasts(p, t - 1) \cup {t} ELSE Lasts(p, t - 1)
<1>1. \A x : x \in 1 .. t <=> x \in 1 .. t - 1 \/ x = t OBVIOUS
<1>. QED BY <1>1 DEF Lasts

LEMMA TouchedNext ==
    ASSUME NEW w \in Worlds, InOrder(w), NEW p, PendsCached(w, p), NEW t \in 1 .. Len(p), NEW u,
           Touched(w, p, t - 1, u)
    PROVE  Touched(w, p, t, IF LastOfGroup(p, t) THEN mht_get(u, w.st.cache[p[t].ent].bytes) ELSE u)
<1> DEFINE s == p[t].ent  b == w.st.cache[s].bytes
<1>0. p \in Pends BY DEF PendsCached
<1>1. Len(p) \in Nat /\ t \in Nat \ {0} /\ s \in Slots
  <2>1. Len(p) \in Nat BY <1>0 DEF Pends
  <2>2. t \in Nat \ {0} BY <2>1
  <2>3. s \in Slots BY <1>0, PendAt
  <2>. QED BY <2>1, <2>2, <2>3
<1>2. b \in Nat
  <2>1. w.st.cache \in Tables BY DEF InOrder
  <2>. QED BY <1>1, <2>1, EntryFacts DEF PendsCached
<1>3. CASE LastOfGroup(p, t)
  <2> DEFINE r == mht_get(u, b)
  <2>1. u \in Worlds /\ u.st = w.st BY DEF Touched
  <2>2. /\ r \in Worlds /\ r.st = u.st /\ r.vals = u.vals /\ Frame(u, r)
        /\ r.fk.n_copy = u.fk.n_copy /\ r.fk.n_free_key = u.fk.n_free_key
        /\ r.fk.get = Append(u.fk.get, b)
    <3>. HIDE DEF b
    <3>. QED BY <1>2, <2>1, GetFields
  <2>. HIDE DEF r
  <2>3. Frame(w, r) BY <2>2 DEF Frame, Touched
  <2>4. PICK pos : /\ Listed(pos, Lasts(p, t - 1)) /\ Len(u.fk.get) = Len(pos)
                   /\ \A k \in 1 .. Len(pos) : u.fk.get[k] = w.st.cache[p[pos[k]].ent].bytes
    BY DEF Touched
  <2> DEFINE q == Append(pos, t)
  <2>5. Listed(q, Lasts(p, t))
    <3>1. \A x \in Lasts(p, t - 1) : x < t BY <1>1 DEF Lasts
    <3>2. Lasts(p, t) = Lasts(p, t - 1) \cup {t} BY <1>1, <1>3, LastsNext
    <3>. QED BY <1>1, <2>4, <3>1, <3>2, ListedNext
  <2>6. Len(r.fk.get) = Len(q)
        /\ \A k \in 1 .. Len(q) : r.fk.get[k] = w.st.cache[p[q[k]].ent].bytes
    <3> DEFINE n == Len(pos)
    <3>1. n \in Nat /\ pos \in Seq(Nat) BY <2>4 DEF Listed
    <3>2. Len(q) = n + 1 /\ q[n + 1] = t /\ \A k \in 1 .. n : q[k] = pos[k] BY <1>1, <3>1
    <3>3. u.fk.get \in Seq(Nat) BY <2>1 DEF Worlds, Fakes
    <3>. HIDE DEF q
    <3>5. Len(r.fk.get) = n + 1 /\ r.fk.get[n + 1] = b
          /\ \A k \in 1 .. n : r.fk.get[k] = u.fk.get[k]
      <4> DEFINE g == u.fk.get
      <4>1. g \in Seq(Nat) /\ Len(g) = n /\ r.fk.get = Append(g, b) BY <2>2, <2>4, <3>3
      <4>. HIDE DEF b, g, n
      <4>2. Len(r.fk.get) = n + 1 /\ r.fk.get[n + 1] = b /\ \A k \in 1 .. n : r.fk.get[k] = g[k]
        BY <1>2, <3>1, <4>1
      <4>. QED BY <4>2 DEF g
    <3>6. \A k \in 1 .. n + 1 : k \in 1 .. n \/ k = n + 1 BY <3>1
    <3>. QED BY <2>4, <3>2, <3>5, <3>6
  <2>7. Touched(w, p, t, r)
    <3>. HIDE DEF q
    <3>. QED BY <2>2, <2>3, <2>5, <2>6 DEF Touched
  <2>. QED BY <1>3, <2>7 DEF r
<1>4. CASE ~LastOfGroup(p, t)
  <2>1. Lasts(p, t) = Lasts(p, t - 1) BY <1>1, <1>4, LastsNext
  <2>2. Touched(w, p, t, u) BY <2>1 DEF Touched
  <2>. QED BY <1>4, <2>2
<1>. QED BY <1>3, <1>4

LEMMA TouchGroupsFacts ==
    ASSUME NEW w \in Worlds, InOrder(w), NEW p, PendsCached(w, p), w.fk.get = <<>>
    PROVE  Touched(w, p, Len(p), TouchGroups(w, p))
<1> DEFINE N == Len(p)
           nx(u, t) == IF LastOfGroup(p, t) THEN mht_get(u, w.st.cache[p[t].ent].bytes) ELSE u
           I == [d \in 0 .. N |-> {u \in Worlds : Touched(w, p, d, u)}]
           nxt == [q \in Worlds \X (1 .. N) |-> nx(q[1], q[2])]
           Is(f) == f = [t \in 0 .. N |-> IF t = 0 THEN w ELSE nx(f[t - 1], t)]
           touch == CHOOSE f : Is(f)
<1>1. N \in Nat BY DEF PendsCached, Pends
<1>2. I \in [0 .. N -> SUBSET Worlds] OBVIOUS
<1>3. TouchGroups(w, p) = touch[N] BY DEF TouchGroups
<1>4. Touched(w, p, 0, w)
  <2>1. Listed(<<>>, {}) BY DEF Listed
  <2>2. Lasts(p, 0) = {} BY DEF Lasts
  <2>3. \E pos : /\ Listed(pos, Lasts(p, 0)) /\ Len(w.fk.get) = Len(pos)
                 /\ \A k \in 1 .. Len(pos) : w.fk.get[k] = w.st.cache[p[pos[k]].ent].bytes
    <3> DEFINE none == <<>>
    <3>1. Listed(none, Lasts(p, 0)) BY <2>1, <2>2
    <3>2. Len(w.fk.get) = Len(none) OBVIOUS
    <3>3. 1 .. Len(none) = {} OBVIOUS
    <3>. HIDE DEF none
    <3>4. \A k \in 1 .. Len(none) : w.fk.get[k] = w.st.cache[p[none[k]].ent].bytes BY <3>3
    <3>. QED BY <3>1, <3>2, <3>4
  <2>. QED BY <2>3 DEF Touched, Frame
<1>5. w \in I[0] BY <1>1, <1>4
<1>. HIDE DEF N
<1>6. ASSUME NEW d \in 1 .. N, NEW x \in I[d - 1] PROVE nx(x, d) \in I[d]
  <2>1. d - 1 \in 0 .. N /\ d \in 0 .. N BY <1>1
  <2>2. Touched(w, p, d - 1, x) BY <2>1
  <2>3. Touched(w, p, d, nx(x, d)) BY <2>2, TouchedNext DEF N
  <2>4. nx(x, d) \in Worlds BY <2>3 DEF Touched
  <2>. HIDE DEF nx
  <2>. QED BY <2>1, <2>3, <2>4
<1>. HIDE DEF nx
<1>7. ASSUME NEW d \in 1 .. N, NEW x \in I[d - 1] PROVE nxt[<<x, d>>] = nx(x, d)
  <2>1. x \in Worlds BY <1>1
  <2>. QED BY <2>1
<1>8. PICK f : Iterates(f, N, Worlds, w, nxt) /\ \A d \in 0 .. N : f[d] \in I[d]
  <2>1. \A d \in 1 .. N : \A x \in I[d - 1] : nxt[<<x, d>>] \in I[d] BY <1>6, <1>7
  <2>. HIDE DEF I, nxt
  <2>. QED BY <1>1, <1>2, <1>5, <2>1, RecursionWithin
<1>9. Is(f)
  <2>1. f \in [0 .. N -> Worlds] /\ f[0] = w BY <1>8 DEF Iterates
  <2>2. ASSUME NEW d \in 1 .. N PROVE f[d] = nx(f[d - 1], d)
    <3>. HIDE DEF nxt, I
    <3>1. d - 1 \in 0 .. N BY <1>1
    <3>2. f[d - 1] \in I[d - 1] BY <1>8, <3>1
    <3>3. f[d] = nxt[<<f[d - 1], d>>] BY <1>8 DEF Iterates
    <3>. QED BY <1>7, <3>2, <3>3
  <2>. QED BY <1>1, <2>1, <2>2
<1>10. Is(touch)
  <2>. HIDE DEF Is
  <2>. QED BY <1>9
<1>. HIDE DEF touch
<1> DEFINE S == {d \in 0 .. N : touch[d] \in I[d]}
<1>11. \A t \in 0 .. N : touch[t] = IF t = 0 THEN w ELSE nx(touch[t - 1], t) BY <1>10
<1>. HIDE DEF I
<1>12. 0 \in S BY <1>1, <1>5, <1>11
<1>13. ASSUME NEW d \in 1 .. N, d - 1 \in S PROVE d \in S
  <2>1. d \in 0 .. N /\ d # 0 /\ touch[d - 1] \in I[d - 1] BY <1>1, <1>13
  <2>2. touch[d] = nx(touch[d - 1], d) BY <1>11, <2>1
  <2>. QED BY <1>6, <2>1, <2>2
<1>14. N \in S
  <2>1. N \in 0 .. N BY <1>1
  <2>. HIDE DEF S
  <2>. QED BY <1>1, <1>12, <1>13, <2>1, Induction
<1>15. touch[N] \in I[N] BY <1>14
<1>16. Touched(w, p, N, touch[N]) BY <1>1, <1>15 DEF I
<1>. QED BY <1>3, <1>16 DEF N

\* Batch calls leave the table in order.
LEMMA SameSlots ==
    ASSUME NEW w \in Worlds, InOrder(w), NEW u, u.st = w.st,
           \A v \in Vals : u.vals[v].batch_slot = w.vals[v].batch_slot
    PROVE  InOrder(u) /\ Contents(u) = Contents(w)
<1>1. ASSUME NEW t \in Slots, w.st.cache[t] # Empty
      PROVE  u.vals[w.st.cache[t].value].batch_slot = t
  <2>1. w.st.cache \in Tables BY DEF InOrder
  <2>2. w.st.cache[t].value \in Vals BY <1>1, <2>1, EntryFacts
  <2>. QED BY <1>1, <2>2 DEF InOrder, Named
<1>. QED BY <1>1 DEF InOrder, Named, Contents

\* Giving up leaves an empty cache, one more dump and sync, and the table off.
GivenUp(w, u) ==
    /\ u \in Worlds /\ InOrder(u) /\ Contents(u) = {} /\ u.st.n_cached = 0
    /\ u.st.off /\ u.ctx.state = "HS_REJECT_ALL" /\ u.ctx.evictions = w.ctx.evictions + 1
    /\ u.ctx.tuple_count = w.ctx.tuple_count /\ u.sel = w.sel /\ u.done = w.done
    /\ u.fk.eval = w.fk.eval /\ u.fk.get = w.fk.get
    /\ u.fk.n_dump = w.fk.n_dump + 1 /\ u.fk.n_sync = w.fk.n_sync + 1
    /\ \A v \in Vals : u.vals[v].tuple_count = w.vals[v].tuple_count

LEMMA AbandonFacts ==
    ASSUME NEW w \in Worlds, InOrder(w)
    PROVE  GivenUp(w, Abandon(w))
<1> DEFINE fk == [w.fk EXCEPT !.n_sync = @ + 1, !.n_dump = @ + 1]
           r == [w EXCEPT !.fk = fk]
           q == qexec_gby_cache_clear(r)
           ctx == [q.ctx EXCEPT !.state = "HS_REJECT_ALL", !.evictions = @ + 1]
           st == [q.st EXCEPT !.off = TRUE]
           u == [q EXCEPT !.ctx = ctx, !.st = st]
<1>1. w.fk \in Fakes /\ w.fk.n_dump + 1 \in Nat /\ w.fk.n_sync + 1 \in Nat BY DEF Worlds, Fakes
<1>2. qdata_save_agg_htable_to_list(h_sync(w)) = r
  BY <1>1 DEF qdata_save_agg_htable_to_list, h_sync, Worlds, Fakes
<1>3. /\ fk \in Fakes /\ fk.n_dump = w.fk.n_dump + 1 /\ fk.n_sync = w.fk.n_sync + 1
      /\ fk.eval = w.fk.eval /\ fk.get = w.fk.get
  BY <1>1 DEF Fakes
<1>. HIDE DEF fk
<1>4. r \in Worlds /\ r.st = w.st /\ r.vals = w.vals /\ r.ctx = w.ctx /\ r.sel = w.sel
      /\ r.done = w.done /\ r.fk = fk
  BY <1>3 DEF Worlds
<1>. HIDE DEF r
<1>5. Cleared(r, q)
  <2>1. r.st.cache \in Tables BY <1>4 DEF InOrder
  <2>. QED BY <1>4, <2>1, ClearInOrder
<1>. HIDE DEF q
<1>6. Abandon(w) = u
  <2>1. q \in Worlds BY <1>5 DEF Cleared
  <2>2. Abandon(w) = [q EXCEPT !.ctx.state = "HS_REJECT_ALL", !.ctx.evictions = @ + 1, !.st.off = TRUE]
    BY <1>2 DEF Abandon, q
  <2>. QED BY <2>1, <2>2 DEF Worlds, Contexts, States
<1>7. q \in Worlds /\ q.ctx = w.ctx BY <1>4, <1>5 DEF Cleared, Frame
<1>8. ctx \in Contexts /\ ctx.state = "HS_REJECT_ALL" /\ ctx.evictions = w.ctx.evictions + 1
      /\ ctx.tuple_count = w.ctx.tuple_count
  <2>1. q.ctx \in Contexts BY <1>7 DEF Worlds
  <2>2. q.ctx.evictions + 1 \in Nat BY <2>1 DEF Contexts
  <2>. QED BY <1>7, <2>1, <2>2 DEF Contexts
<1>9. st \in States /\ st.off /\ st.cache = q.st.cache /\ st.n_cached = q.st.n_cached
      /\ st.n_pool_free = q.st.n_pool_free
  <2>1. q.st \in States BY <1>7 DEF Worlds
  <2>. QED BY <2>1 DEF States
<1>. HIDE DEF ctx, st
<1>10. u \in Worlds /\ u.st = st /\ u.ctx = ctx /\ u.vals = q.vals /\ u.fk = q.fk /\ u.sel = q.sel
       /\ u.done = q.done
  BY <1>7, <1>8, <1>9 DEF Worlds
<1>. HIDE DEF u
<1>11. InOrder(u) /\ Contents(u) = {} BY <1>5, <1>9, <1>10 DEF Cleared, InOrder, Contents
<1>12. /\ u.sel = w.sel /\ u.done = w.done /\ u.fk.eval = w.fk.eval /\ u.fk.get = w.fk.get
       /\ u.fk.n_dump = w.fk.n_dump + 1 /\ u.fk.n_sync = w.fk.n_sync + 1
       /\ \A v \in Vals : u.vals[v].tuple_count = w.vals[v].tuple_count
  BY <1>3, <1>4, <1>5, <1>10 DEF Cleared, Frame
<1>. QED BY <1>5, <1>6, <1>8, <1>9, <1>10, <1>11, <1>12 DEF GivenUp, Cleared

\* The batch calls and the touches that pending rows p ask for.
CallsFor(w, p, calls) ==
    \E pos : /\ Listed(pos, Firsts(p, Len(p))) /\ Len(calls) = Len(pos)
             /\ \A k \in 1 .. Len(pos) : calls[k] = CallFor(w, p, pos[k])
TouchesFor(w, p, touch) ==
    \E pos : /\ Listed(pos, Lasts(p, Len(p))) /\ Len(touch) = Len(pos)
             /\ \A k \in 1 .. Len(pos) : touch[k] = w.st.cache[p[pos[k]].ent].bytes

\* The rows of group v among p.
RowsFor(w, p, v) ==
    IF \E x \in 1 .. Len(p) : GroupAt(w, p, x) = v THEN Len(RowsOf(p, w.vals[v].batch_slot)) ELSE 0

\* World u is w with pending rows p flushed, the table given up after them or not.
Flushed(w, p, off, u) ==
    /\ u \in Worlds /\ InOrder(u) /\ u.sel = w.sel /\ u.done = Len(p)
    /\ u.ctx.tuple_count = w.ctx.tuple_count + Len(p)
    /\ CallsFor(w, p, u.fk.eval) /\ TouchesFor(w, p, u.fk.get)
    /\ \A v \in Vals : u.vals[v].tuple_count = w.vals[v].tuple_count + RowsFor(w, p, v)
    /\ u.st.n_cached = (IF off THEN 0 ELSE w.st.n_cached)
    /\ u.st.off = (off \/ w.st.off)
    /\ u.ctx.state = (IF off THEN "HS_REJECT_ALL" ELSE w.ctx.state)
    /\ LET once == IF off THEN 1 ELSE 0
       IN /\ u.ctx.evictions = w.ctx.evictions + once
          /\ u.fk.n_dump = w.fk.n_dump + once /\ u.fk.n_sync = w.fk.n_sync + once

\* The rows a flush does are the first ones.
LEMMA DoneFacts ==
    ASSUME NEW w \in Worlds, NEW n \in Nat, n = Len(w.st.pend), n # 0
    PROVE  LET d == Done(w, n)
               p == SubSeq(w.st.pend, 1, d)
           IN /\ d \in 1 .. n /\ p \in Pends /\ Len(p) = d /\ p # <<>>
              /\ \A t \in 1 .. d : p[t] = w.st.pend[t]
<1> DEFINE d == Done(w, n)  q == w.st.pend  R == [row : Nat, ent : Slots]
<1>1. w.ctx.tuple_count \in Nat BY DEF Worlds, Contexts
<1>2. d \in 1 .. n
  <2> DEFINE r == CheckAt - w.ctx.tuple_count
             y == r \in 1 .. n /\ GivesUp(CheckAt, w.ctx.group_count)
  <2>1. d = IF y THEN r ELSE n BY DEF Done
  <2>2. n \in 1 .. n OBVIOUS
  <2>. QED BY <2>1, <2>2
<1>3. q \in Seq(R) /\ Len(q) = n BY DEF Worlds, States, Pends
<1>. HIDE DEF d, q, R
<1>4. SubSeq(q, 1, d) \in Seq(R) /\ Len(SubSeq(q, 1, d)) = d /\ \A t \in 1 .. d : SubSeq(q, 1, d)[t] = q[t]
  BY <1>2, <1>3
<1>5. SubSeq(q, 1, d) # <<>>
  <2>1. ASSUME SubSeq(q, 1, d) = <<>> PROVE d = 0 BY <1>4, <2>1
  <2>. QED BY <1>2, <2>1
<1>. QED BY <1>2, <1>4, <1>5 DEF d, q, R, Pends

LEMMA FlushFacts ==
    ASSUME NEW w \in Worlds, InOrder(w), w.fk.eval = <<>>, w.fk.get = <<>>,
           PendsCached(w, w.st.pend), Len(w.st.pend) # 0
    PROVE  LET n == Len(w.st.pend)
               p == SubSeq(w.st.pend, 1, Done(w, n))
           IN Flushed(w, p, GivesUp(w.ctx.tuple_count + Done(w, n), w.ctx.group_count),
                      qexec_batch_gby_flush(w, n))
<1> DEFINE n == Len(w.st.pend)  d == Done(w, n)  p == SubSeq(w.st.pend, 1, d)
           x == EvalGroups(w, p)  y == TouchGroups(x, p)
           ctx == [y.ctx EXCEPT !.tuple_count = @ + d]
           z == [y EXCEPT !.ctx = ctx, !.sel = w.sel, !.done = d]
           off == GivesUp(w.ctx.tuple_count + d, w.ctx.group_count)
           u == IF off THEN Abandon(z) ELSE z
<1>1. n \in Nat /\ n # 0 BY DEF PendsCached, Pends
<1>2. d \in 1 .. n /\ p \in Pends /\ Len(p) = d /\ p # <<>> /\ \A t \in 1 .. d : p[t] = w.st.pend[t]
  <2>. HIDE DEF n
  <2>1. n = Len(w.st.pend) BY DEF n
  <2>. QED BY <1>1, <2>1, DoneFacts
<1>3. qexec_batch_gby_flush(w, n) =
        LET r == [y EXCEPT !.ctx.tuple_count = @ + Len(p), !.sel = w.sel, !.done = Len(p)]
        IN IF GivesUp(r.ctx.tuple_count, r.ctx.group_count) /\ p # <<>> THEN Abandon(r) ELSE r
  BY DEF qexec_batch_gby_flush
<1>. HIDE DEF p
<1>4. PendsCached(w, p)
  <2>1. \A t \in 1 .. d : t \in 1 .. n BY <1>1, <1>2
  <2>. HIDE DEF d
  <2>. QED BY <1>2, <2>1 DEF PendsCached
<1>5. Evaluated(w, p, Len(p), x) BY <1>4, EvalGroupsFacts
<1>. HIDE DEF x
<1>6. x \in Worlds /\ x.st = w.st BY <1>5 DEF Evaluated
<1>7. InOrder(x) BY <1>5, <1>6, SameSlots DEF Evaluated
<1>8. PendsCached(x, p) /\ x.fk.get = <<>> BY <1>4, <1>5, <1>6 DEF PendsCached, Evaluated
<1>9. Touched(x, p, Len(p), y) BY <1>6, <1>7, <1>8, TouchGroupsFacts
<1>. HIDE DEF y
<1>10. y \in Worlds /\ y.st = w.st /\ y.vals = x.vals /\ y.ctx = w.ctx /\ y.fk.eval = x.fk.eval
       /\ y.fk.n_dump = w.fk.n_dump /\ y.fk.n_sync = w.fk.n_sync
  BY <1>5, <1>6, <1>9 DEF Touched, Frame, Evaluated
<1>11. InOrder(y) BY <1>6, <1>7, <1>10, SameTable
<1>12. d \in Nat BY <1>1, <1>2
<1>. HIDE DEF d
<1>13. ctx \in Contexts /\ ctx.tuple_count = w.ctx.tuple_count + d /\ ctx.state = w.ctx.state
       /\ ctx.evictions = w.ctx.evictions /\ ctx.group_count = w.ctx.group_count
  <2>1. y.ctx \in Contexts BY <1>10 DEF Worlds
  <2>2. y.ctx.tuple_count + d \in Nat BY <1>12, <2>1 DEF Contexts
  <2>. QED BY <1>10, <2>1, <2>2 DEF Contexts
<1>14. [y EXCEPT !.ctx.tuple_count = @ + Len(p), !.sel = w.sel, !.done = Len(p)] = z
  BY <1>2, <1>10 DEF Worlds
<1>. HIDE DEF ctx
<1>15. z \in Worlds /\ z.ctx = ctx /\ z.sel = w.sel /\ z.done = d /\ z.st = y.st /\ z.vals = y.vals
       /\ z.fk = y.fk
  <2>1. w.sel \in Seq(Int) BY DEF Worlds
  <2>. QED BY <1>10, <1>12, <1>13, <2>1 DEF Worlds
<1>. HIDE DEF z
<1>16. InOrder(z) BY <1>11, <1>15, SameTable
<1>17. qexec_batch_gby_flush(w, n) = u BY <1>2, <1>3, <1>13, <1>14, <1>15
<1>18. CallsFor(w, p, z.fk.eval)
  <2>1. z.fk.eval = x.fk.eval BY <1>10, <1>15
  <2>2. CallsFor(w, p, x.fk.eval) BY <1>5 DEF Evaluated, CallsFor
  <2>. QED BY <2>1, <2>2
<1>19. TouchesFor(w, p, z.fk.get) BY <1>6, <1>9, <1>15 DEF Touched, TouchesFor
<1>20. \A v \in Vals : z.vals[v].tuple_count = w.vals[v].tuple_count + RowsFor(w, p, v)
  BY <1>5, <1>10, <1>15 DEF Evaluated, RowsFor
<1>21. CASE off
  <2>1. u = Abandon(z) BY <1>21
  <2>2. GivenUp(z, u) BY <1>15, <1>16, <2>1, AbandonFacts
  <2>. HIDE DEF u, off
  <2>3. u.st.off = (off \/ w.st.off)
    <3>1. u.st.off \in BOOLEAN /\ u.st.off BY <2>2 DEF GivenUp, Worlds, States
    <3>. QED BY <1>21, <3>1
  <2>4. CallsFor(w, p, u.fk.eval) /\ TouchesFor(w, p, u.fk.get)
        /\ \A v \in Vals : u.vals[v].tuple_count = w.vals[v].tuple_count + RowsFor(w, p, v)
    BY <1>18, <1>19, <1>20, <2>2 DEF GivenUp
  <2>5. /\ u \in Worlds /\ InOrder(u) /\ u.sel = w.sel /\ u.done = Len(p)
        /\ u.ctx.tuple_count = w.ctx.tuple_count + Len(p)
        /\ u.st.n_cached = 0 /\ u.ctx.state = "HS_REJECT_ALL"
        /\ u.ctx.evictions = w.ctx.evictions + 1
        /\ u.fk.n_dump = w.fk.n_dump + 1 /\ u.fk.n_sync = w.fk.n_sync + 1
    BY <1>2, <1>10, <1>13, <1>15, <2>2 DEF GivenUp
  <2>6. Flushed(w, p, off, u) BY <1>21, <2>3, <2>4, <2>5 DEF Flushed
  <2>. QED BY <1>17, <2>6 DEF d, n, p, off
<1>22. CASE ~off
  <2>1. u = z BY <1>22
  <2>. HIDE DEF u, off
  <2>2. /\ w.ctx.evictions \in Nat /\ w.fk.n_dump \in Nat /\ w.fk.n_sync \in Nat
        /\ w.st.off \in BOOLEAN
    BY DEF Worlds, Contexts, Fakes, States
  <2>. QED BY <1>2, <1>10, <1>13, <1>15, <1>16, <1>17, <1>18, <1>19, <1>20, <1>22, <2>1, <2>2
         DEF Flushed, d, n, p, off
<1>. QED BY <1>21, <1>22

==============================================================================
